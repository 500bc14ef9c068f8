------------------------- MODULE ThreadsTimerProofs -------------------------
(***************************************************************************)
(* The continuations, the blocked events and the timer of Threads, proved  *)
(* for every set of threads and mutexes.                                   *)
(***************************************************************************)
EXTENDS ThreadsProofs

USE DEF threadVars, eventVars, joinVars, mutexVars, releaseVars, relationVars,
        frameVars, clockVars, recordVars, timerVars, handleVars, controlVars
------------------------------------------------------------------------------
(* Exactly the threads that wait to go on have a continuation.               *)

\* Every thread that is alive and is not the current one.
HasContinuation ==
  \A t \in Thread : executionState[t] \notin {"UNBORN", "DEAD"} /\ (~Idle => t # Current)
                      => continuation[t]

\* The current thread, except while the timer interrupt that may have woken it is
\* handled, goes on by itself.
CurrentGoesOn == ~Idle /\ (kstep # "deliver" \/ caller = "allow") => ~continuation[Current]

ContinuationIInv == HasContinuation /\ CurrentGoesOn

\* The second thread of the run queue is another one than the current one.
LEMMA SecondIsOther ==
  ASSUME TypeOK, RunQueueInv, ~Idle, Len(runQueue) # 1
  PROVE  /\ runQueue[2] \in Thread /\ runQueue[2] # Current
         /\ Tail(runQueue) \in Seq(Thread) /\ Tail(runQueue) # <<>>
         /\ Head(Tail(runQueue)) = runQueue[2]
<1>1. runQueue \in Seq(Thread) /\ runQueue # <<>>
  BY DEF TypeOK, Idle
<1>2. Len(runQueue) \in Nat /\ Len(runQueue) > 1
  <2>1. Len(runQueue) \in Nat /\ Len(runQueue) # 0
    BY <1>1
  <2>2. QED
    BY <2>1
<1>3. 1 \in DOMAIN runQueue /\ 2 \in DOMAIN runQueue /\ Current = runQueue[1]
  BY <1>1, <1>2 DEF Current
<1>4. runQueue[2] # Current
  BY <1>3 DEF RunQueueInv
<1>5. Tail(runQueue) \in Seq(Thread) /\ Len(Tail(runQueue)) = Len(runQueue) - 1
  BY <1>1
<1>6. Tail(runQueue) # <<>>
  <2>1. Len(Tail(runQueue)) # 0 /\ Len(<<>>) = 0
    BY <1>2, <1>5
  <2>2. QED
    BY <2>1
<1>7. Head(Tail(runQueue)) = runQueue[2]
  <2>1. \A i \in 1 .. Len(runQueue) - 1 : Tail(runQueue)[i] = runQueue[i + 1]
    BY <1>1
  <2>2. 1 \in 1 .. Len(runQueue) - 1 /\ 1 + 1 = 2
    BY <1>2
  <2>3. Tail(runQueue)[1] = runQueue[2]
    BY <2>1, <2>2
  <2>4. QED
    BY <1>5, <1>6, <2>3
<1>8. runQueue[2] \in Thread
  BY <1>1, <1>3
<1>9. QED
  BY <1>4, <1>5, <1>6, <1>7, <1>8

LEMMA ContinuationSuffices ==
  ASSUME TypeInv, RunQueueInv, ContinuationIInv
  PROVE  ContinuationInv
<1> USE DEF TypeInv, ContinuationIInv
<1>1. ASSUME NEW t \in Thread, executionState[t] \in {"WAITING", "STOPPED"} PROVE continuation[t]
  <2>1. ~Idle => t # Current
    BY <1>1, CurrentRuns DEF RunningStates
  <2>2. QED
    BY <1>1, <2>1 DEF HasContinuation
<1>2. ASSUME NEW i \in DOMAIN runQueue, i > 1 PROVE continuation[runQueue[i]]
  <2>1. runQueue \in Seq(Thread) /\ runQueue # <<>> /\ 1 \in DOMAIN runQueue
    BY <1>2, SMTT(30) DEF TypeOK
  <2>2. runQueue[i] \in Thread /\ runQueue[1] = Current
    BY <2>1 DEF Current
  <2>3. runQueue[i] # Current
    BY <1>2, <2>1, <2>2 DEF RunQueueInv
  <2>4. runQueue[i] \in Elements(runQueue)
    BY ElementsMeaning
  <2>5. executionState[runQueue[i]] \in RunningStates
    BY <2>4 DEF RunQueueInv
  <2>6. QED
    BY <2>2, <2>3, <2>5 DEF HasContinuation, RunningStates
<1>3. kstep = "deliver" /\ caller = "allow" => ~Idle
  BY DEF KernelHasThread
<1>4. QED
  BY <1>1, <1>2, <1>3 DEF ContinuationInv, CurrentGoesOn

\* What happens when the current thread leaves the run queue.
LEMMA NotRunningKeepsContinuations ==
  ASSUME TypeOK, RunQueueInv, HasContinuation, ~Idle, NEW state, NEW h \in BOOLEAN,
         ThreadNotRunning(Current, state, h), h \/ state = "DEAD"
  PROVE  ContinuationIInv'
<1> DEFINE c == Current
<1>1. c \in Thread /\ runQueue \in Seq(Thread) /\ runQueue # <<>> /\ runQueue' = Tail(runQueue)
  BY CurrentRuns DEF TypeOK, Idle, ThreadNotRunning
<1>2. /\ executionState'[c] = state
      /\ \A u \in Thread \ {c} : executionState'[u] = executionState[u]
  BY <1>1 DEF ThreadNotRunning, TypeOK
<1>3. CASE Idle'
  <2>1. continuation' = [continuation EXCEPT ![c] = h]
    BY <1>3 DEF ThreadNotRunning, Idle
  <2>2. QED
    BY <1>1, <1>2, <1>3, <2>1 DEF HasContinuation, CurrentGoesOn, ContinuationIInv, TypeOK
<1>4. CASE ~Idle'
  <2>1. Len(runQueue) # 1
    BY <1>1, <1>4 DEF Idle
  <2>2. Current' = runQueue[2] /\ runQueue[2] \in Thread /\ runQueue[2] # c
    BY <1>1, <2>1, SecondIsOther DEF Current
  <2>3. /\ continuation' = [continuation EXCEPT ![c] = h, ![runQueue[2]] = FALSE]
        /\ kstep' = "resume"
    BY <1>1, <1>4, <2>1, SecondIsOther DEF ThreadNotRunning, Idle
  <2> HIDE DEF c
  <2>4. /\ continuation'[c] = h /\ ~continuation'[runQueue[2]]
        /\ \A u \in Thread \ {c, runQueue[2]} : continuation'[u] = continuation[u]
    BY <1>1, <2>2, <2>3 DEF TypeOK
  <2>5. HasContinuation'
    <3>1. state # "DEAD" => continuation'[c]
      BY <2>4
    <3>2. \A u \in Thread : u # c /\ u # runQueue[2] /\ executionState'[u] \notin {"UNBORN", "DEAD"}
                              => continuation'[u]
      BY <1>2, <2>4 DEF HasContinuation, c
    <3>3. QED
      BY <1>2, <1>4, <2>2, <3>1, <3>2 DEF HasContinuation
  <2>6. QED
    BY <2>2, <2>4, <2>5 DEF CurrentGoesOn, ContinuationIInv
<1>5. QED
  BY <1>3, <1>4

LEMMA YieldKeepsContinuations ==
  ASSUME TypeOK, RunQueueInv, HasContinuation, ~Idle, ~continuation[Current],
         YieldThread(Current), SameStates
  PROVE  ContinuationIInv'
<1> DEFINE c == Current
<1>1. c \in Thread /\ executionState[c] \in RunningStates /\ kstep' = "resume"
  BY CurrentRuns DEF YieldThread
<1>2. \A u \in Thread : executionState'[u] \notin {"UNBORN", "DEAD"}
                          => executionState[u] \notin {"UNBORN", "DEAD"}
  BY DEF SameStates, RunningStates
<1>3. CASE Len(runQueue) = 1
  BY <1>1, <1>2, <1>3 DEF YieldThread, HasContinuation, CurrentGoesOn, ContinuationIInv, Idle,
     Current
<1>4. CASE Len(runQueue) # 1
  <2>1. /\ runQueue' = Append(Tail(runQueue), c)
        /\ continuation' = [continuation EXCEPT ![c] = TRUE, ![runQueue[2]] = FALSE]
    BY <1>4 DEF YieldThread
  <2>2. Current' = runQueue[2] /\ runQueue[2] \in Thread /\ runQueue[2] # c /\ ~Idle'
    BY <1>1, <1>4, <2>1, SecondIsOther, HeadOfAppend DEF Current, Idle
  <2> HIDE DEF c
  <2>3. /\ continuation'[c] /\ ~continuation'[runQueue[2]]
        /\ \A u \in Thread \ {c, runQueue[2]} : continuation'[u] = continuation[u]
    BY <1>1, <2>1, <2>2 DEF TypeOK
  <2>4. HasContinuation'
    BY <1>2, <2>2, <2>3 DEF HasContinuation, c
  <2>5. QED
    BY <2>2, <2>3, <2>4 DEF CurrentGoesOn, ContinuationIInv
<1>5. QED
  BY <1>3, <1>4

\* A step that keeps the current thread and creates none.
SameCurrent ==
  /\ (Idle' <=> Idle) /\ (~Idle => Current' = Current)
  /\ UNCHANGED continuation
  /\ \A t \in Thread : executionState'[t] \notin {"UNBORN", "DEAD"}
                         => executionState[t] \notin {"UNBORN", "DEAD"}
  /\ ~Idle /\ (kstep' # "deliver" \/ caller' = "allow") => kstep # "deliver" \/ caller = "allow"

LEMMA SameCurrentKeeps ==
  ASSUME ContinuationIInv, SameCurrent
  PROVE  ContinuationIInv'
  BY DEF ContinuationIInv, SameCurrent, HasContinuation, CurrentGoesOn

\* %signal-thread-event by a current thread, and by the timer interrupt when there may
\* be none: the thread it wakes has a continuation.
LEMMA SignalKeepsContinuations ==
  ASSUME TypeOK, ContinuationIInv, NEW u \in Thread, NEW event, SignalThread(u, event),
         UNCHANGED <<continuation, kstep, caller>>,
         Idle => kstep = "deliver" /\ caller = "interrupt"
  PROVE  ContinuationIInv'
<1>1. \A t \in Thread : executionState'[t] \notin {"UNBORN", "DEAD"}
                          => executionState[t] \notin {"UNBORN", "DEAD"}
  BY DEF SignalThread, Wakes, TypeOK
<1>2. CASE ~Idle
  BY <1>1, <1>2, SignalKeepsCurrent, SameCurrentKeeps DEF SameCurrent, Idle
<1>3. CASE Idle
  <2>1. HasContinuation'
    BY <1>1, <1>3 DEF ContinuationIInv, HasContinuation
  <2>2. CurrentGoesOn'
    BY <1>3 DEF CurrentGoesOn
  <2>3. QED
    BY <2>1, <2>2 DEF ContinuationIInv
<1>4. QED
  BY <1>2, <1>3

LEMMA KernelContinuations ==
  ASSUME TypeInv, RunQueueInv, ContinuationIInv, KernelStep
  PROVE  ContinuationIInv'
<1> USE DEF TypeInv
<1>1. CASE \/ ResumeCurrentThread \/ HandleOneEvent \/ LockSuspend \/ LockReturn
           \/ DiscardTimerRecord \/ DiscardReturn \/ ExitJoins \/ ExitMutexesDone
           \/ ReleaseReturn
  <2>1. SameCurrent
    BY <1>1 DEF ResumeCurrentThread, Return, HandleOneEvent, BeginExit, LockSuspend,
       Suspend, LockReturn, DiscardTimerRecord, DiscardReturn, ExitJoins, ExitMutexesDone,
       BeginRelease, ReleaseReturn, SameCurrent, Idle, Current
  <2>2. QED
    BY <2>1, SameCurrentKeeps
<1>2. CASE HandleReturn
  <2>1. kstep = "handle"
    BY <1>2 DEF HandleReturn
  <2>2. ~Idle
    BY <2>1, CurrentType
  <2>3. CASE ThreadNotRunning(Current, "WAITING", TRUE)
    BY <2>2, <2>3, NotRunningKeepsContinuations DEF ContinuationIInv
  <2>4. CASE ~ThreadNotRunning(Current, "WAITING", TRUE)
    <3>1. UNCHANGED threadVars /\ kstep' # "deliver"
      BY <1>2, <2>4 DEF HandleReturn, Return
    <3>2. SameCurrent
      BY <2>1, <3>1 DEF SameCurrent, Idle, Current
    <3>3. QED
      BY <3>2, SameCurrentKeeps
  <2>5. QED
    BY <2>3, <2>4
<1>3. CASE DeliverOneRecord
  <2>1. /\ Head(timerRecords).thread \in Thread
        /\ SignalThread(Head(timerRecords).thread, Head(timerRecords).event)
    BY <1>3, DeliverOneRecordSignals DEF TimerRecord
  <2>2. /\ UNCHANGED <<continuation, kstep, caller>>
        /\ Idle => kstep = "deliver" /\ caller = "interrupt"
    BY <1>3 DEF DeliverOneRecord, KernelHasThread
  <2>3. QED
    BY <2>1, <2>2, SignalKeepsContinuations
<1>4. CASE DeliverReturn
  <2>1. kstep = "deliver" /\ UNCHANGED executionState
    BY <1>4 DEF DeliverReturn
  <2>2. CASE caller = "allow"
    <3>1. UNCHANGED threadVars /\ kstep' = "handle"
      BY <1>4, <2>2 DEF DeliverReturn
    <3>2. QED
      BY <2>2, <3>1, SameCurrentKeeps DEF SameCurrent, Idle, Current
  <2>3. CASE Idle /\ caller # "allow"
    <3>1. UNCHANGED threadVars
      BY <1>4, <2>3 DEF DeliverReturn
    <3>2. QED
      BY <2>3, <3>1, SameCurrentKeeps DEF SameCurrent, Idle, Current
  <2>4. CASE ~Idle /\ caller # "allow" /\ continuation[Current]
    <3>1. /\ continuation' = [continuation EXCEPT ![Current] = FALSE]
          /\ UNCHANGED runQueue
      BY <1>4, <2>4 DEF DeliverReturn
    <3>2. Current \in Thread /\ Current' = Current /\ (Idle' <=> Idle)
      BY <2>4, <3>1, CurrentRuns DEF Current, Idle
    <3>3. QED
      BY <2>1, <2>4, <3>1, <3>2 DEF ContinuationIInv, HasContinuation, CurrentGoesOn, TypeOK
  <2>5. CASE ~Idle /\ caller # "allow" /\ ~continuation[Current] /\ YieldThread(Current)
    <3>1. SameStates
      BY <2>1 DEF SameStates
    <3>2. QED
      BY <2>5, <3>1, YieldKeepsContinuations DEF ContinuationIInv
  <2>6. CASE ~Idle /\ caller # "allow" /\ ~continuation[Current] /\ ~YieldThread(Current)
    <3>1. UNCHANGED <<continuation, runQueue>>
      BY <1>4, <2>6 DEF DeliverReturn
    <3>2. QED
      BY <2>1, <2>6, <3>1 DEF ContinuationIInv, HasContinuation, CurrentGoesOn, Idle, Current
  <2>7. QED
    BY <2>2, <2>3, <2>4, <2>5, <2>6
<1>5. CASE ExitMutex
  <2>1. UNCHANGED <<continuation, kstep, caller>>
    BY <1>5 DEF ExitMutex
  <2>2. CASE UNCHANGED <<executionState, runQueue>>
    BY <2>1, <2>2, SameCurrentKeeps DEF SameCurrent, Idle, Current
  <2>3. ASSUME NEW u \in Thread, SignalThread(u, "#f") PROVE ContinuationIInv'
    BY <1>5, <2>1, <2>3, ExitMutexSignals, SignalKeepsContinuations
  <2>4. QED
    BY <1>5, <2>2, <2>3, ExitMutexSignals
<1>6. CASE ReleaseOne
  <2>1. UNCHANGED <<continuation, kstep, caller>>
    BY <1>6 DEF ReleaseOne
  <2>2. QED
    BY <1>6, <2>1, ReleaseOneSignals, SignalKeepsContinuations
<1>7. CASE ExitDead
  <2>1. kstep = "exit" /\ ThreadNotRunning(Current, "DEAD", FALSE)
    BY <1>7 DEF ExitDead
  <2>2. ~Idle
    BY <2>1, CurrentType
  <2>3. QED
    BY <2>1, <2>2, NotRunningKeepsContinuations DEF ContinuationIInv
<1>8. QED
  BY <1>1, <1>2, <1>3, <1>4, <1>5, <1>6, <1>7 DEF KernelStep

LEMMA ThreadContinuations ==
  ASSUME TypeInv, ContinuationIInv, NEW t \in Thread, ThreadStep(t)
  PROVE  ContinuationIInv'
<1>1. UNCHANGED threadVars /\ kstep = "none" /\ kstep' # "deliver"
  BY DEF ThreadStep, CreateThreadReturn, SignalSelfAdd, UnblockThreadEvents, SleepRegister,
     SleepSuspend, Suspend, SleepReturn, At
<1>2. QED
  BY <1>1, SameCurrentKeeps DEF SameCurrent, Idle, Current

LEMMA UserContinuations ==
  ASSUME TypeInv, RunQueueInv, ContinuationIInv, NEW t \in Thread, UserCall(t)
  PROVE  ContinuationIInv'
<1> USE DEF TypeInv
<1>1. kstep = "none" /\ ~Idle /\ t = Current
  BY DEF UserCall, YieldCurrentThread, SetPreemption, StopCurrentThread,
     SuspendCurrentThread, SignalSelf, SetThreadEventBlock, HandleCurrentThreadEvents,
     AllowThreadEventDelivery, RegisterTimerEvent, DeregisterTimerEvent,
     SetThreadTimerInterval, SleepCurrentThread, LockThreadMutex, EnqueueForMutex,
     UnlockThreadMutex, ExitCurrentThread, DeregisterAllEvents, CreateThread,
     SignalThreadEvent, RestartThread, JoinThread, JoinExitedThread, DetachThread, Calls
<1>2. CASE YieldCurrentThread(t)
  <2>1. YieldThread(Current) /\ ~continuation[Current]
    BY <1>1, <1>2 DEF YieldCurrentThread, ContinuationIInv, CurrentGoesOn
  <2>2. executionState[t] \in RunningStates
    BY <1>1, CurrentRuns
  <2>3. SameStates
    BY <1>2, <2>2 DEF YieldCurrentThread, SameStates, RunningStates, TypeOK
  <2>4. QED
    BY <1>1, <2>1, <2>3, YieldKeepsContinuations DEF ContinuationIInv
<1>3. CASE StopCurrentThread(t)
  <2>1. ThreadNotRunning(Current, "STOPPED", TRUE)
    BY <1>1, <1>3 DEF StopCurrentThread
  <2>2. QED
    BY <1>1, <2>1, NotRunningKeepsContinuations DEF ContinuationIInv
<1>4. ASSUME NEW state \in RunningStates, SetPreemption(t, state) PROVE ContinuationIInv'
  <2>1. executionState[t] \in RunningStates
    BY <1>1, CurrentRuns
  <2>2. /\ UNCHANGED <<runQueue, continuation, kstep, caller>>
        /\ executionState' = [executionState EXCEPT ![t] = state]
    BY <1>4 DEF SetPreemption
  <2>3. QED
    BY <2>1, <2>2, SameCurrentKeeps DEF SameCurrent, RunningStates, Idle, Current, TypeOK
<1>5. ASSUME NEW u \in Thread, CreateThread(t, u) PROVE ContinuationIInv'
  <2>1. /\ executionState' = [executionState EXCEPT ![u] = "RUNNING"]
        /\ runQueue' = Append(runQueue, u)
        /\ continuation' = [continuation EXCEPT ![u] = TRUE]
        /\ executionState[u] = "UNBORN" /\ UNCHANGED <<kstep, caller>>
    BY <1>5 DEF CreateThread
  <2>2. Current' = Current /\ ~Idle'
    BY <1>1, <2>1, HeadOfAppend DEF Current, Idle, TypeOK
  <2>3. u # Current
    BY <1>1, <2>1, CurrentRuns DEF RunningStates
  <2>4. QED
    BY <1>1, <2>1, <2>2, <2>3 DEF ContinuationIInv, HasContinuation, CurrentGoesOn, TypeOK
<1>6. ASSUME NEW u \in Thread, NEW event \in Events, SignalThreadEvent(t, u, event)
      PROVE  ContinuationIInv'
  <2>1. SignalThread(u, event) /\ UNCHANGED <<continuation, kstep, caller>>
    BY <1>6 DEF SignalThreadEvent
  <2>2. QED
    BY <1>1, <2>1, SignalKeepsContinuations
<1>7. ASSUME NEW m \in Mutex, UnlockThreadMutex(t, m) PROVE ContinuationIInv'
  <2>1. HandOver(m) /\ UNCHANGED <<continuation, kstep, caller>>
    BY <1>7 DEF UnlockThreadMutex
  <2>2. CASE UNCHANGED <<executionState, runQueue>>
    BY <2>1, <2>2, SameCurrentKeeps DEF SameCurrent, Idle, Current
  <2>3. ASSUME NEW u \in Thread, SignalThread(u, "#f") PROVE ContinuationIInv'
    BY <1>1, <2>1, <2>3, SignalKeepsContinuations
  <2>4. QED
    BY <2>1, <2>2, <2>3, HandOverSignals
<1>8. ASSUME NEW u \in Thread, NEW discard \in BOOLEAN, NEW event \in Events,
             RestartThread(t, u, discard, event)
      PROVE  ContinuationIInv'
  <2>1. /\ executionState' = [executionState EXCEPT ![u] = "RUNNING"]
        /\ runQueue' = Append(runQueue, u)
        /\ executionState[u] = "STOPPED" /\ UNCHANGED <<continuation, kstep, caller>>
    BY <1>8 DEF RestartThread
  <2>2. Current' = Current /\ ~Idle'
    BY <1>1, <2>1, HeadOfAppend DEF Current, Idle, TypeOK
  <2>3. QED
    BY <1>1, <2>1, <2>2, SameCurrentKeeps DEF SameCurrent, TypeOK
<1>9. ASSUME UNCHANGED threadVars PROVE ContinuationIInv'
  BY <1>1, <1>9 DEF ContinuationIInv, HasContinuation, CurrentGoesOn, Idle, Current
<1>10. CASE ~(\/ YieldCurrentThread(t) \/ StopCurrentThread(t)
              \/ \E state \in RunningStates : SetPreemption(t, state)
              \/ \E m \in Mutex : UnlockThreadMutex(t, m)
              \/ \E u \in Thread :
                   \/ CreateThread(t, u)
                   \/ \E event \in Events : SignalThreadEvent(t, u, event)
                   \/ \E discard \in BOOLEAN, event \in Events :
                        RestartThread(t, u, discard, event))
  BY <1>9, <1>10 DEF UserCall, SuspendCurrentThread, Suspend, SignalSelf,
     UnblockThreadEvents, SetThreadEventBlock, HandleCurrentThreadEvents,
     AllowThreadEventDelivery, RegisterTimerEvent, DeregisterTimerEvent,
     SetThreadTimerInterval, SleepCurrentThread, LockThreadMutex, EnqueueForMutex,
     ExitCurrentThread, DeregisterAllEvents, JoinThread, JoinExitedThread, DetachThread
<1>11. QED
  BY <1>2, <1>3, <1>4, <1>5, <1>6, <1>7, <1>8, <1>10

LEMMA OtherContinuations ==
  ASSUME TypeInv, ContinuationIInv,
         \/ Tick \/ TimerInterrupt
         \/ \E u \in Thread, event \in Events : SignalWhileIdle(u, event)
  PROVE  ContinuationIInv'
<1> USE DEF TypeInv
<1>1. CASE Tick \/ TimerInterrupt
  <2>1. SameCurrent
    BY <1>1 DEF Tick, TimerInterrupt, SameCurrent, Idle, Current
  <2>2. QED
    BY <2>1, SameCurrentKeeps
<1>2. ASSUME NEW u \in Thread, NEW event \in Events, SignalWhileIdle(u, event)
      PROVE  ContinuationIInv'
  <2>1. Idle /\ SignalThread(u, event) /\ kstep = "none"
    BY <1>2 DEF SignalWhileIdle
  <2>2. CASE Wakes(u)
    <3>1. /\ continuation' = [continuation EXCEPT ![u] = FALSE]
          /\ runQueue' = Append(<<>>, u)
      BY <1>2, <2>1, <2>2 DEF SignalWhileIdle, SignalThread, Idle
    <3>2. Current' = u
      BY <3>1 DEF Current
    <3>3. \A t \in Thread : executionState'[t] \notin {"UNBORN", "DEAD"}
                              => executionState[t] \notin {"UNBORN", "DEAD"}
      BY <2>1, <2>2 DEF SignalThread, Wakes, TypeOK
    <3>4. ~Idle'
      BY <3>1 DEF Idle
    <3>5. QED
      BY <2>1, <3>1, <3>2, <3>3, <3>4 DEF ContinuationIInv, HasContinuation, CurrentGoesOn, TypeOK
  <2>3. CASE ~Wakes(u)
    <3>1. UNCHANGED threadVars /\ UNCHANGED <<kstep, caller>>
      BY <1>2, <2>1, <2>3 DEF SignalWhileIdle, SignalThread
    <3>2. QED
      BY <3>1, SameCurrentKeeps DEF SameCurrent, Idle, Current
  <2>4. QED
    BY <2>2, <2>3
<1>3. QED
  BY <1>1, <1>2

\* For any number of threads, run-thread never finds a thread without a continuation
\* to go on with, and the current thread has none left over from an earlier switch.
\* The invariant is said with the threads instead of their places in the run queue:
\* every live thread but the current one has a continuation.
THEOREM ContinuationCorrect == Spec => []ContinuationInv
<1>1. Init => ContinuationIInv
  <2> SUFFICES ASSUME Init PROVE ContinuationIInv
    OBVIOUS
  <2>1. runQueue = <<FirstThread>> /\ FirstThread \in Thread
    BY ConstantsAssumption DEF Init
  <2>2. Current = FirstThread /\ ~Idle
    BY <2>1 DEF Current, Idle
  <2>3. QED
    BY <2>1, <2>2 DEF Init, ContinuationIInv, HasContinuation, CurrentGoesOn
<1>2. TypeInv /\ RunQueueInv /\ ContinuationIInv /\ [Next]_vars => ContinuationIInv'
  <2> SUFFICES ASSUME TypeInv, RunQueueInv, ContinuationIInv, [Next]_vars
               PROVE  ContinuationIInv'
    OBVIOUS
  <2>1. CASE UNCHANGED vars
    BY <2>1 DEF vars, ContinuationIInv, HasContinuation, CurrentGoesOn, Idle, Current
  <2>2. CASE Next
    BY <2>2, KernelContinuations, ThreadContinuations, UserContinuations,
       OtherContinuations DEF Next
  <2>3. QED
    BY <2>1, <2>2
<1>3. QED
  BY <1>1, <1>2, TypeCorrect, RunQueueCorrect, ContinuationSuffices, PTL DEF Spec

------------------------------------------------------------------------------
(* Blocked events wait.                                                      *)

\* handle-thread-events is called, except to unblock the events, only for a thread
\* whose events are not blocked.
HandleAllowed ==
  \/ kstep = "handle" /\ caller # "unblock"
  \/ kstep = "deliver" /\ caller = "allow"
  => blockEvents[Current] # "#t"

\* %add-pending-event drops no event.
LEMMA AddedNotShorter ==
  ASSUME NEW ring \in Seq(Event), NEW found, NEW event \in Event
  PROVE  Len(AddWhenFound(ring, found, event)) >= Len(ring)
<1>1. Len(Append(ring, event)) = Len(ring) + 1 /\ Len(ring) \in Nat
  OBVIOUS
<1>2. ring # <<>> => Len(<<event>> \o Tail(ring)) = Len(ring)
  <2> SUFFICES ASSUME ring # <<>> PROVE Len(<<event>> \o Tail(ring)) = Len(ring)
    OBVIOUS
  <2>1. Tail(ring) \in Seq(Event) /\ Len(Tail(ring)) = Len(ring) - 1
    OBVIOUS
  <2>2. <<event>> \in Seq(Event) /\ Len(<<event>>) = 1
    OBVIOUS
  <2>3. Len(<<event>> \o Tail(ring)) = 1 + (Len(ring) - 1)
    BY <2>1, <2>2
  <2>4. QED
    BY <1>1, <2>3
<1>3. \/ AddWhenFound(ring, found, event) \in {ring, Append(ring, event)}
      \/ ring # <<>> /\ AddWhenFound(ring, found, event) = <<event>> \o Tail(ring)
  BY DEF AddWhenFound
<1>4. QED
  BY <1>1, <1>2, <1>3

LEMMA SignalNotShorter ==
  ASSUME TypeOK, NEW u \in Thread, NEW event \in Event, SignalThread(u, event), NEW t \in Thread
  PROVE  Len(pendingEvents'[t]) >= Len(pendingEvents[t])
<1>1. pendingEvents[t] \in Seq(Event) /\ pendingEvents[u] \in Seq(Event)
  BY DEF TypeOK
<1>2. pendingEvents' = [pendingEvents EXCEPT ![u] = AddPendingEvent(@, event)]
  BY DEF SignalThread
<1>3. CASE t = u
  BY <1>1, <1>2, <1>3, AddedNotShorter DEF AddPendingEvent, TypeOK
<1>4. CASE t # u
  BY <1>1, <1>2, <1>4 DEF TypeOK
<1>5. QED
  BY <1>3, <1>4

LEMMA HandleAllowedStep ==
  ASSUME TypeInv, HandleAllowed, Next
  PROVE  HandleAllowed'
<1> USE DEF TypeInv
<1>1. CASE KernelStep
  <2>1. CASE ResumeCurrentThread \/ HandleOneEvent \/ DeliverReturn
    BY <2>1 DEF ResumeCurrentThread, Return, HandleOneEvent, BeginExit, DeliverReturn,
       YieldThread, HandleAllowed, Current
  <2>2. CASE LockSuspend
    <3>1. kstep = "lock" /\ Suspend(Current, "lock")
      BY <2>2 DEF LockSuspend
    <3>2. Current \in Thread
      BY <3>1, CurrentType
    <3>3. QED
      BY <3>1, <3>2 DEF Suspend, HandleAllowed, Current, TypeOK
  <2>3. CASE DeliverOneRecord
    <3>1. kstep = "deliver" /\ UNCHANGED <<kstep, caller, blockEvents>>
      BY <2>3 DEF DeliverOneRecord
    <3>2. CASE caller = "allow"
      <4>1. ~Idle
        BY <3>1, <3>2 DEF KernelHasThread
      <4>2. Current' = Current
        BY <2>3, <4>1, DeliverOneRecordSignals, SignalKeepsCurrent DEF TimerRecord
      <4>3. QED
        BY <3>1, <3>2, <4>2 DEF HandleAllowed
    <3>3. QED
      BY <3>1, <3>2 DEF HandleAllowed
  <2>4. CASE ~(\/ ResumeCurrentThread \/ HandleOneEvent \/ DeliverReturn \/ LockSuspend
               \/ DeliverOneRecord)
    BY <1>1, <2>4 DEF KernelStep, HandleReturn, Return, ThreadNotRunning, LockReturn,
       DiscardTimerRecord, DiscardReturn, ExitJoins, ExitMutex, ExitMutexesDone,
       BeginRelease, ReleaseOne, ReleaseReturn, ExitDead, HandleAllowed
  <2>5. QED
    BY <2>1, <2>2, <2>3, <2>4
<1>2. ASSUME NEW t \in Thread, ThreadStep(t) PROVE HandleAllowed'
  BY <1>2 DEF ThreadStep, CreateThreadReturn, SignalSelfAdd, UnblockThreadEvents,
     SleepRegister, SleepSuspend, Suspend, SleepReturn, At, HandleAllowed, Current, TypeOK
<1>3. ASSUME NEW t \in Thread, UserCall(t) PROVE HandleAllowed'
  <2>1. CASE SuspendCurrentThread(t) \/ HandleCurrentThreadEvents(t) \/ AllowThreadEventDelivery(t)
    BY <2>1 DEF SuspendCurrentThread, Suspend, HandleCurrentThreadEvents,
       AllowThreadEventDelivery, Calls, HandleAllowed, Current, TypeOK
  <2>2. CASE ~(SuspendCurrentThread(t) \/ HandleCurrentThreadEvents(t) \/ AllowThreadEventDelivery(t))
    BY <1>3, <2>2, ZenonT(60) DEF UserCall, YieldCurrentThread, YieldThread, SetPreemption,
       StopCurrentThread, ThreadNotRunning, SignalSelf,
       UnblockThreadEvents, SetThreadEventBlock, RegisterTimerEvent, DeregisterTimerEvent,
       SetThreadTimerInterval, SleepCurrentThread, LockThreadMutex, EnqueueForMutex,
       UnlockThreadMutex, ExitCurrentThread, BeginExit, DeregisterAllEvents, CreateThread,
       SignalThreadEvent, RestartThread, JoinThread, JoinExitedThread, DetachThread,
       BeginRelease, Calls, HandleAllowed
  <2>3. QED
    BY <2>1, <2>2
<1>4. CASE \/ Tick \/ TimerInterrupt
           \/ \E u \in Thread, event \in Events : SignalWhileIdle(u, event)
  BY <1>4 DEF Tick, TimerInterrupt, SignalWhileIdle, HandleAllowed, Current
<1>5. QED
  BY <1>1, <1>2, <1>3, <1>4 DEF Next

LEMMA HandleAllowedAlways == Spec => []HandleAllowed
<1>1. Init => HandleAllowed
  BY DEF Init, HandleAllowed
<1>2. TypeInv /\ HandleAllowed /\ [Next]_vars => HandleAllowed'
  <2>1. HandleAllowed /\ UNCHANGED vars => HandleAllowed'
    BY DEF vars, HandleAllowed, Current
  <2>2. QED
    BY <2>1, HandleAllowedStep
<1>3. QED
  BY <1>1, <1>2, TypeCorrect, PTL DEF Spec

\* Who takes an event from a ring.
LEMMA TakesAnEvent ==
  ASSUME TypeInv, Next, NEW t \in Thread, Len(pendingEvents'[t]) < Len(pendingEvents[t])
  PROVE  \/ HandleOneEvent /\ t = Current
         \/ caller' \in {"exit", "deregister"}
         \/ executionState[t] = "STOPPED"
<1> USE DEF TypeInv
<1>1. Len(pendingEvents[t]) \in Nat
  BY DEF TypeOK
<1>2. ~UNCHANGED pendingEvents
  BY <1>1
<1>3. ASSUME NEW u \in Thread, NEW event \in Event, SignalThread(u, event) PROVE FALSE
  <2>1. Len(pendingEvents'[t]) >= Len(pendingEvents[t])
    BY <1>3, SignalNotShorter
  <2>2. Len(pendingEvents'[t]) \in Nat
    BY <1>3, SignalThreadType DEF QueueOK
  <2>3. QED
    BY <1>1, <2>1, <2>2
<1>4. ASSUME NEW u \in Thread, NEW ring, pendingEvents' = [pendingEvents EXCEPT ![u] = ring],
             u = t => ring \in Seq(Event) /\ Len(ring) >= Len(pendingEvents[u])
      PROVE  FALSE
  <2>1. CASE u = t
    <3>1. pendingEvents'[t] = ring
      BY <1>4, <2>1 DEF TypeOK
    <3>2. Len(ring) \in Nat /\ Len(ring) >= Len(pendingEvents[t])
      BY <1>4, <2>1
    <3>3. QED
      BY <1>1, <3>1, <3>2
  <2>2. CASE u # t
    BY <1>1, <1>4, <2>2 DEF TypeOK
  <2>3. QED
    BY <2>1, <2>2
<1>5. CASE KernelStep
  <2>1. ~DeliverOneRecord
    BY <1>3, DeliverOneRecordSignals DEF TimerRecord
  <2>2. ~ReleaseOne
    BY <1>3, ReleaseOneSignals DEF Event
  <2>3. ~ExitMutex
    BY <1>2, <1>3, ExitMutexSignals DEF Event
  <2>4. HandleOneEvent
    BY <1>2, <1>5, <2>1, <2>2, <2>3 DEF KernelStep, ResumeCurrentThread, HandleReturn,
       DeliverReturn, LockSuspend, Suspend, LockReturn, DiscardTimerRecord, DiscardReturn,
       ExitJoins, ExitMutexesDone, ReleaseReturn, ExitDead
  <2>5. Current \in Thread
    BY <2>4, CurrentType DEF HandleOneEvent
  <2>6. \A u \in Thread \ {Current} : pendingEvents'[u] = pendingEvents[u]
    BY <2>4, <2>5 DEF HandleOneEvent, BeginExit, TypeOK
  <2>7. t = Current
    BY <1>1, <2>6
  <2>8. QED
    BY <2>4, <2>7
<1>6. ASSUME NEW u \in Thread, ThreadStep(u) PROVE FALSE
  <2>1. SignalSelfAdd(u)
    BY <1>2, <1>6 DEF ThreadStep, CreateThreadReturn, UnblockThreadEvents, SleepRegister,
       SleepSuspend, Suspend, SleepReturn
  <2> DEFINE ring == AddWhenFound(pendingEvents[u], counted[u].found, counted[u].event)
  <2>2. pendingEvents[u] \in Seq(Event) /\ counted[u].event \in Event
    BY DEF TypeOK, Counted
  <2>3. ring \in Seq(Event) /\ Len(ring) >= Len(pendingEvents[u])
    BY <2>2, AddWhenFoundType, AddedNotShorter
  <2>4. pendingEvents' = [pendingEvents EXCEPT ![u] = ring]
    BY <2>1 DEF SignalSelfAdd
  <2> HIDE DEF ring
  <2>5. QED
    BY <1>4, <2>3, <2>4
<1>7. ASSUME NEW u \in Thread, UserCall(u)
      PROVE  caller' \in {"exit", "deregister"} \/ executionState[t] = "STOPPED"
  <2>1. ASSUME NEW v \in Thread, NEW event \in Events, SignalThreadEvent(u, v, event) PROVE FALSE
    BY <1>3, <2>1, ConstantsAssumption DEF SignalThreadEvent, Event
  <2>2. ASSUME NEW m \in Mutex, UnlockThreadMutex(u, m) PROVE FALSE
    BY <1>2, <1>3, <2>2, HandOverSignals DEF UnlockThreadMutex, Event
  <2>3. ASSUME NEW v \in Thread, JoinExitedThread(u, v) PROVE FALSE
    <3> DEFINE ring == AddPendingEvent(pendingEvents[u], "join")
    <3>1. pendingEvents[u] \in Seq(Event) /\ "join" \in Event
      BY DEF TypeOK, Event
    <3>2. ring \in Seq(Event) /\ Len(ring) >= Len(pendingEvents[u])
      BY <3>1, AddWhenFoundType, AddedNotShorter DEF AddPendingEvent
    <3>3. pendingEvents' = [pendingEvents EXCEPT ![u] = ring]
      BY <2>3 DEF JoinExitedThread
    <3> HIDE DEF ring
    <3>4. QED
      BY <1>4, <3>2, <3>3
  <2>4. ASSUME NEW v \in Thread, NEW discard \in BOOLEAN, NEW event \in Events,
               RestartThread(u, v, discard, event)
        PROVE  executionState[t] = "STOPPED"
    <3>1. CASE v = t
      BY <2>4, <3>1 DEF RestartThread
    <3>2. CASE v # t
      <4>1. \E ring : pendingEvents' = [pendingEvents EXCEPT ![v] = ring]
        BY <2>4 DEF RestartThread
      <4>2. QED
        BY <1>4, <3>2, <4>1
    <3>3. QED
      BY <3>1, <3>2
  <2>5. CASE ~\E v \in Thread :
               \/ \E event \in Events : SignalThreadEvent(u, v, event)
               \/ JoinExitedThread(u, v)
               \/ \E discard \in BOOLEAN, event \in Events : RestartThread(u, v, discard, event)
    <3>1. CASE ~\E m \in Mutex : UnlockThreadMutex(u, m)
      BY <1>2, <1>7, <2>5, <3>1 DEF UserCall, YieldCurrentThread, SetPreemption,
         StopCurrentThread, SuspendCurrentThread, Suspend, SignalSelf,
         UnblockThreadEvents, SetThreadEventBlock, HandleCurrentThreadEvents,
         AllowThreadEventDelivery, RegisterTimerEvent, DeregisterTimerEvent,
         SetThreadTimerInterval, SleepCurrentThread, LockThreadMutex, EnqueueForMutex,
         ExitCurrentThread, BeginExit, DeregisterAllEvents, CreateThread, JoinThread, DetachThread
    <3>2. QED
      BY <2>2, <3>1
  <2>6. QED
    BY <2>1, <2>3, <2>4, <2>5
<1>8. CASE \/ Tick \/ TimerInterrupt
           \/ \E u \in Thread, event \in Events : SignalWhileIdle(u, event)
  BY <1>2, <1>3, <1>8, ConstantsAssumption DEF Tick, TimerInterrupt, SignalWhileIdle, Event
<1>9. QED
  BY <1>5, <1>6, <1>7, <1>8 DEF Next

\* No event of a thread is run while it has its events blocked, unless it unblocks them,
\* exits, discards them or was stopped, for any number of threads and events.
THEOREM BlockedEventsStay == Spec => BlockedEventsWait
<1> DEFINE P == \A t \in Thread : Len(pendingEvents'[t]) < Len(pendingEvents[t]) =>
                  \/ blockEvents[t] # "#t"
                  \/ caller = "unblock"
                  \/ caller' \in {"exit", "deregister"}
                  \/ executionState[t] = "STOPPED"
<1>1. TypeInv /\ HandleAllowed /\ [Next]_vars => [P]_vars
  <2> SUFFICES ASSUME TypeInv, HandleAllowed, Next,
                      NEW t \in Thread, Len(pendingEvents'[t]) < Len(pendingEvents[t])
               PROVE  \/ blockEvents[t] # "#t"
                      \/ caller = "unblock"
                      \/ caller' \in {"exit", "deregister"}
                      \/ executionState[t] = "STOPPED"
    OBVIOUS
  <2>1. CASE HandleOneEvent /\ t = Current
    BY <2>1 DEF HandleOneEvent, HandleAllowed
  <2>2. QED
    BY <2>1, TakesAnEvent
<1>2. QED
  BY <1>1, TypeCorrect, HandleAllowedAlways, PTL DEF Spec, BlockedEventsWait

------------------------------------------------------------------------------
(* A sleeping thread has its alarm.                                          *)

\* Thread t is in the loop of sleep-current-thread and still needs its alarm.
Sleeps(t) == pc[t] = "sleep-loop" /\ ~delivered[t] /\ ~(Exiting /\ t = Current)

AlarmPending(t) == "alarm" \in Elements(pendingEvents[t])

AlarmRecord(t, i) == timerRecords[i].thread = t /\ timerRecords[i].event = "alarm"

HasAlarm(t) == AlarmPending(t) \/ \E i \in DOMAIN timerRecords : AlarmRecord(t, i)

\* A thread is stopped only by its own code, and that is not inside a procedure.
StoppedAtUser == \A t \in Thread : executionState[t] = "STOPPED" => pc[t] = "user"

\* The timer records of a thread are discarded only when it exits or asks for it.
DiscardsOwn ==
  /\ kstep \in {"exit-joins", "exit-mutexes"} => caller = "exit"
  /\ kstep = "discard-timers" =>
       caller = "exit" \/ (caller = "deregister" /\ pc[Current] = "user")

\* The inductive invariant behind SleeperHasAlarm.
SleepIInv == (\A t \in Thread : Sleeps(t) => HasAlarm(t)) /\ StoppedAtUser /\ DiscardsOwn

\* Only the current thread gets on in its code.
LEMMA OthersKeepPc ==
  ASSUME TypeInv, Next, NEW t \in Thread, ~Idle => t # Current
  PROVE  pc'[t] = pc[t]
<1> USE DEF TypeInv
<1>1. CASE KernelStep
  <2>1. CASE LockSuspend \/ LockReturn \/ ExitDead
    <3>1. kstep \in {"lock", "exit"}
      BY <2>1 DEF LockSuspend, LockReturn, ExitDead
    <3>2. ~Idle /\ Current \in Thread
      BY <3>1, CurrentType
    <3>3. \E p : pc' = [pc EXCEPT ![Current] = p]
      BY <2>1 DEF LockSuspend, Suspend, LockReturn, ExitDead
    <3>4. QED
      BY <3>2, <3>3 DEF TypeOK
  <2>2. CASE ~(LockSuspend \/ LockReturn \/ ExitDead)
    BY <1>1, <2>2 DEF KernelStep, ResumeCurrentThread, HandleOneEvent, HandleReturn,
       DeliverOneRecord, DeliverReturn, DiscardTimerRecord, DiscardReturn, ExitJoins,
       ExitMutex, ExitMutexesDone, ReleaseOne, ReleaseReturn
  <2>3. QED
    BY <2>1, <2>2
<1>2. ASSUME NEW u \in Thread, ThreadStep(u) \/ UserCall(u) PROVE pc'[t] = pc[t]
  <2>1. ~Idle /\ u = Current
    BY <1>2 DEF ThreadStep, CreateThreadReturn, SignalSelfAdd,
       SleepRegister, SleepSuspend, SleepReturn, At,
       UserCall, YieldCurrentThread, SetPreemption, StopCurrentThread,
       SuspendCurrentThread, SignalSelf, SetThreadEventBlock, HandleCurrentThreadEvents,
       AllowThreadEventDelivery, RegisterTimerEvent, DeregisterTimerEvent,
       SetThreadTimerInterval, SleepCurrentThread, LockThreadMutex, EnqueueForMutex,
       UnlockThreadMutex, ExitCurrentThread, DeregisterAllEvents, CreateThread,
       SignalThreadEvent, RestartThread, JoinThread, JoinExitedThread, DetachThread, Calls
  <2>2. pc' = pc \/ \E p : pc' = [pc EXCEPT ![u] = p]
    <3>1. CASE ThreadStep(u)
      BY <3>1 DEF ThreadStep, CreateThreadReturn, SignalSelfAdd, ReturnFromBlocked,
         UnblockThreadEvents, SleepRegister, SleepSuspend, Suspend, SleepReturn
    <3>2. CASE UserCall(u)
      BY <3>2 DEF UserCall, YieldCurrentThread, SetPreemption,
         StopCurrentThread, SuspendCurrentThread, Suspend, SignalSelf, UnblockThreadEvents,
         SetThreadEventBlock, HandleCurrentThreadEvents, AllowThreadEventDelivery,
         RegisterTimerEvent, DeregisterTimerEvent, SetThreadTimerInterval,
         SleepCurrentThread, LockThreadMutex, EnqueueForMutex, UnlockThreadMutex,
         ExitCurrentThread, DeregisterAllEvents, CreateThread,
         SignalThreadEvent, RestartThread, JoinThread, JoinExitedThread, DetachThread
    <3>3. QED
      BY <1>2, <3>1, <3>2
  <2>3. QED
    BY <2>1, <2>2 DEF TypeOK
<1>3. CASE \/ Tick \/ TimerInterrupt
           \/ \E u \in Thread, event \in Events : SignalWhileIdle(u, event)
  BY <1>3 DEF Tick, TimerInterrupt, SignalWhileIdle
<1>4. QED
  BY <1>1, <1>2, <1>3 DEF Next

\* A thread is stopped only by stop-current-thread.
LEMMA StopsByCall ==
  ASSUME TypeInv, Next, NEW t \in Thread,
         executionState'[t] = "STOPPED", executionState[t] # "STOPPED"
  PROVE  StopCurrentThread(t)
<1> USE DEF TypeInv
<1>1. ASSUME NEW u \in Thread, NEW event, SignalThread(u, event) PROVE FALSE
  BY <1>1 DEF SignalThread, TypeOK
<1>2. ~KernelStep
  <2>1. ~DeliverOneRecord /\ ~ReleaseOne /\ ~ExitMutex
    BY <1>1, DeliverOneRecordSignals, ReleaseOneSignals, ExitMutexSignals DEF TimerRecord
  <2>2. QED
    BY <2>1 DEF KernelStep, ResumeCurrentThread, HandleOneEvent,
       HandleReturn, ThreadNotRunning, DeliverReturn, LockSuspend, Suspend, LockReturn,
       DiscardTimerRecord, DiscardReturn, ExitJoins, ExitMutexesDone, ReleaseReturn,
       ExitDead, TypeOK
<1>3. ~(Tick \/ TimerInterrupt \/ \E u \in Thread, event \in Events : SignalWhileIdle(u, event))
  BY <1>1 DEF Tick, TimerInterrupt, SignalWhileIdle
<1>4. ASSUME NEW u \in Thread, ThreadStep(u) PROVE FALSE
  BY <1>4 DEF ThreadStep, CreateThreadReturn, SignalSelfAdd, UnblockThreadEvents,
     SleepRegister, SleepSuspend, Suspend, SleepReturn
<1>5. ASSUME NEW u \in Thread, UserCall(u) PROVE StopCurrentThread(t)
  <2>1. ASSUME NEW m \in Mutex, UnlockThreadMutex(u, m) PROVE FALSE
    BY <1>1, <2>1, HandOverSignals DEF UnlockThreadMutex
  <2>2. CASE ~\E m \in Mutex : UnlockThreadMutex(u, m)
    <3>1. StopCurrentThread(u)
      BY <1>1, <1>5, <2>2, ZenonT(60) DEF UserCall, YieldCurrentThread, SetPreemption, RunningStates,
         SuspendCurrentThread, Suspend, SignalSelf,
         UnblockThreadEvents, SetThreadEventBlock, HandleCurrentThreadEvents,
         AllowThreadEventDelivery, RegisterTimerEvent, DeregisterTimerEvent,
         SetThreadTimerInterval, SleepCurrentThread, LockThreadMutex, EnqueueForMutex,
         ExitCurrentThread, DeregisterAllEvents, CreateThread, SignalThreadEvent,
         RestartThread, JoinThread, JoinExitedThread, DetachThread, TypeOK
    <3>2. u = t
      BY <3>1 DEF StopCurrentThread, ThreadNotRunning, TypeOK
    <3>3. QED
      BY <3>1, <3>2
  <2>3. QED
    BY <2>1, <2>2
<1>6. QED
  BY <1>2, <1>3, <1>4, <1>5 DEF Next

LEMMA StoppedAtUserStep ==
  ASSUME TypeInv, RunQueueInv, StoppedAtUser, Next
  PROVE  StoppedAtUser'
<1> SUFFICES ASSUME NEW t \in Thread, executionState'[t] = "STOPPED" PROVE pc'[t] = "user"
  BY DEF StoppedAtUser
<1>1. CASE executionState[t] = "STOPPED"
  <2>1. ~Idle => t # Current
    BY <1>1, CurrentRuns DEF RunningStates, TypeInv
  <2>2. QED
    BY <1>1, <2>1, OthersKeepPc DEF StoppedAtUser
<1>2. CASE executionState[t] # "STOPPED"
  BY <1>2, StopsByCall DEF StopCurrentThread, Calls
<1>3. QED
  BY <1>1, <1>2

LEMMA DiscardsOwnStep ==
  ASSUME TypeInv, DiscardsOwn, Next
  PROVE  DiscardsOwn'
<1> USE DEF TypeInv
<1>1. kstep' \in {"exit-joins", "exit-mutexes"} => caller' = "exit"
  <2> SUFFICES ASSUME kstep' \in {"exit-joins", "exit-mutexes"} PROVE caller' = "exit"
    OBVIOUS
  <2>1. \/ DiscardReturn \/ ExitJoins \/ ExitMutex \/ ExitMutexesDone
        \/ ReleaseOne \/ ReleaseReturn
    BY CleanUpSteps DEF CleaningUp
  <2>2. QED
    BY <2>1 DEF DiscardReturn, ExitJoins, ExitMutex, ExitMutexesDone, BeginRelease,
       ReleaseOne, ReleaseReturn, DiscardsOwn
<1>2. ASSUME kstep' = "discard-timers"
      PROVE  caller' = "exit" \/ (caller' = "deregister" /\ pc'[Current'] = "user")
  <2>1. CASE DiscardTimerRecord
    BY <2>1 DEF DiscardTimerRecord, DiscardsOwn, Current
  <2>2. CASE KernelStep /\ ~DiscardTimerRecord
    BY <1>2, <2>2 DEF KernelStep, ResumeCurrentThread, Return, HandleOneEvent, BeginExit,
       HandleReturn, ThreadNotRunning, DeliverOneRecord, DeliverReturn, YieldThread,
       LockSuspend, Suspend, LockReturn, DiscardReturn, ExitJoins, ExitMutex,
       ExitMutexesDone, BeginRelease, ReleaseOne, ReleaseReturn, ExitDead
  <2>3. ASSUME NEW t \in Thread, ThreadStep(t) PROVE FALSE
    BY <1>2, <2>3 DEF ThreadStep, CreateThreadReturn, SignalSelfAdd, UnblockThreadEvents,
       SleepRegister, SleepSuspend, Suspend, SleepReturn, At
  <2>4. ASSUME NEW t \in Thread, UserCall(t)
        PROVE  caller' = "exit" \/ (caller' = "deregister" /\ pc'[Current'] = "user")
    <3>1. ExitCurrentThread(t) \/ DeregisterAllEvents(t)
      BY <1>2, <2>4 DEF UserCall, YieldCurrentThread, YieldThread, SetPreemption,
         StopCurrentThread, ThreadNotRunning, SuspendCurrentThread, Suspend, SignalSelf,
         UnblockThreadEvents, SetThreadEventBlock, HandleCurrentThreadEvents,
         AllowThreadEventDelivery, RegisterTimerEvent, DeregisterTimerEvent,
         SetThreadTimerInterval, SleepCurrentThread, LockThreadMutex, EnqueueForMutex,
         UnlockThreadMutex, CreateThread, SignalThreadEvent, RestartThread, JoinThread,
         JoinExitedThread, DetachThread, BeginRelease, Calls
    <3>2. QED
      BY <3>1 DEF ExitCurrentThread, BeginExit, DeregisterAllEvents, Calls, Current
  <2>5. ~(Tick \/ TimerInterrupt \/ \E u \in Thread, event \in Events : SignalWhileIdle(u, event))
    BY <1>2 DEF Tick, TimerInterrupt, SignalWhileIdle
  <2>6. QED
    BY <2>1, <2>2, <2>3, <2>4, <2>5 DEF Next
<1>3. QED
  BY <1>1, <1>2 DEF DiscardsOwn

\* exit-current-thread is not left before the thread is dead.
LEMMA ExitingGoesOn ==
  ASSUME TypeInv, DiscardsOwn, Next, Exiting
  PROVE  ExitDead \/ (Exiting' /\ Current' = Current)
<1> USE DEF TypeInv
<1>1. /\ kstep \in {"discard-timers", "exit-joins", "exit-mutexes", "release", "exit"}
      /\ caller = "exit" \/ kstep = "exit"
  BY DEF Exiting, DiscardsOwn
<1>2. KernelStep
  <2>1. ASSUME NEW t \in Thread, ThreadStep(t) PROVE FALSE
    BY <1>1, <2>1 DEF ThreadStep, CreateThreadReturn, SignalSelfAdd, SleepRegister,
       SleepSuspend, SleepReturn, At
  <2>2. ASSUME NEW t \in Thread, UserCall(t) PROVE FALSE
    BY <1>1, <2>2, ZenonT(60) DEF UserCall, YieldCurrentThread, SetPreemption, StopCurrentThread,
       SuspendCurrentThread, SignalSelf, SetThreadEventBlock, HandleCurrentThreadEvents,
       AllowThreadEventDelivery, RegisterTimerEvent, DeregisterTimerEvent,
       SetThreadTimerInterval, SleepCurrentThread, LockThreadMutex, EnqueueForMutex,
       UnlockThreadMutex, ExitCurrentThread, DeregisterAllEvents, CreateThread,
       SignalThreadEvent, RestartThread, JoinThread, JoinExitedThread, DetachThread, Calls
  <2>3. ~(Tick \/ TimerInterrupt \/ \E u \in Thread, event \in Events : SignalWhileIdle(u, event))
    BY <1>1 DEF Tick, TimerInterrupt, SignalWhileIdle
  <2>4. QED
    BY <2>1, <2>2, <2>3 DEF Next
<1>3. CASE DiscardTimerRecord \/ DiscardReturn \/ ExitJoins \/ ExitMutexesDone \/ ReleaseReturn
  BY <1>1, <1>3 DEF DiscardTimerRecord, DiscardReturn, ExitJoins, ExitMutexesDone,
     BeginRelease, ReleaseReturn, Exiting, Current
<1>4. CASE ExitMutex
  <2>1. kstep = "exit-mutexes" /\ UNCHANGED <<kstep, caller>>
    BY <1>4 DEF ExitMutex
  <2>2. Current' = Current
    BY <1>4, ExitMutexSignals, SignalKeepsCurrent DEF Current
  <2>3. QED
    BY <2>1, <2>2 DEF Exiting
<1>5. CASE ReleaseOne
  <2>1. kstep = "release" /\ UNCHANGED <<kstep, caller>>
    BY <1>5 DEF ReleaseOne
  <2>2. Current' = Current
    BY <1>5, ReleaseOneSignals, SignalKeepsCurrent
  <2>3. QED
    BY <1>1, <2>1, <2>2 DEF Exiting
<1>6. ~(\/ ResumeCurrentThread \/ HandleOneEvent \/ HandleReturn \/ DeliverOneRecord
        \/ DeliverReturn \/ LockSuspend \/ LockReturn)
  BY <1>1 DEF ResumeCurrentThread, HandleOneEvent, HandleReturn, DeliverOneRecord,
     DeliverReturn, LockSuspend, LockReturn
<1>7. QED
  BY <1>2, <1>3, <1>4, <1>5, <1>6 DEF KernelStep

\* Who needs the alarm needed it before, or has just registered it.
LEMMA SleptBefore ==
  ASSUME TypeInv, DiscardsOwn, Next, NEW t \in Thread, Sleeps(t)'
  PROVE  Sleeps(t) \/ \E delay \in Delays : SleepRegister(t, delay)
<1> USE DEF TypeInv
<1>1. pc'[t] = "sleep-loop" /\ ~delivered'[t] /\ ~(Exiting' /\ t = Current')
  BY DEF Sleeps
<1>2. ASSUME ~\E delay \in Delays : SleepRegister(t, delay)
      PROVE  pc[t] = "sleep-loop" /\ ~delivered[t]
  <2>1. CASE KernelStep
    <3>1. CASE LockSuspend \/ LockReturn \/ ExitDead \/ HandleOneEvent
      <4>1. kstep \in {"lock", "exit", "handle"}
        BY <3>1 DEF LockSuspend, LockReturn, ExitDead, HandleOneEvent
      <4>2. Current \in Thread
        BY <4>1, CurrentType
      <4>3. QED
        BY <1>1, <3>1, <4>2 DEF LockSuspend, Suspend, LockReturn, ExitDead, HandleOneEvent,
           TypeOK
    <3>2. CASE ~(LockSuspend \/ LockReturn \/ ExitDead \/ HandleOneEvent)
      BY <1>1, <2>1, <3>2 DEF KernelStep, ResumeCurrentThread, HandleReturn,
         DeliverOneRecord, DeliverReturn, DiscardTimerRecord, DiscardReturn, ExitJoins,
         ExitMutex, ExitMutexesDone, ReleaseOne, ReleaseReturn
    <3>3. QED
      BY <3>1, <3>2
  <2>2. ASSUME NEW u \in Thread, ThreadStep(u) PROVE pc[t] = "sleep-loop" /\ ~delivered[t]
    <3>1. CASE CreateThreadReturn(u) \/ SignalSelfAdd(u) \/ SleepReturn(u)
      BY <1>1, <3>1, ZenonT(60) DEF CreateThreadReturn, SignalSelfAdd, SleepReturn, ReturnFromBlocked, TypeOK
    <3>2. CASE SleepSuspend(u) \/ UnblockThreadEvents(u)
      BY <1>1, <3>2 DEF SleepSuspend, At, Suspend, UnblockThreadEvents, TypeOK
    <3>3. ASSUME NEW delay \in Delays, SleepRegister(u, delay)
          PROVE  pc[t] = "sleep-loop" /\ ~delivered[t]
      <4>1. u # t
        BY <1>2, <3>3
      <4>2. QED
        BY <1>1, <3>3, <4>1 DEF SleepRegister, TypeOK
    <3>4. QED
      BY <2>2, <3>1, <3>2, <3>3 DEF ThreadStep
  <2>3. ASSUME NEW u \in Thread, UserCall(u) PROVE pc[t] = "sleep-loop" /\ ~delivered[t]
    <3>1. /\ pc' = pc \/ \E p \in PCs \ {"sleep-loop"} : pc' = [pc EXCEPT ![u] = p]
          /\ delivered' = delivered \/ SleepCurrentThread(u)
      BY <2>3 DEF UserCall, YieldCurrentThread, SetPreemption,
         StopCurrentThread, SuspendCurrentThread, Suspend, SignalSelf, UnblockThreadEvents,
         SetThreadEventBlock, HandleCurrentThreadEvents, AllowThreadEventDelivery,
         RegisterTimerEvent, DeregisterTimerEvent, SetThreadTimerInterval,
         SleepCurrentThread, LockThreadMutex, EnqueueForMutex, UnlockThreadMutex,
         ExitCurrentThread, DeregisterAllEvents, CreateThread,
         SignalThreadEvent, RestartThread, JoinThread, JoinExitedThread, DetachThread, PCs
    <3>2. pc[t] = "sleep-loop"
      BY <1>1, <3>1 DEF TypeOK
    <3>3. CASE delivered' = delivered
      BY <1>1, <3>2, <3>3
    <3>4. CASE SleepCurrentThread(u)
      BY <1>1, <3>2, <3>4 DEF SleepCurrentThread, TypeOK
    <3>5. QED
      BY <3>1, <3>3, <3>4
  <2>4. CASE \/ Tick \/ TimerInterrupt
             \/ \E u \in Thread, event \in Events : SignalWhileIdle(u, event)
    BY <1>1, <2>4 DEF Tick, TimerInterrupt, SignalWhileIdle
  <2>5. QED
    BY <2>1, <2>2, <2>3, <2>4 DEF Next
<1>3. ~(Exiting /\ t = Current)
  <2> SUFFICES ASSUME Exiting, t = Current PROVE FALSE
    OBVIOUS
  <2>1. ExitDead
    BY <1>1, ExitingGoesOn
  <2>2. pc'[t] = "user"
    BY <2>1 DEF ExitDead, TypeOK
  <2>3. QED
    BY <1>1, <2>2
<1>4. QED
  BY <1>2, <1>3 DEF Sleeps

\* %add-pending-event adds the event and drops at most a #f.
LEMMA AddPendingElements ==
  ASSUME NEW ring \in Seq(Event), NEW event \in Event
  PROVE  /\ Elements(ring) \ {"#f"} \subseteq Elements(AddPendingEvent(ring, event))
         /\ event # "#f" => event \in Elements(AddPendingEvent(ring, event))
<1> DEFINE l == AddPendingEvent(ring, event)
<1>1. CASE event # "#f" /\ ring = <<"#f">>
  <2>1. ring # <<>>
    BY <1>1
  <2>2. l = <<event>> \o Tail(ring) /\ Tail(ring) \in Seq(Event)
    BY <1>1, <2>1 DEF AddPendingEvent, AddWhenFound, RingState
  <2>3. event \in Elements(<<event>> \o Tail(ring))
    <3> DEFINE rest == Tail(ring)
    <3>1. rest \in Seq(Event)
      BY <2>2
    <3> HIDE DEF rest
    <3>2. Elements(<<event>> \o rest) = Elements(rest) \cup {event}
      BY <3>1, ConsElements
    <3>3. QED
      BY <3>2 DEF rest
  <2>4. DOMAIN ring = {1} /\ ring[1] = "#f"
    BY <1>1
  <2>5. Elements(ring) \ {"#f"} = {}
    BY <2>4, ElementsMeaning
  <2>6. QED
    BY <2>2, <2>3, <2>5
<1>2. CASE ~(event # "#f" /\ ring = <<"#f">>)
  <2>1. l \in {ring, Append(ring, event)} /\ (event # "#f" => l = Append(ring, event))
    <3>1. CASE event = "#f"
      BY <3>1 DEF AddPendingEvent, AddWhenFound
    <3>2. CASE event # "#f"
      <4>1. RingState(ring) # "one #f"
        BY <1>2, <3>2 DEF RingState
      <4>2. QED
        BY <3>2, <4>1 DEF AddPendingEvent, AddWhenFound
    <3>3. QED
      BY <3>1, <3>2
  <2>2. Elements(Append(ring, event)) = Elements(ring) \cup {event}
    BY AppendElements
  <2> HIDE DEF l
  <2>3. QED
    BY <2>1, <2>2 DEF l
<1>3. QED
  BY <1>1, <1>2

LEMMA SignalKeepsAlarm ==
  ASSUME TypeOK, NEW u \in Thread, NEW event \in Event, SignalThread(u, event), NEW t \in Thread
  PROVE  /\ AlarmPending(t) => AlarmPending(t)'
         /\ t = u /\ event = "alarm" => AlarmPending(t)'
<1>1. pendingEvents' = [pendingEvents EXCEPT ![u] = AddPendingEvent(@, event)]
  BY DEF SignalThread
<1>2. CASE t = u
  <2>1. pendingEvents[t] \in Seq(Event) /\ pendingEvents'[t] = AddPendingEvent(pendingEvents[t], event)
    BY <1>1, <1>2 DEF TypeOK
  <2>2. QED
    BY <2>1, AddPendingElements DEF AlarmPending
<1>3. CASE t # u
  BY <1>1, <1>3 DEF AlarmPending, TypeOK
<1>4. QED
  BY <1>2, <1>3

\* An alarm that is pending stays pending until its thread runs it.
LEMMA PendingAlarmStays ==
  ASSUME TypeInv, StoppedAtUser, Next, NEW t \in Thread, Sleeps(t), Sleeps(t)', AlarmPending(t)
  PROVE  AlarmPending(t)'
<1> USE DEF TypeInv
<1>1. ASSUME pendingEvents'[t] = pendingEvents[t] PROVE AlarmPending(t)'
  BY <1>1 DEF AlarmPending
<1>2. ASSUME NEW u \in Thread, NEW event \in Event, SignalThread(u, event) PROVE AlarmPending(t)'
  BY <1>2, SignalKeepsAlarm
<1>3. pc[t] = "sleep-loop" /\ executionState[t] # "STOPPED"
  BY DEF Sleeps, StoppedAtUser
<1>4. CASE KernelStep
  <2>1. CASE DeliverOneRecord
    BY <1>2, <2>1, DeliverOneRecordSignals DEF TimerRecord
  <2>2. CASE ReleaseOne
    BY <1>2, <2>2, ReleaseOneSignals DEF Event
  <2>3. CASE ExitMutex
    BY <1>1, <1>2, <2>3, ExitMutexSignals DEF Event
  <2>4. CASE HandleOneEvent
    <3>1. kstep = "handle" /\ pendingEvents[Current] # <<>>
      BY <2>4 DEF HandleOneEvent
    <3>2. Current \in Thread
      BY <3>1, CurrentType
    <3>3. CASE t # Current
      BY <1>1, <2>4, <3>2, <3>3 DEF HandleOneEvent, BeginExit, TypeOK
    <3>4. CASE t = Current
      <4>1. pendingEvents[t] \in Seq(Event) /\ pendingEvents[t] # <<>>
        BY <3>1, <3>4 DEF TypeOK
      <4>2. Head(pendingEvents[t]) # "alarm"
        BY <2>4, <3>4 DEF HandleOneEvent, Sleeps, TypeOK
      <4>3. Head(pendingEvents[t]) # "kill"
        <5>1. ASSUME Head(pendingEvents[t]) = "kill" PROVE Exiting' /\ t = Current'
          BY <2>4, <3>4, <5>1 DEF HandleOneEvent, BeginExit, Exiting, Current
        <5>2. QED
          BY <5>1 DEF Sleeps
      <4>4. pendingEvents'[t] = Tail(pendingEvents[t])
        BY <2>4, <3>4, <4>3 DEF HandleOneEvent, TypeOK
      <4>5. Elements(pendingEvents[t]) = Elements(Tail(pendingEvents[t])) \cup {Head(pendingEvents[t])}
        BY <4>1, HeadTailElements
      <4>6. QED
        BY <4>2, <4>4, <4>5 DEF AlarmPending
    <3>5. QED
      BY <3>3, <3>4
  <2>5. CASE ~(DeliverOneRecord \/ ReleaseOne \/ ExitMutex \/ HandleOneEvent)
    BY <1>1, <1>4, <2>5 DEF KernelStep, ResumeCurrentThread, HandleReturn,
       DeliverReturn, LockSuspend, Suspend, LockReturn, DiscardTimerRecord, DiscardReturn,
       ExitJoins, ExitMutexesDone, ReleaseReturn, ExitDead
  <2>6. QED
    BY <2>1, <2>2, <2>3, <2>4, <2>5
<1>5. ASSUME NEW u \in Thread, ThreadStep(u) PROVE AlarmPending(t)'
  <2>1. CASE SignalSelfAdd(u)
    BY <1>1, <1>3, <2>1 DEF SignalSelfAdd, At, TypeOK
  <2>2. CASE ~SignalSelfAdd(u)
    BY <1>1, <1>5, <2>2 DEF ThreadStep, CreateThreadReturn, UnblockThreadEvents,
       SleepRegister, SleepSuspend, Suspend, SleepReturn
  <2>3. QED
    BY <2>1, <2>2
<1>6. ASSUME NEW u \in Thread, UserCall(u) PROVE AlarmPending(t)'
  <2>1. ASSUME NEW v \in Thread, NEW event \in Events, SignalThreadEvent(u, v, event)
        PROVE  AlarmPending(t)'
    BY <1>2, <2>1, ConstantsAssumption DEF SignalThreadEvent, Event
  <2>2. ASSUME NEW m \in Mutex, UnlockThreadMutex(u, m) PROVE AlarmPending(t)'
    BY <1>1, <1>2, <2>2, HandOverSignals DEF UnlockThreadMutex, Event
  <2>3. ASSUME NEW v \in Thread, NEW discard \in BOOLEAN, NEW event \in Events,
               RestartThread(u, v, discard, event)
        PROVE  AlarmPending(t)'
    <3>1. executionState[v] = "STOPPED" /\ \E ring : pendingEvents' = [pendingEvents EXCEPT ![v] = ring]
      BY <2>3 DEF RestartThread
    <3>2. QED
      BY <1>1, <1>3, <3>1 DEF TypeOK
  <2>4. ASSUME ExitCurrentThread(u) \/ DeregisterAllEvents(u) \/ \E v \in Thread : JoinExitedThread(u, v)
        PROVE  AlarmPending(t)'
    <3>1. pc[u] = "user" /\ \E ring : pendingEvents' = [pendingEvents EXCEPT ![u] = ring]
      BY <2>4 DEF ExitCurrentThread, BeginExit, DeregisterAllEvents, JoinExitedThread, Calls
    <3>2. QED
      BY <1>1, <1>3, <3>1 DEF TypeOK
  <2>5. CASE /\ ~(ExitCurrentThread(u) \/ DeregisterAllEvents(u))
             /\ ~\E v \in Thread :
                   \/ \E event \in Events : SignalThreadEvent(u, v, event)
                   \/ JoinExitedThread(u, v)
                   \/ \E discard \in BOOLEAN, event \in Events : RestartThread(u, v, discard, event)
             /\ ~\E m \in Mutex : UnlockThreadMutex(u, m)
    BY <1>1, <1>6, <2>5 DEF UserCall, YieldCurrentThread, SetPreemption,
       StopCurrentThread, SuspendCurrentThread, Suspend, SignalSelf,
       UnblockThreadEvents, SetThreadEventBlock, HandleCurrentThreadEvents,
       AllowThreadEventDelivery, RegisterTimerEvent, DeregisterTimerEvent,
       SetThreadTimerInterval, SleepCurrentThread, LockThreadMutex, EnqueueForMutex,
       CreateThread, JoinThread, DetachThread
  <2>6. QED
    BY <2>1, <2>2, <2>3, <2>4, <2>5
<1>7. CASE \/ Tick \/ TimerInterrupt
           \/ \E u \in Thread, event \in Events : SignalWhileIdle(u, event)
  BY <1>1, <1>2, <1>7, ConstantsAssumption DEF Tick, TimerInterrupt, SignalWhileIdle, Event
<1>8. QED
  BY <1>4, <1>5, <1>6, <1>7 DEF Next

\* The other elements of a list stay when one is taken out, and all when one is put in.
LEMMA DropAtKeeps ==
  ASSUME NEW S, NEW s \in Seq(S), NEW k \in DOMAIN s, NEW j \in DOMAIN s, j # k
  PROVE  \E i \in DOMAIN DropAt(s, k) : DropAt(s, k)[i] = s[j]
<1> DEFINE l == DropAt(s, k)
           n == Len(s)
<1>1. n \in Nat /\ DOMAIN s = 1 .. n /\ k \in 1 .. n /\ j \in 1 .. n
  OBVIOUS
<1>2. /\ DOMAIN l = 1 .. n - 1
      /\ \A i \in 1 .. k - 1 : l[i] = s[i]
      /\ \A i \in k .. n - 1 : l[i] = s[i + 1]
  BY DropAtPlaces
<1> HIDE DEF l
<1>3. CASE j < k
  <2>1. j \in 1 .. k - 1 /\ j \in DOMAIN l
    BY <1>1, <1>2, <1>3
  <2>2. QED
    BY <1>2, <2>1 DEF l
<1>4. CASE j > k
  <2>1. j - 1 \in k .. n - 1 /\ j - 1 \in DOMAIN l /\ (j - 1) + 1 = j
    BY <1>1, <1>2, <1>4
  <2>2. l[j - 1] = s[j]
    BY <1>2, <2>1
  <2>3. QED
    BY <2>1, <2>2 DEF l
<1>5. QED
  BY <1>1, <1>3, <1>4

LEMMA InsertBeforeKeeps ==
  ASSUME NEW S, NEW s \in Seq(S), NEW k \in 1 .. Len(s) + 1, NEW x \in S
  PROVE  /\ \A j \in DOMAIN s :
              \E i \in DOMAIN InsertBefore(s, k, x) : InsertBefore(s, k, x)[i] = s[j]
         /\ \E i \in DOMAIN InsertBefore(s, k, x) : InsertBefore(s, k, x)[i] = x
<1> DEFINE l == InsertBefore(s, k, x)
           n == Len(s)
<1>1. n \in Nat /\ DOMAIN s = 1 .. n /\ k \in 1 .. n + 1
  OBVIOUS
<1> HIDE DEF l
<1>2. DOMAIN l = 1 .. n + 1
  BY InsertBeforePlaces DEF l
<1>3. \A i \in 1 .. k - 1 : l[i] = s[i]
  BY InsertBeforePlaces DEF l
<1>4. l[k] = x
  BY InsertBeforePlaces DEF l
<1>5. \A i \in k + 1 .. n + 1 : l[i] = s[i - 1]
  BY InsertBeforePlaces DEF l
<1>6. ASSUME NEW j \in DOMAIN s PROVE \E i \in DOMAIN l : l[i] = s[j]
  <2>1. CASE j < k
    <3>1. j \in 1 .. k - 1 /\ j \in DOMAIN l
      BY <1>1, <1>2, <2>1
    <3>2. QED
      BY <1>3, <3>1
  <2>2. CASE j >= k
    <3>1. j + 1 \in k + 1 .. n + 1 /\ j + 1 \in DOMAIN l /\ (j + 1) - 1 = j
      BY <1>1, <1>2, <2>2
    <3>2. l[j + 1] = s[j]
      BY <1>5, <3>1
    <3>3. QED
      BY <3>1, <3>2
  <2>3. j < k \/ j >= k
    BY <1>1
  <2>4. QED
    BY <2>1, <2>2, <2>3
<1>7. \E i \in DOMAIN l : l[i] = x
  BY <1>1, <1>2, <1>4
<1>8. QED
  BY <1>6, <1>7 DEF l

LEMMA AddTimerRecordKeeps ==
  ASSUME TypeOK, NEW r \in TimerRecord, AddTimerRecord(r)
  PROVE  /\ \A j \in DOMAIN timerRecords :
              \E i \in DOMAIN timerRecords' : timerRecords'[i] = timerRecords[j]
         /\ \E i \in DOMAIN timerRecords' : timerRecords'[i] = r
<1>1. PICK k \in 1 .. Len(timerRecords) + 1 : timerRecords' = InsertBefore(timerRecords, k, r)
  BY DEF AddTimerRecord
<1>2. timerRecords \in Seq(TimerRecord)
  BY DEF TypeOK
<1>3. \A j \in DOMAIN timerRecords :
        \E i \in DOMAIN InsertBefore(timerRecords, k, r) :
          InsertBefore(timerRecords, k, r)[i] = timerRecords[j]
  BY <1>2, InsertBeforeKeeps
<1>4. \E i \in DOMAIN InsertBefore(timerRecords, k, r) : InsertBefore(timerRecords, k, r)[i] = r
  BY <1>2, InsertBeforeKeeps
<1>5. QED
  BY <1>1, <1>3, <1>4

\* An alarm that is registered stays so until it is delivered.
LEMMA AlarmRecordStays ==
  ASSUME TypeInv, DiscardsOwn, Next, NEW t \in Thread, Sleeps(t),
         NEW j \in DOMAIN timerRecords, AlarmRecord(t, j)
  PROVE  HasAlarm(t)'
<1> USE DEF TypeInv
<1>1. timerRecords \in Seq(TimerRecord) /\ timerRecords[j] \in TimerRecord
  BY DEF TypeOK
<1>2. ASSUME NEW i \in DOMAIN timerRecords', timerRecords'[i] = timerRecords[j] PROVE HasAlarm(t)'
  BY <1>2 DEF HasAlarm, AlarmRecord
<1>3. ASSUME UNCHANGED timerRecords PROVE HasAlarm(t)'
  BY <1>2, <1>3
<1>4. ASSUME NEW k \in DOMAIN timerRecords, timerRecords' = DropAt(timerRecords, k), k # j
      PROVE  HasAlarm(t)'
  <2>1. \E i \in DOMAIN DropAt(timerRecords, k) : DropAt(timerRecords, k)[i] = timerRecords[j]
    BY <1>1, <1>4, DropAtKeeps
  <2>2. QED
    BY <1>2, <1>4, <2>1
<1>5. pc[t] = "sleep-loop" /\ timerRecords[j].thread = t
  BY DEF Sleeps, AlarmRecord
<1>6. CASE Tick
  <2>1. /\ DOMAIN timerRecords' = DOMAIN timerRecords
        /\ \E time : timerRecords'[j] = [timerRecords[j] EXCEPT !.time = time]
    BY <1>6 DEF Tick
  <2>2. timerRecords'[j].thread = t /\ timerRecords'[j].event = "alarm"
    BY <1>1, <2>1 DEF TimerRecord, AlarmRecord
  <2>3. QED
    BY <2>1, <2>2 DEF HasAlarm, AlarmRecord
<1>7. CASE DeliverOneRecord
  <2> DEFINE h == Head(timerRecords)
  <2>1. timerRecords # <<>> /\ timerRecords' = Tail(timerRecords)
    BY <1>7 DEF DeliverOneRecord
  <2>2. h = timerRecords[1] /\ DOMAIN timerRecords = 1 .. Len(timerRecords) /\ Len(timerRecords) \in Nat
    BY <1>1, <2>1
  <2>3. CASE j = 1
    <3>1. h.thread \in Thread /\ h.event \in Event /\ SignalThread(h.thread, h.event)
      BY <1>7, DeliverOneRecordSignals DEF TimerRecord
    <3>2. h.thread = t /\ h.event = "alarm"
      BY <2>2, <2>3 DEF AlarmRecord
    <3>3. QED
      BY <3>1, <3>2, SignalKeepsAlarm DEF HasAlarm
  <2>4. CASE j # 1
    <3>1. /\ DOMAIN Tail(timerRecords) = 1 .. Len(timerRecords) - 1
          /\ \A i \in 1 .. Len(timerRecords) - 1 : Tail(timerRecords)[i] = timerRecords[i + 1]
      BY <1>1, <2>1
    <3>2. j - 1 \in 1 .. Len(timerRecords) - 1 /\ (j - 1) + 1 = j
      BY <2>2, <2>4
    <3>3. j - 1 \in DOMAIN timerRecords' /\ timerRecords'[j - 1] = timerRecords[j]
      BY <2>1, <3>1, <3>2
    <3>4. QED
      BY <1>2, <3>3
  <2>5. QED
    BY <2>3, <2>4
<1>8. CASE DiscardTimerRecord
  <2>1. PICK k \in DOMAIN timerRecords :
          timerRecords[k].thread = Current /\ timerRecords' = DropAt(timerRecords, k)
    BY <1>8 DEF DiscardTimerRecord
  <2>2. t # Current
    BY <1>5, <1>8 DEF DiscardTimerRecord, DiscardsOwn, Sleeps, Exiting
  <2>3. QED
    BY <1>4, <1>5, <2>1, <2>2
<1>9. CASE KernelStep
  <2>1. CASE ~(DeliverOneRecord \/ DiscardTimerRecord)
    BY <1>3, <1>9, <2>1 DEF KernelStep, ResumeCurrentThread, HandleOneEvent, HandleReturn,
       DeliverReturn, LockSuspend, Suspend, LockReturn, DiscardReturn, ExitJoins,
       ExitMutex, ExitMutexesDone, ReleaseOne, ReleaseReturn, ExitDead
  <2>2. QED
    BY <1>7, <1>8, <2>1
<1>10. ASSUME NEW r \in TimerRecord, AddTimerRecord(r) PROVE HasAlarm(t)'
  BY <1>2, <1>10, AddTimerRecordKeeps
<1>11. ASSUME NEW u \in Thread, ThreadStep(u) PROVE HasAlarm(t)'
  <2>1. ASSUME NEW delay \in Delays, SleepRegister(u, delay) PROVE HasAlarm(t)'
    BY <1>10, <2>1, ConstantsAssumption DEF SleepRegister, TimerRecord, Event
  <2>2. CASE ~\E delay \in Delays : SleepRegister(u, delay)
    BY <1>3, <1>11, <2>2 DEF ThreadStep, CreateThreadReturn, SignalSelfAdd,
       UnblockThreadEvents, SleepSuspend, Suspend, SleepReturn
  <2>3. QED
    BY <2>1, <2>2
<1>12. ASSUME NEW u \in Thread, UserCall(u) PROVE HasAlarm(t)'
  <2>1. ASSUME NEW delay \in Delays, NEW event \in Events, RegisterTimerEvent(u, delay, event)
        PROVE  HasAlarm(t)'
    BY <1>10, <2>1, ConstantsAssumption DEF RegisterTimerEvent, TimerRecord, Event
  <2>2. ASSUME NEW i \in DOMAIN timerRecords, DeregisterTimerEvent(u, i) PROVE HasAlarm(t)'
    BY <1>4, <1>5, <2>2 DEF DeregisterTimerEvent, Calls
  <2>3. CASE ~((\E delay \in Delays, event \in Events : RegisterTimerEvent(u, delay, event))
               \/ \E i \in DOMAIN timerRecords : DeregisterTimerEvent(u, i))
    BY <1>3, <1>12, <2>3 DEF UserCall, YieldCurrentThread, SetPreemption,
       StopCurrentThread, SuspendCurrentThread, Suspend, SignalSelf,
       UnblockThreadEvents, SetThreadEventBlock, HandleCurrentThreadEvents,
       AllowThreadEventDelivery, SetThreadTimerInterval, SleepCurrentThread,
       LockThreadMutex, EnqueueForMutex, UnlockThreadMutex, ExitCurrentThread,
       DeregisterAllEvents, CreateThread, SignalThreadEvent, RestartThread, JoinThread,
       JoinExitedThread, DetachThread
  <2>4. QED
    BY <2>1, <2>2, <2>3
<1>13. CASE TimerInterrupt \/ \E u \in Thread, event \in Events : SignalWhileIdle(u, event)
  BY <1>3, <1>13 DEF TimerInterrupt, SignalWhileIdle
<1>14. QED
  BY <1>6, <1>9, <1>11, <1>12, <1>13 DEF Next

LEMMA SleepIInvAlways == Spec => []SleepIInv
<1>1. Init => SleepIInv
  BY DEF Init, SleepIInv, Sleeps, StoppedAtUser, DiscardsOwn
<1>2. TypeInv /\ RunQueueInv /\ SleepIInv /\ [Next]_vars => SleepIInv'
  <2> SUFFICES ASSUME TypeInv, RunQueueInv, SleepIInv, [Next]_vars PROVE SleepIInv'
    OBVIOUS
  <2>1. CASE UNCHANGED vars
    BY <2>1 DEF vars, SleepIInv, Sleeps, HasAlarm, AlarmPending, AlarmRecord, StoppedAtUser,
       DiscardsOwn, Exiting, Current
  <2>2. CASE Next
    <3>1. ASSUME NEW t \in Thread, Sleeps(t)' PROVE HasAlarm(t)'
      <4>1. CASE Sleeps(t)
        BY <2>2, <3>1, <4>1, PendingAlarmStays, AlarmRecordStays DEF SleepIInv, HasAlarm
      <4>2. ASSUME NEW delay \in Delays, SleepRegister(t, delay) PROVE HasAlarm(t)'
        <5> DEFINE r == [time |-> delay, thread |-> t, event |-> "alarm"]
        <5>1. r \in TimerRecord /\ r.thread = t /\ r.event = "alarm"
          BY ConstantsAssumption DEF TimerRecord, Event
        <5>2. AddTimerRecord(r)
          BY <4>2 DEF SleepRegister
        <5> HIDE DEF r
        <5>3. \E i \in DOMAIN timerRecords' : timerRecords'[i] = r
          BY <5>1, <5>2, AddTimerRecordKeeps DEF TypeInv
        <5>4. QED
          BY <5>1, <5>3 DEF HasAlarm, AlarmRecord
      <4>3. QED
        BY <2>2, <3>1, <4>1, <4>2, SleptBefore DEF SleepIInv
    <3>2. QED
      BY <2>2, <3>1, StoppedAtUserStep, DiscardsOwnStep DEF SleepIInv
  <2>3. QED
    BY <2>1, <2>2
<1>3. QED
  BY <1>1, <1>2, TypeCorrect, RunQueueCorrect, PTL DEF Spec

\* A thread in the loop of sleep-current-thread has its alarm run, pending or
\* registered, for any number of threads and records and whatever else wakes it,
\* discards events or deregisters timers meanwhile.  It rests on where a thread can be
\* when its events or its records are discarded: stopped and restarted only at a call
\* of its own, or exiting.
THEOREM SleepersWake == Spec => []SleeperHasAlarm
<1>1. SleepIInv => SleeperHasAlarm
  BY DEF SleepIInv, SleeperHasAlarm, Sleeps, HasAlarm, AlarmPending, AlarmRecord
<1>2. QED
  BY <1>1, SleepIInvAlways, PTL

------------------------------------------------------------------------------
(* The timer is armed.                                                       *)

\* The timer records are ordered by time.
InOrder == \A i, j \in DOMAIN timerRecords : i < j => timerRecords[i].time <= timerRecords[j].time

\* The turn of the current thread ends, and no record is overslept.
TurnEnds ==
  Len(runQueue) > 1 /\ timerInterval # 0 /\ pc[Current] # "created"
    => timerBit \/ hwTimer \in 1 .. timerInterval

RecordsDue == \A i \in DOMAIN timerRecords : timerBit \/ hwTimer \in 1 .. timerRecords[i].time

\* The points at which the timer is right: the interruptible ones, and those from which
\* one is reached without another call of %maybe-toggle-thread-timer.
ArmedPoint == \/ kstep \in {"none", "lock"}
              \/ kstep = "handle" /\ caller \in {"unblock", "none"}

\* The inductive invariant behind TimerArmed.
Armed ==
  /\ ArmedPoint => TurnEnds /\ RecordsDue
  /\ kstep = "lock" => pc[Current] # "created"

\* Taking one out, or inserting one where register-time-event does, keeps the order.
LEMMA DropAtInOrder ==
  ASSUME TypeOK, InOrder, NEW k \in DOMAIN timerRecords, timerRecords' = DropAt(timerRecords, k)
  PROVE  InOrder'
<1> DEFINE s == timerRecords
           l == DropAt(s, k)
           n == Len(s)
           f(i) == IF i < k THEN i ELSE i + 1
<1>1. n \in Nat /\ DOMAIN s = 1 .. n /\ k \in 1 .. n /\ s \in Seq(TimerRecord)
  BY DEF TypeOK
<1>2. /\ DOMAIN l = 1 .. n - 1
      /\ \A i \in 1 .. k - 1 : l[i] = s[i]
      /\ \A i \in k .. n - 1 : l[i] = s[i + 1]
  BY <1>1, DropAtPlaces
<1> HIDE DEF l
<1>3. ASSUME NEW i \in 1 .. n - 1 PROVE f(i) \in DOMAIN s /\ l[i] = s[f(i)]
  <2>1. CASE i < k
    <3>1. i \in 1 .. k - 1 /\ i \in DOMAIN s
      BY <1>1, <2>1
    <3>2. QED
      BY <1>2, <2>1, <3>1
  <2>2. CASE ~(i < k)
    <3>1. i \in k .. n - 1 /\ i + 1 \in DOMAIN s
      BY <1>1, <2>2
    <3>2. QED
      BY <1>2, <2>2, <3>1
  <2>3. QED
    BY <2>1, <2>2
<1>4. ASSUME NEW i \in 1 .. n - 1, NEW j \in 1 .. n - 1, i < j PROVE l[i].time <= l[j].time
  <2>1. f(i) < f(j)
    BY <1>1, <1>4
  <2> HIDE DEF f
  <2>2. s[f(i)].time <= s[f(j)].time
    BY <1>3, <2>1 DEF InOrder
  <2>3. QED
    BY <1>3, <2>2
<1>5. timerRecords' = l
  BY DEF l
<1>6. QED
  BY <1>2, <1>4, <1>5 DEF InOrder

LEMMA AddTimerRecordInOrder ==
  ASSUME TypeOK, InOrder, NEW r \in TimerRecord, AddTimerRecord(r)
  PROVE  InOrder'
<1> DEFINE s == timerRecords
           n == Len(s)
<1>1. PICK k \in 1 .. n + 1 :
        /\ \A j \in 1 .. k - 1 : s[j].time <= r.time
        /\ k <= n => r.time < s[k].time
        /\ timerRecords' = InsertBefore(s, k, r)
  BY DEF AddTimerRecord
<1>2. n \in Nat /\ DOMAIN s = 1 .. n /\ s \in Seq(TimerRecord) /\ k \in 1 .. n + 1
  BY DEF TypeOK
<1>3. \A j \in 1 .. n : s[j].time \in Nat
  <2>1. \A j \in 1 .. n : s[j] \in TimerRecord
    BY <1>2
  <2>2. QED
    BY <2>1 DEF TimerRecord
<1>4. r.time \in Nat
  BY DEF TimerRecord
<1> DEFINE l == InsertBefore(s, k, r)
<1>5. timerRecords' = l
  BY <1>1
<1> HIDE DEF l
<1>6. DOMAIN l = 1 .. n + 1
  <2>1. s \in Seq(TimerRecord) /\ k \in 1 .. Len(s) + 1
    BY <1>2
  <2> HIDE DEF s
  <2>2. QED
    BY <2>1, InsertBeforePlaces DEF l
<1>7. \A i \in 1 .. k - 1 : l[i] = s[i]
  <2>1. s \in Seq(TimerRecord) /\ k \in 1 .. Len(s) + 1
    BY <1>2
  <2> HIDE DEF s
  <2>2. QED
    BY <2>1, InsertBeforePlaces DEF l
<1>8. l[k] = r
  <2>1. s \in Seq(TimerRecord) /\ k \in 1 .. Len(s) + 1
    BY <1>2
  <2> HIDE DEF s
  <2>2. QED
    BY <2>1, InsertBeforePlaces DEF l
<1>9. \A i \in k + 1 .. n + 1 : l[i] = s[i - 1]
  <2>1. s \in Seq(TimerRecord) /\ k \in 1 .. Len(s) + 1
    BY <1>2
  <2> HIDE DEF s
  <2>2. QED
    BY <2>1, InsertBeforePlaces DEF l
<1>10. ASSUME NEW j \in k .. n PROVE r.time <= s[j].time
  <2>1. k \in 1 .. n /\ j \in 1 .. n /\ (k = j \/ k < j)
    BY <1>2
  <2>2. s[k].time <= s[j].time
    BY <1>2, <1>3, <2>1 DEF InOrder
  <2>3. r.time < s[k].time /\ s[k].time \in Nat /\ s[j].time \in Nat
    BY <1>1, <1>3, <2>1
  <2>4. QED
    BY <1>4, <2>2, <2>3
<1>11. ASSUME NEW i \in 1 .. n + 1, NEW j \in 1 .. n + 1, i < j PROVE l[i].time <= l[j].time
  <2>1. CASE j < k
    <3>1. i \in 1 .. k - 1 /\ j \in 1 .. k - 1 /\ i \in DOMAIN s /\ j \in DOMAIN s
      BY <1>2, <1>11, <2>1
    <3>2. QED
      BY <1>7, <1>11, <3>1 DEF InOrder
  <2>2. CASE j = k
    <3>1. i \in 1 .. k - 1
      BY <1>2, <1>11, <2>2
    <3>2. QED
      BY <1>1, <1>7, <1>8, <2>2, <3>1
  <2>3. CASE j > k
    <3>1. j \in k + 1 .. n + 1 /\ j - 1 \in k .. n /\ j - 1 \in DOMAIN s
      BY <1>2, <2>3
    <3>2. l[j] = s[j - 1]
      BY <1>9, <3>1
    <3>3. CASE i < k
      <4>1. i \in 1 .. k - 1 /\ i \in DOMAIN s /\ i < j - 1
        BY <1>2, <2>3, <3>3
      <4>2. l[i] = s[i] /\ s[i].time <= s[j - 1].time
        BY <1>7, <3>1, <4>1 DEF InOrder
      <4>3. QED
        BY <3>2, <4>2
    <3>4. CASE i = k
      BY <1>8, <1>10, <3>1, <3>2, <3>4
    <3>5. CASE i > k
      <4>1. i \in k + 1 .. n + 1 /\ i - 1 \in DOMAIN s /\ i - 1 < j - 1
        BY <1>2, <1>11, <3>5
      <4>2. l[i] = s[i - 1] /\ s[i - 1].time <= s[j - 1].time
        BY <1>9, <3>1, <4>1 DEF InOrder
      <4>3. QED
        BY <3>2, <4>2
    <3>6. QED
      BY <1>2, <3>3, <3>4, <3>5
  <2>4. QED
    BY <1>2, <2>1, <2>2, <2>3
<1>12. QED
  BY <1>5, <1>6, <1>11 DEF InOrder

\* register-time-event and the deletions keep timer-records ordered, and time passes for
\* all of them alike.
LEMMA InOrderStep ==
  ASSUME TypeInv, InOrder, Next
  PROVE  InOrder'
<1> USE DEF TypeInv
<1>1. timerRecords \in Seq(TimerRecord)
  BY DEF TypeOK
<1>2. ASSUME UNCHANGED timerRecords PROVE InOrder'
  BY <1>2 DEF InOrder
<1>3. CASE Tick
  <2>1. DOMAIN timerRecords' = DOMAIN timerRecords
    BY <1>3 DEF Tick
  <2>2. ASSUME NEW i \in DOMAIN timerRecords
        PROVE  /\ timerRecords[i].time \in Nat
               /\ timerRecords'[i].time = IF timerRecords[i].time > 0
                                          THEN timerRecords[i].time - 1 ELSE 0
    <3>1. timerRecords[i] \in TimerRecord
      BY <1>1
    <3>2. timerRecords'[i] = [timerRecords[i] EXCEPT !.time = IF @ > 0 THEN @ - 1 ELSE 0]
      BY <1>3 DEF Tick
    <3>3. QED
      BY <3>1, <3>2 DEF TimerRecord
  <2>3. QED
    BY <2>1, <2>2 DEF InOrder
<1>4. CASE DeliverOneRecord
  <2> DEFINE n == Len(timerRecords)
  <2>1. timerRecords # <<>> /\ timerRecords' = Tail(timerRecords)
    BY <1>4 DEF DeliverOneRecord
  <2>2. /\ n \in Nat /\ DOMAIN timerRecords = 1 .. n
        /\ DOMAIN Tail(timerRecords) = 1 .. n - 1
        /\ \A i \in 1 .. n - 1 : Tail(timerRecords)[i] = timerRecords[i + 1]
    BY <1>1, <2>1
  <2>3. \A i \in 1 .. n - 1 : i + 1 \in DOMAIN timerRecords
    BY <2>2
  <2>4. \A i, j \in 1 .. n - 1 : i < j => i + 1 < j + 1
    BY <2>2
  <2>5. QED
    BY <2>1, <2>2, <2>3, <2>4 DEF InOrder
<1>5. CASE DiscardTimerRecord
  BY <1>5, DropAtInOrder DEF DiscardTimerRecord
<1>6. CASE KernelStep
  <2>1. CASE ~(DeliverOneRecord \/ DiscardTimerRecord)
    BY <1>2, <1>6, <2>1 DEF KernelStep, ResumeCurrentThread, HandleOneEvent, HandleReturn,
       DeliverReturn, LockSuspend, Suspend, LockReturn, DiscardReturn, ExitJoins,
       ExitMutex, ExitMutexesDone, ReleaseOne, ReleaseReturn, ExitDead
  <2>2. QED
    BY <1>4, <1>5, <2>1
<1>7. ASSUME NEW u \in Thread, ThreadStep(u) PROVE InOrder'
  <2>1. ASSUME NEW delay \in Delays, SleepRegister(u, delay) PROVE InOrder'
    BY <2>1, AddTimerRecordInOrder, ConstantsAssumption DEF SleepRegister, TimerRecord, Event
  <2>2. CASE ~\E delay \in Delays : SleepRegister(u, delay)
    BY <1>2, <1>7, <2>2 DEF ThreadStep, CreateThreadReturn, SignalSelfAdd,
       UnblockThreadEvents, SleepSuspend, Suspend, SleepReturn
  <2>3. QED
    BY <2>1, <2>2
<1>8. ASSUME NEW u \in Thread, UserCall(u) PROVE InOrder'
  <2>1. ASSUME NEW delay \in Delays, NEW event \in Events, RegisterTimerEvent(u, delay, event)
        PROVE  InOrder'
    BY <2>1, AddTimerRecordInOrder, ConstantsAssumption DEF RegisterTimerEvent, TimerRecord, Event
  <2>2. ASSUME NEW i \in DOMAIN timerRecords, DeregisterTimerEvent(u, i) PROVE InOrder'
    BY <2>2, DropAtInOrder DEF DeregisterTimerEvent
  <2>3. CASE ~((\E delay \in Delays, event \in Events : RegisterTimerEvent(u, delay, event))
               \/ \E i \in DOMAIN timerRecords : DeregisterTimerEvent(u, i))
    BY <1>2, <1>8, <2>3 DEF UserCall, YieldCurrentThread, SetPreemption,
       StopCurrentThread, SuspendCurrentThread, Suspend, SignalSelf,
       UnblockThreadEvents, SetThreadEventBlock, HandleCurrentThreadEvents,
       AllowThreadEventDelivery, SetThreadTimerInterval, SleepCurrentThread,
       LockThreadMutex, EnqueueForMutex, UnlockThreadMutex, ExitCurrentThread,
       DeregisterAllEvents, CreateThread, SignalThreadEvent, RestartThread, JoinThread,
       JoinExitedThread, DetachThread
  <2>4. QED
    BY <2>1, <2>2, <2>3
<1>9. CASE TimerInterrupt \/ \E u \in Thread, event \in Events : SignalWhileIdle(u, event)
  BY <1>2, <1>9 DEF TimerInterrupt, SignalWhileIdle
<1>10. QED
  BY <1>3, <1>6, <1>7, <1>8, <1>9 DEF Next

\* %maybe-toggle-thread-timer sets the timer right, whatever the state it finds: without
\* the time slices only when no thread is left to run.
LEMMA ToggleArms ==
  ASSUME TypeInv', InOrder', NEW b \in BOOLEAN, MaybeToggleThreadTimer(b), b \/ Idle'
  PROVE  TurnEnds' /\ RecordsDue'
<1>1. timerRecords' \in Seq(TimerRecord) /\ timerInterval' \in Nat
  BY DEF TypeInv, TypeOK
<1>2. ASSUME timerRecords' # <<>>
      PROVE  /\ 1 \in DOMAIN timerRecords' /\ Head(timerRecords') = timerRecords'[1]
             /\ Head(timerRecords').time \in Nat
  <2>1. 1 \in DOMAIN timerRecords' /\ Head(timerRecords') = timerRecords'[1]
    BY <1>1, <1>2
  <2>2. timerRecords'[1] \in TimerRecord
    BY <1>1, <2>1
  <2>3. QED
    BY <2>1, <2>2 DEF TimerRecord
<1>3. ASSUME NEW i \in DOMAIN timerRecords'
      PROVE  timerRecords'[i].time \in Nat /\ Head(timerRecords').time <= timerRecords'[i].time
  <2>1. timerRecords' # <<>> /\ i \in Nat /\ i >= 1
    BY <1>1
  <2>2. timerRecords'[i] \in TimerRecord
    BY <1>1
  <2>3. timerRecords'[i].time \in Nat
    BY <2>2 DEF TimerRecord
  <2>4. QED
    BY <1>2, <2>1, <2>3 DEF InOrder
<1>4. timerRecords' = <<>> => DOMAIN timerRecords' = {}
  OBVIOUS
<1>5. Idle' => ~(Len(runQueue') > 1)
  BY DEF Idle
<1>6. RecordsDue'
  <2>1. CASE timerRecords' = <<>>
    BY <1>4, <2>1 DEF RecordsDue
  <2>2. CASE timerRecords' # <<>>
    BY <1>1, <1>2, <1>3, <2>2 DEF RecordsDue, MaybeToggleThreadTimer, StartTimer
  <2>3. QED
    BY <2>1, <2>2
<1>7. TurnEnds'
  <2>1. CASE timerRecords' = <<>>
    BY <1>1, <1>5, <2>1 DEF TurnEnds, MaybeToggleThreadTimer, StartTimer
  <2>2. CASE timerRecords' # <<>>
    BY <1>1, <1>2, <1>5, <2>2 DEF TurnEnds, MaybeToggleThreadTimer, StartTimer
  <2>3. QED
    BY <2>1, <2>2
<1>8. QED
  BY <1>6, <1>7

\* A step that touches neither the timer nor the run queue keeps it right.
LEMMA ClockKeeps ==
  ASSUME Armed, ArmedPoint, pc[Current] = "created" => pc'[Current] = "created",
         UNCHANGED <<runQueue, timerRecords, timerInterval, hwTimer, timerBit>>
  PROVE  TurnEnds' /\ RecordsDue'
  BY DEF Armed, TurnEnds, RecordsDue, Current

\* The loop of %lock-thread-mutex is not inside create-thread.
LEMMA LockNotCreatedStep ==
  ASSUME TypeInv, Armed, Next, kstep' = "lock"
  PROVE  pc'[Current'] # "created"
<1> USE DEF TypeInv
<1>1. CASE KernelStep
  <2>1. ResumeCurrentThread \/ HandleReturn
    BY <1>1 DEF KernelStep, ResumeCurrentThread, HandleOneEvent, BeginExit, HandleReturn,
       DeliverOneRecord, DeliverReturn, YieldThread, LockSuspend, Suspend, LockReturn,
       DiscardTimerRecord, DiscardReturn, ExitJoins, ExitMutex, ExitMutexesDone,
       BeginRelease, ReleaseOne, ReleaseReturn, ExitDead, ThreadNotRunning
  <2>2. kstep' = Return(Current) /\ UNCHANGED <<runQueue, pc>>
    BY <2>1 DEF ResumeCurrentThread, HandleReturn, ThreadNotRunning
  <2>3. QED
    BY <2>2 DEF Return, Current
<1>2. ASSUME NEW t \in Thread, ThreadStep(t) PROVE FALSE
  BY <1>2 DEF ThreadStep, At, CreateThreadReturn, SignalSelfAdd, UnblockThreadEvents,
     SleepRegister, SleepSuspend, Suspend, SleepReturn
<1>3. ASSUME NEW t \in Thread, UserCall(t) PROVE pc'[Current'] # "created"
  <2>1. \E m \in Mutex : EnqueueForMutex(t, m)
    BY <1>3 DEF UserCall, Calls, YieldCurrentThread, YieldThread, SetPreemption,
       StopCurrentThread, ThreadNotRunning, SuspendCurrentThread, Suspend, SignalSelf,
       UnblockThreadEvents, SetThreadEventBlock, HandleCurrentThreadEvents,
       AllowThreadEventDelivery, RegisterTimerEvent, DeregisterTimerEvent,
       SetThreadTimerInterval, SleepCurrentThread, LockThreadMutex, UnlockThreadMutex,
       ExitCurrentThread, BeginExit, DeregisterAllEvents, CreateThread, SignalThreadEvent,
       RestartThread, JoinThread, JoinExitedThread, DetachThread, BeginRelease
  <2>2. UNCHANGED runQueue /\ t = Current /\ pc' = [pc EXCEPT ![t] = "lock"]
    BY <2>1 DEF EnqueueForMutex, Calls
  <2>3. QED
    BY <2>2 DEF Current, TypeOK
<1>4. CASE TimerInterrupt \/ Tick \/ \E u \in Thread, event \in Events : SignalWhileIdle(u, event)
  BY <1>4 DEF TimerInterrupt, Tick, SignalWhileIdle
<1>5. QED
  BY <1>1, <1>2, <1>3, <1>4 DEF Next

\* Time passes.
LEMMA TickKeepsArmed ==
  ASSUME TypeInv, Armed, Tick, ArmedPoint'
  PROVE  TurnEnds' /\ RecordsDue'
<1> USE DEF TypeInv
<1>1. TurnEnds /\ RecordsDue
  BY DEF Tick, Armed, ArmedPoint
<1>2. timerRecords \in Seq(TimerRecord) /\ timerInterval \in Nat /\ hwTimer \in Nat \cup {-1}
  BY DEF TypeOK, Off
<1>3. /\ hwTimer' = IF hwTimer > 1 THEN hwTimer - 1 ELSE -1
      /\ timerBit' = (timerBit \/ hwTimer = 1)
  BY DEF Tick, Off
<1>4. ASSUME NEW i \in DOMAIN timerRecords'
      PROVE  timerBit' \/ hwTimer' \in 1 .. timerRecords'[i].time
  <2>1. i \in DOMAIN timerRecords
    BY DEF Tick
  <2>2. timerRecords[i] \in TimerRecord
    BY <1>2, <2>1
  <2>3. timerRecords'[i] = [timerRecords[i] EXCEPT !.time = IF @ > 0 THEN @ - 1 ELSE 0]
    BY <2>1 DEF Tick
  <2>4. /\ timerRecords[i].time \in Nat
        /\ timerRecords'[i].time = IF timerRecords[i].time > 0
                                   THEN timerRecords[i].time - 1 ELSE 0
    BY <2>2, <2>3 DEF TimerRecord
  <2>5. timerBit \/ hwTimer \in 1 .. timerRecords[i].time
    BY <1>1, <2>1 DEF RecordsDue
  <2>6. CASE timerBit
    BY <1>3, <2>6
  <2>7. CASE hwTimer \in 1 .. timerRecords[i].time
    <3>1. CASE hwTimer = 1
      BY <1>3, <3>1
    <3>2. CASE hwTimer # 1
      <4>1. hwTimer > 1 /\ hwTimer \in Nat /\ timerRecords[i].time > 0
        BY <2>4, <2>7, <3>2
      <4>2. hwTimer' = hwTimer - 1 /\ timerRecords'[i].time = timerRecords[i].time - 1
        BY <1>3, <2>4, <4>1
      <4>3. QED
        BY <2>4, <2>7, <4>1, <4>2
    <3>3. QED
      BY <3>1, <3>2
  <2>8. QED
    BY <2>5, <2>6, <2>7
<1>5. TurnEnds'
  <2>1. UNCHANGED <<runQueue, timerInterval, pc>> /\ Current' = Current
    BY DEF Tick, Current
  <2>2. CASE timerBit \/ hwTimer = 1
    <3>1. timerBit'
      BY <1>3, <2>2
    <3>2. QED
      BY <3>1 DEF TurnEnds
  <2>3. CASE hwTimer \in 1 .. timerInterval /\ hwTimer # 1
    BY <1>2, <1>3, <2>1, <2>3 DEF TurnEnds
  <2>4. QED
    BY <1>1, <2>1, <2>2, <2>3 DEF TurnEnds
<1>6. QED
  BY <1>4, <1>5 DEF RecordsDue

LEMMA KernelArmed ==
  ASSUME TypeInv, TypeInv', InOrder', Armed, KernelStep, ArmedPoint'
  PROVE  TurnEnds' /\ RecordsDue'
<1> USE DEF TypeInv
<1>1. ASSUME MaybeToggleThreadTimer(TRUE) PROVE TurnEnds' /\ RecordsDue'
  BY <1>1, ToggleArms
<1>2. ASSUME ArmedPoint, UNCHANGED pc,
             UNCHANGED <<runQueue, timerRecords, timerInterval, hwTimer, timerBit>>
      PROVE  TurnEnds' /\ RecordsDue'
  BY <1>2, ClockKeeps
<1>3. ASSUME NEW t, NEW state, NEW has, ThreadNotRunning(t, state, has), caller' = "none" \/ UNCHANGED caller
      PROVE  TurnEnds' /\ RecordsDue'
  <2>1. kstep' \in {"none", "resume"}
    BY <1>3 DEF ThreadNotRunning
  <2>2. Idle' /\ MaybeToggleThreadTimer(FALSE)
    BY <1>3, <2>1 DEF ThreadNotRunning, ArmedPoint, Idle
  <2>3. QED
    BY <2>2, ToggleArms
<1>4. CASE ResumeCurrentThread
  BY <1>1, <1>4 DEF ResumeCurrentThread, ArmedPoint
<1>5. CASE HandleOneEvent
  BY <1>2, <1>5 DEF HandleOneEvent, BeginExit, ArmedPoint
<1>6. CASE HandleReturn
  <2>1. CASE caller \in {"unblock", "none"}
    BY <1>2, <1>6, <2>1 DEF HandleReturn, ArmedPoint
  <2>2. CASE caller = "suspend" /\ ~anyEvents
    BY <1>3, <1>6, <2>2 DEF HandleReturn, FrameGone
  <2>3. CASE ~(caller \in {"unblock", "none"}) /\ ~(caller = "suspend" /\ ~anyEvents)
    BY <1>1, <1>6, <2>3 DEF HandleReturn
  <2>4. QED
    BY <2>1, <2>2, <2>3
<1>7. CASE DeliverReturn
  BY <1>1, <1>7 DEF DeliverReturn, YieldThread, ArmedPoint
<1>8. CASE LockReturn
  <2>1. kstep = "lock" /\ pc[Current] # "created"
    BY <1>8 DEF LockReturn, Armed
  <2>2. UNCHANGED <<runQueue, timerRecords, timerInterval, hwTimer, timerBit>> /\ ArmedPoint
    BY <1>8, <2>1 DEF LockReturn, ArmedPoint
  <2>3. QED
    BY <2>1, <2>2, ClockKeeps
<1>9. CASE DiscardReturn
  BY <1>1, <1>9 DEF DiscardReturn, ArmedPoint
<1>10. CASE ReleaseReturn
  BY <1>1, <1>10 DEF ReleaseReturn
<1>11. CASE ExitDead
  BY <1>3, <1>11 DEF ExitDead, FrameGone
<1>12. CASE DeliverOneRecord \/ LockSuspend \/ DiscardTimerRecord \/ ExitJoins \/ ExitMutex
            \/ ExitMutexesDone \/ ReleaseOne
  BY <1>12 DEF DeliverOneRecord, LockSuspend, Suspend, DiscardTimerRecord, ExitJoins,
     ExitMutex, ExitMutexesDone, BeginRelease, ReleaseOne, ArmedPoint
<1>13. QED
  BY <1>4, <1>5, <1>6, <1>7, <1>8, <1>9, <1>10, <1>11, <1>12 DEF KernelStep

LEMMA ThreadArmed ==
  ASSUME TypeInv, TypeInv', InOrder', Armed, NEW t \in Thread, ThreadStep(t), ArmedPoint'
  PROVE  TurnEnds' /\ RecordsDue'
<1> USE DEF TypeInv
<1>1. ASSUME MaybeToggleThreadTimer(TRUE) PROVE TurnEnds' /\ RecordsDue'
  BY <1>1, ToggleArms
<1>2. CASE CreateThreadReturn(t) \/ \E delay \in Delays : SleepRegister(t, delay)
  BY <1>1, <1>2 DEF CreateThreadReturn, SleepRegister
<1>3. CASE SignalSelfAdd(t) \/ (At(t, "unblock") /\ UnblockThreadEvents(t)) \/ SleepReturn(t)
  <2>1. kstep = "none" /\ pc[Current] # "created"
    BY <1>3 DEF SignalSelfAdd, SleepReturn, At
  <2>2. UNCHANGED <<runQueue, timerRecords, timerInterval, hwTimer, timerBit>>
    BY <1>3 DEF SignalSelfAdd, UnblockThreadEvents, SleepReturn
  <2>3. QED
    BY <2>1, <2>2, ClockKeeps DEF ArmedPoint
<1>4. CASE SleepSuspend(t)
  BY <1>4 DEF SleepSuspend, Suspend, ArmedPoint
<1>5. QED
  BY <1>2, <1>3, <1>4 DEF ThreadStep

LEMMA UserArmed ==
  ASSUME TypeInv, TypeInv', InOrder', Armed, NEW t \in Thread, UserCall(t), ArmedPoint'
  PROVE  TurnEnds' /\ RecordsDue'
<1> USE DEF TypeInv
<1>1. ASSUME MaybeToggleThreadTimer(TRUE) PROVE TurnEnds' /\ RecordsDue'
  BY <1>1, ToggleArms
<1>2. kstep = "none" /\ t = Current /\ pc[Current] = "user" /\ ArmedPoint
  BY DEF UserCall, Calls, YieldCurrentThread, SetPreemption, StopCurrentThread,
     SuspendCurrentThread, SignalSelf, SetThreadEventBlock, HandleCurrentThreadEvents,
     AllowThreadEventDelivery, RegisterTimerEvent, DeregisterTimerEvent,
     SetThreadTimerInterval, SleepCurrentThread, LockThreadMutex, EnqueueForMutex,
     UnlockThreadMutex, ExitCurrentThread, DeregisterAllEvents, CreateThread,
     SignalThreadEvent, RestartThread, JoinThread, JoinExitedThread, DetachThread, ArmedPoint
<1>3. ASSUME UNCHANGED <<runQueue, timerRecords, timerInterval, hwTimer, timerBit>>
      PROVE  TurnEnds' /\ RecordsDue'
  BY <1>2, <1>3, ClockKeeps
<1>4. CASE StopCurrentThread(t)
  <2>1. ThreadNotRunning(t, "STOPPED", TRUE) /\ UNCHANGED caller
    BY <1>4 DEF StopCurrentThread
  <2>2. kstep' \in {"none", "resume"}
    BY <2>1 DEF ThreadNotRunning
  <2>3. Idle' /\ MaybeToggleThreadTimer(FALSE)
    BY <2>1, <2>2 DEF ThreadNotRunning, ArmedPoint, Idle
  <2>4. QED
    BY <2>3, ToggleArms
<1>5. ASSUME NEW u \in Thread, CreateThread(t, u) PROVE TurnEnds' /\ RecordsDue'
  <2>1. /\ runQueue \in Seq(Thread) /\ runQueue # <<>>
        /\ runQueue' = Append(runQueue, u) /\ pc' = [pc EXCEPT ![t] = "created"]
    BY <1>5 DEF CreateThread, Calls, Idle, TypeOK
  <2>2. Current' = Current
    BY <2>1, HeadOfAppend DEF Current
  <2>3. TurnEnds'
    BY <1>2, <2>1, <2>2 DEF TurnEnds, TypeOK
  <2>4. QED
    BY <1>2, <1>5, <2>3 DEF Armed, RecordsDue, CreateThread
<1>6. ASSUME NEW m \in Mutex, UnlockThreadMutex(t, m) PROVE TurnEnds' /\ RecordsDue'
  BY <1>1, <1>3, <1>6 DEF UnlockThreadMutex, HandOver
<1>7. CASE \/ \E event \in Events : SignalSelf(t, event)
           \/ Calls(t, "block") /\ UnblockThreadEvents(t)
           \/ \E block \in {"#f", "#t"} : SetThreadEventBlock(t, block)
           \/ HandleCurrentThreadEvents(t)
           \/ \E state \in RunningStates : SetPreemption(t, state)
           \/ SleepCurrentThread(t)
           \/ \E m \in Mutex : LockThreadMutex(t, m) \/ EnqueueForMutex(t, m)
           \/ \E u \in Thread : JoinThread(t, u) \/ JoinExitedThread(t, u)
  BY <1>3, <1>7 DEF SignalSelf, UnblockThreadEvents, SetThreadEventBlock,
     HandleCurrentThreadEvents, SetPreemption, SleepCurrentThread, LockThreadMutex,
     EnqueueForMutex, JoinThread, JoinExitedThread
<1>8. CASE \/ \E delay \in Delays, event \in Events : RegisterTimerEvent(t, delay, event)
           \/ \E i \in DOMAIN timerRecords : DeregisterTimerEvent(t, i)
           \/ \E interval \in Intervals : SetThreadTimerInterval(t, interval)
           \/ \E u \in Thread :
                \/ \E event \in Events : SignalThreadEvent(t, u, event)
                \/ \E discard \in BOOLEAN, event \in Events : RestartThread(t, u, discard, event)
  BY <1>1, <1>8 DEF RegisterTimerEvent, DeregisterTimerEvent, SetThreadTimerInterval,
     SignalThreadEvent, RestartThread
<1>9. CASE \/ YieldCurrentThread(t) \/ SuspendCurrentThread(t) \/ AllowThreadEventDelivery(t)
           \/ ExitCurrentThread(t) \/ DeregisterAllEvents(t)
           \/ \E u \in Thread : DetachThread(t, u)
  BY <1>9 DEF YieldCurrentThread, YieldThread, SuspendCurrentThread, Suspend,
     AllowThreadEventDelivery, ExitCurrentThread, BeginExit, DeregisterAllEvents,
     DetachThread, BeginRelease, ArmedPoint
<1>10. QED
  BY <1>4, <1>5, <1>6, <1>7, <1>8, <1>9 DEF UserCall

LEMMA ArmedStep ==
  ASSUME TypeInv, TypeInv', InOrder', Armed, Next
  PROVE  Armed'
<1>1. ASSUME ArmedPoint' PROVE TurnEnds' /\ RecordsDue'
  <2>1. CASE TimerInterrupt
    BY <1>1, <2>1 DEF TimerInterrupt, ArmedPoint
  <2>2. ASSUME NEW u \in Thread, NEW event \in Events, SignalWhileIdle(u, event)
        PROVE  TurnEnds' /\ RecordsDue'
    <3>1. MaybeToggleThreadTimer(TRUE)
      BY <1>1, <2>2 DEF SignalWhileIdle, ArmedPoint
    <3>2. QED
      BY <3>1, ToggleArms
  <2>3. QED
    BY <1>1, <2>1, <2>2, TickKeepsArmed, KernelArmed, ThreadArmed, UserArmed DEF Next
<1>2. QED
  BY <1>1, LockNotCreatedStep DEF Armed

\* Whatever procedures led to an interruptible point, the one hardware timer ends the turn
\* of the running thread within timer-interval and no timer record is overslept, for any
\* number of threads and records.  The points of ArmedPoint are those from which the code
\* goes on to an interruptible one without calling %maybe-toggle-thread-timer again.
THEOREM TimerAlwaysArmed == Spec => []TimerArmed
<1>1. Init => InOrder /\ Armed
  <2> SUFFICES ASSUME Init PROVE InOrder /\ Armed
    OBVIOUS
  <2>1. timerRecords = <<>> /\ Len(runQueue) = 1 /\ kstep = "none"
    BY DEF Init
  <2>2. QED
    BY <2>1 DEF InOrder, Armed, TurnEnds, RecordsDue
<1>2. TypeInv /\ TypeInv' /\ InOrder /\ Armed /\ [Next]_vars => InOrder' /\ Armed'
  <2> SUFFICES ASSUME TypeInv, TypeInv', InOrder, Armed, [Next]_vars PROVE InOrder' /\ Armed'
    OBVIOUS
  <2>1. CASE UNCHANGED vars
    BY <2>1 DEF vars, InOrder, Armed, TurnEnds, RecordsDue, ArmedPoint, Current
  <2>2. CASE Next
    BY <2>2, InOrderStep, ArmedStep
  <2>3. QED
    BY <2>1, <2>2
<1>3. InOrder /\ Armed => TimerArmed
  BY DEF Armed, ArmedPoint, TurnEnds, RecordsDue, TimerArmed, PreemptionArmed, AlarmArmed
<1>4. QED
  BY <1>1, <1>2, <1>3, TypeCorrect, PTL DEF Spec
=============================================================================
