------------------------------- MODULE Threads -------------------------------
(***************************************************************************)
(* The thread scheduler of the runtime system, src/src/runtime/thread.scm  *)
(* (with the rings of thread-low.scm).  One processor interleaves the      *)
(* threads: the first thread of the run queue has it.  A procedure of the  *)
(* thread system runs with interrupts limited to gc-ok, so nothing comes   *)
(* between its steps; the timer interrupt is taken only at an              *)
(* interruptible point of the code of the current thread, or while the     *)
(* system idles in wait-for-io because the run queue is empty.             *)
(*                                                                         *)
(* Two program counters say where the processor is:                        *)
(*   kstep   the uninterruptible step of the thread system that is under   *)
(*           way, "none" at an interruptible point;                        *)
(*   pc[t]   the point at which the code of thread t goes on: "user" when  *)
(*           t is about to call a procedure of the thread system, else a   *)
(*           point inside such a procedure.                                *)
(* Loops of the code (handling events, delivering timer records, the       *)
(* clean-up of an exiting thread) take one step per iteration.             *)
(*                                                                         *)
(* No I/O or subprocess event is registered here (io-registrations = #f,   *)
(* subprocess-registrations = '()), so maybe-signal-io-thread-events does  *)
(* nothing.                                                                *)
(***************************************************************************)
EXTENDS Integers, Sequences, FiniteSets

CONSTANTS
  Thread,        \* thread objects
  FirstThread,   \* the thread made by initialize-low!
  Mutex,         \* thread mutexes
  None,          \* #f as the owner of a mutex
  TimerInterval, \* initial timer-interval, in ticks
  Intervals,     \* arguments of set-thread-timer-interval!, 0 is #f
  Delays,        \* intervals given to register-timer-event and to sleep
  Events,        \* events that signal-thread-event is called with
  Ops,           \* for each thread, the procedures that its code calls
  MaxPending,    \* bound on the events queued in one ring by Signal
  MaxTimers,     \* bound on the length of timer-records
  MaxJoins       \* bound on the joins of one thread that are waiting for its exit

\* An event is a thunk: what the model needs of it is what it does.  "#f" runs
\* nothing; "alarm" is the event of sleep-current-thread, "join" the event of
\* join-thread, "kill" calls exit-current-thread, "user" returns.
Event == {"#f", "user", "alarm", "join", "kill"}

ASSUME ConstantsAssumption ==
  /\ FirstThread \in Thread
  /\ None \notin Thread /\ None \notin Mutex
  /\ TimerInterval \in Nat
  /\ Intervals \subseteq Nat
  /\ Delays \subseteq Nat
  /\ Events \subseteq {"#f", "user", "kill"}
  /\ MaxPending \in Nat /\ MaxTimers \in Nat /\ MaxJoins \in Nat

States == {"UNBORN", "RUNNING", "RUNNING-WITHOUT-PREEMPTION",
           "WAITING", "STOPPED", "DEAD"}
RunningStates == {"RUNNING", "RUNNING-WITHOUT-PREEMPTION"}
Blocks == {"#f", "#t", "suspended"}
KSteps == {"none", "resume", "lock", "deliver", "handle", "release",
           "discard-timers", "exit-joins", "exit-mutexes", "exit"}
PCs == {"user", "created", "lock", "counted", "unblock",
        "sleep-register", "sleep-loop"}
Callers == {"none", "resume", "suspend", "unblock", "allow", "interrupt",
            "deregister", "exit", "detach"}
TimerRecord == [time : Nat, thread : Thread, event : Event]
RingStates == {"empty", "one #f", "other"}
Counted == [event : Event, found : RingStates]
NothingCounted == [event |-> "#f", found |-> "empty"]
Off == -1

VARIABLES
  executionState, \* thread/execution-state
  runQueue,       \* first-running-thread, thread/next ..., last-running-thread
  continuation,   \* is thread/continuation set
  kstep,
  pc,
  blockEvents,    \* thread/block-events?
  pendingEvents,  \* thread/pending-events
  joinedThreads,  \* thread/joined-threads
  joinedTo,       \* thread/joined-to
  exitValue,      \* thread/exit-value
  mutexes,        \* thread/mutexes
  owner,          \* thread-mutex/owner
  waitingThreads, \* thread-mutex/waiting-threads
  wants,          \* the mutex argument of the lock-thread-mutex under way
  saved,          \* block-events? in the frame of the procedure under way
  counted,        \* event and what %add-pending-event found in the ring
  delivered,      \* delivered? in the frame of sleep-current-thread
  timerRecords,   \* timer-records, each with the time still to pass
  timerInterval,  \* timer-interval
  hwTimer,        \* the real timer: time still to pass, or Off
  timerBit,       \* interrupt-bit/timer is pending
  nextScheduledTimeout, \* is next-scheduled-timeout set
  caller,         \* the caller of the procedure that loops
  anyEvents,      \* any-events? of handle-thread-events
  toRelease,      \* joined, in release-joined-threads
  releasing       \* thread, in release-joined-threads

threadVars  == <<executionState, runQueue, continuation>>
eventVars   == <<blockEvents, pendingEvents>>
joinVars    == <<joinedThreads, joinedTo, exitValue>>
mutexVars   == <<mutexes, owner, waitingThreads, wants>>
releaseVars == <<toRelease, releasing>>
relationVars == <<joinVars, mutexVars, releaseVars>>
frameVars   == <<saved, counted, delivered>>
clockVars   == <<hwTimer, timerBit, nextScheduledTimeout>>
recordVars  == <<timerRecords, timerInterval>>
timerVars   == <<clockVars, recordVars>>
handleVars  == <<caller, anyEvents>>
controlVars == <<kstep, pc, handleVars>>
vars == <<threadVars, eventVars, relationVars, frameVars, timerVars, controlVars>>
------------------------------------------------------------------------------
Elements(s) == {s[i] : i \in DOMAIN s}
DropAt(s, i) == SubSeq(s, 1, i - 1) \o SubSeq(s, i + 1, Len(s))
InsertBefore(s, i, x) == SubSeq(s, 1, i - 1) \o <<x>> \o SubSeq(s, i, Len(s))

\* Mutant of Without: the element is left where it is.
WithoutRemoving(s, x) == s

\* delq! and ring/remove-item of a list that holds the element at most once (MutexInv).
Without(s, x) == IF \E i \in DOMAIN s : s[i] = x
                 THEN DropAt(s, CHOOSE i \in DOMAIN s : s[i] = x)
                 ELSE s

\* Mutant of WithoutAll: the value of delq! is not stored, so a first element stays.
WithoutUnstored(s, x) == IF s # <<>> /\ Head(s) = x THEN s ELSE Without(s, x)

\* delq! and del-assq!: the elements other than x, in their order.
Others(s, x, i) == {j \in 1 .. i : s[j] # x}
WithoutAll(s, x) ==
  [k \in 1 .. Cardinality(Others(s, x, Len(s))) |->
     s[CHOOSE i \in DOMAIN s : s[i] # x /\ Cardinality(Others(s, x, i)) = k]]

\* current-thread, meaningful while the run queue is not empty.
Current == Head(runQueue)
Idle == runQueue = <<>>

\* The current thread is at an interruptible point, about to call op.
Calls(t, op) ==
  /\ op \in Ops[t]
  /\ kstep = "none" /\ ~Idle /\ t = Current /\ pc[t] = "user"

\* The current thread is at the interruptible point p inside a procedure.
At(t, p) == kstep = "none" /\ ~Idle /\ t = Current /\ pc[t] = p

\* Where the processor goes on in the code of t once t has been resumed: the
\* loop of %lock-thread-mutex calls %suspend-current-thread uninterruptibly.
Return(t) == IF pc[t] = "lock" THEN "lock" ELSE "none"

\* A procedure returns: its frame is gone.
FrameGone == caller' = "none" /\ anyEvents' = FALSE

\* initialize-low!: one running thread, already detached.
Init ==
  /\ executionState = [t \in Thread |-> IF t = FirstThread THEN "RUNNING"
                                                           ELSE "UNBORN"]
  /\ runQueue = <<FirstThread>>
  /\ continuation = [t \in Thread |-> FALSE]
  /\ kstep = "none"
  /\ pc = [t \in Thread |-> "user"]
  /\ blockEvents = [t \in Thread |-> "#f"]
  /\ pendingEvents = [t \in Thread |-> <<>>]
  /\ joinedThreads = [t \in Thread |-> <<>>]
  /\ joinedTo = [t \in Thread |-> <<>>]
  /\ exitValue = [t \in Thread |-> IF t = FirstThread THEN "detached"
                                                      ELSE "none"]
  /\ mutexes = [t \in Thread |-> <<>>]
  /\ owner = [m \in Mutex |-> None]
  /\ waitingThreads = [m \in Mutex |-> <<>>]
  /\ wants = [t \in Thread |-> None]
  /\ saved = [t \in Thread |-> "#f"]
  /\ counted = [t \in Thread |-> NothingCounted]
  /\ delivered = [t \in Thread |-> FALSE]
  /\ timerRecords = <<>>
  /\ timerInterval = TimerInterval
  /\ hwTimer = Off
  /\ timerBit = FALSE
  /\ nextScheduledTimeout = FALSE
  /\ caller = "none"
  /\ anyEvents = FALSE
  /\ toRelease = <<>>
  /\ releasing = FirstThread
------------------------------------------------------------------------------
(* The timer.  The hardware counts down and then requests the timer          *)
(* interrupt; next-scheduled-timeout remembers that it was started.          *)

StartTimer(time) ==
  /\ hwTimer' = time
  /\ nextScheduledTimeout' = TRUE
  /\ UNCHANGED timerBit

\* %stop-thread-timer: also withdraws an interrupt not yet taken.
StopThreadTimer ==
  IF nextScheduledTimeout
  THEN hwTimer' = Off /\ timerBit' = FALSE /\ nextScheduledTimeout' = FALSE
  ELSE UNCHANGED clockVars

\* Mutant: only timer records start the timer.
ToggleForRecords(considerNonTimers) ==
  IF timerRecords' # <<>>
  THEN LET next == Head(timerRecords').time
       IN  IF next = 0
           THEN timerBit' = TRUE /\ UNCHANGED <<hwTimer, nextScheduledTimeout>>
           ELSE StartTimer(next)
  ELSE StopThreadTimer

\* Mutant: only the time slice starts the timer.
ToggleForTimeSlice(considerNonTimers) ==
  IF considerNonTimers /\ timerInterval' # 0 /\ Len(runQueue') > 1
  THEN StartTimer(timerInterval')
  ELSE StopThreadTimer

\* Mutant: the timer is set for a record that is due already.
ToggleWhenDue(considerNonTimers) ==
  LET preempt == considerNonTimers /\ timerInterval' # 0
  IN  IF timerRecords' # <<>>
      THEN LET next == Head(timerRecords').time
           IN  StartTimer(IF preempt /\ timerInterval' < next THEN timerInterval' ELSE next)
      ELSE IF preempt /\ Len(runQueue') > 1
           THEN StartTimer(timerInterval')
           ELSE StopThreadTimer

\* %maybe-toggle-thread-timer, in the state that the rest of the action leaves.
MaybeToggleThreadTimer(considerNonTimers) ==
  LET preempt == considerNonTimers /\ timerInterval' # 0
  IN  IF timerRecords' # <<>>
      THEN LET next == Head(timerRecords').time
           IN  IF next = 0
               THEN timerBit' = TRUE /\ UNCHANGED <<hwTimer, nextScheduledTimeout>>
               ELSE StartTimer(IF preempt /\ timerInterval' < next
                               THEN timerInterval' ELSE next)
      ELSE IF preempt /\ Len(runQueue') > 1
           THEN StartTimer(timerInterval')
           ELSE StopThreadTimer

\* Time passes.  The steps of the thread system are short: time passes at
\* interruptible points and when a thread has just got the processor, which is
\* where a record can fall due behind the back of deliver-timer-events.
Tick ==
  /\ kstep \in {"none", "resume"}
  /\ \/ hwTimer # Off
     \/ \E i \in DOMAIN timerRecords : timerRecords[i].time > 0
  /\ hwTimer' = IF hwTimer > 1 THEN hwTimer - 1 ELSE Off
  /\ timerBit' = (timerBit \/ hwTimer = 1)
  /\ timerRecords' = [i \in DOMAIN timerRecords |->
                        [timerRecords[i] EXCEPT !.time = IF @ > 0 THEN @ - 1 ELSE 0]]
  /\ UNCHANGED <<threadVars, eventVars, relationVars, frameVars, nextScheduledTimeout,
                 timerInterval, controlVars>>
------------------------------------------------------------------------------
(* Switching threads.                                                        *)

\* thread-not-running, run-first-thread: the current thread t leaves the run
\* queue in the given state, its continuation saved or not, and the next one
\* is run; wait-for-io when there is none.
ThreadNotRunning(t, state, hasContinuation) ==
  LET rest == Tail(runQueue)
  IN  /\ executionState' = [executionState EXCEPT ![t] = state]
      /\ runQueue' = rest
      /\ IF rest # <<>>
         THEN /\ continuation' = [continuation EXCEPT ![t] = hasContinuation,
                                                      ![Head(rest)] = FALSE]
              /\ kstep' = "resume"
              /\ UNCHANGED clockVars
         ELSE /\ continuation' = [continuation EXCEPT ![t] = hasContinuation]
              /\ kstep' = "none"
              /\ MaybeToggleThreadTimer(FALSE)

\* yield-thread: t goes to the end of the run queue and the next thread is
\* run; without a next thread t itself is resumed.
YieldThread(t) ==
  /\ kstep' = "resume"
  /\ IF Len(runQueue) = 1
     THEN UNCHANGED <<runQueue, continuation>>
     ELSE /\ runQueue' = Append(Tail(runQueue), t)
          /\ continuation' = [continuation EXCEPT ![t] = TRUE,
                                                  ![runQueue[2]] = FALSE]

\* Mutant of ResumeCurrentThread: block-events? is not looked at.
ResumeAndHandle ==
  /\ kstep = "resume"
  /\ kstep' = "handle"
  /\ caller' = "resume" /\ anyEvents' = FALSE
  /\ UNCHANGED <<threadVars, eventVars, relationVars, frameVars, timerVars, pc>>

\* %resume-current-thread up to the call of handle-thread-events.
ResumeCurrentThread ==
  /\ kstep = "resume"
  /\ IF blockEvents[Current] = "#t"
     THEN /\ kstep' = Return(Current)
          /\ UNCHANGED <<runQueue, recordVars, handleVars>>
          /\ MaybeToggleThreadTimer(TRUE)
     ELSE /\ kstep' = "handle"
          /\ caller' = "resume" /\ anyEvents' = FALSE
          /\ UNCHANGED <<runQueue, timerVars>>
  /\ UNCHANGED <<executionState, continuation, eventVars, relationVars, frameVars, pc>>

YieldCurrentThread(t) ==
  /\ Calls(t, "yield")
  /\ executionState' = [executionState EXCEPT ![t] = "RUNNING"]
  /\ YieldThread(t)
  /\ UNCHANGED <<eventVars, relationVars, frameVars, timerVars, pc, handleVars>>

\* disallow-preempt-current-thread and allow-preempt-current-thread.
SetPreemption(t, state) ==
  /\ Calls(t, "preempt")
  /\ executionState' = [executionState EXCEPT ![t] = state]
  /\ UNCHANGED <<runQueue, continuation, eventVars, relationVars, frameVars, timerVars,
                 controlVars>>

StopCurrentThread(t) ==
  /\ Calls(t, "stop")
  /\ UNCHANGED recordVars
  /\ ThreadNotRunning(t, "STOPPED", TRUE)
  /\ UNCHANGED <<eventVars, relationVars, frameVars, pc, handleVars>>

\* create-thread up to %thread-running.  It runs interruptibly in the root
\* continuation, whose block-events? (#f) the creator has until it returns; the
\* new thread starts with it.
CreateThread(t, u) ==
  /\ Calls(t, "create")
  /\ executionState[u] = "UNBORN"
  /\ executionState' = [executionState EXCEPT ![u] = "RUNNING"]
  /\ runQueue' = Append(runQueue, u)
  /\ continuation' = [continuation EXCEPT ![u] = TRUE]
  /\ saved' = [saved EXCEPT ![t] = blockEvents[t]]
  /\ blockEvents' = [blockEvents EXCEPT ![t] = "#f"]
  /\ pc' = [pc EXCEPT ![t] = "created"]
  /\ UNCHANGED <<pendingEvents, relationVars, counted, delivered, timerVars, kstep,
                 handleVars>>

\* The end of create-thread: the timer, and the continuation of the creator.
CreateThreadReturn(t) ==
  /\ At(t, "created")
  /\ blockEvents' = [blockEvents EXCEPT ![t] = saved[t]]
  /\ saved' = [saved EXCEPT ![t] = "#f"]
  /\ pc' = [pc EXCEPT ![t] = "user"]
  /\ UNCHANGED <<threadVars, recordVars>>
  /\ MaybeToggleThreadTimer(TRUE)
  /\ UNCHANGED <<pendingEvents, relationVars, counted, delivered, kstep, handleVars>>
------------------------------------------------------------------------------
(* Events.                                                                   *)

\* What %add-pending-event finds out with ring/count-max-2 and ring/first-item.
RingState(ring) == IF ring = <<>> THEN "empty"
                   ELSE IF ring = <<"#f">> THEN "one #f" ELSE "other"

\* Mutants of AddWhenFound: a #f event is always queued; an event replaces all others.
EnqueueAlways(ring, found, event) == Append(ring, event)
KeepLatest(ring, found, event) == <<event>>

\* ... and what it then does to the ring.
AddWhenFound(ring, found, event) ==
  IF event # "#f"
  THEN IF found = "one #f" /\ ring # <<>>
       THEN <<event>> \o Tail(ring)       \* ring/set-first-item!
       ELSE Append(ring, event)
  ELSE IF found = "empty" THEN Append(ring, event) ELSE ring

AddPendingEvent(ring, event) == AddWhenFound(ring, RingState(ring), event)

\* Mutants of Wakes: whatever the state; also the dead; not if suspended with events
\* blocked.
WakesInAnyState(t) == blockEvents[t] # "#t"
WakesUnlessRunning(t) == executionState[t] \notin RunningStates
WakesUnlessBlocked(t) == blockEvents[t] = "#f" /\ executionState[t] = "WAITING"

\* The test of %signal-thread-event: is the thread to be made running?
Wakes(t) == blockEvents[t] # "#t" /\ executionState[t] = "WAITING"

\* %signal-thread-event: executionState, runQueue and pendingEvents.
SignalThread(t, event) ==
  /\ pendingEvents' = [pendingEvents EXCEPT ![t] = AddPendingEvent(@, event)]
  /\ IF Wakes(t)
     THEN /\ executionState' = [executionState EXCEPT ![t] = "RUNNING"]
          /\ runQueue' = Append(runQueue, t)
     ELSE UNCHANGED <<executionState, runQueue>>

\* signal-thread-event from one thread to another.
SignalThreadEvent(t, u, event) ==
  /\ Calls(t, "signal")
  /\ u # t /\ executionState[u] \notin {"UNBORN", "DEAD"}
  /\ Len(pendingEvents[u]) < MaxPending
  /\ UNCHANGED recordVars
  /\ SignalThread(u, event)
  /\ MaybeToggleThreadTimer(TRUE)
  /\ UNCHANGED <<continuation, blockEvents, relationVars, frameVars, controlVars>>

\* signal-thread-event while the system idles in wait-for-io, from the handler
\* of an interrupt other than the timer's: the thread it wakes is run at once.
SignalWhileIdle(u, event) ==
  /\ "idle-signal" \in Ops[u]
  /\ kstep = "none" /\ Idle
  /\ executionState[u] \notin {"UNBORN", "DEAD"}
  /\ Len(pendingEvents[u]) < MaxPending
  /\ UNCHANGED recordVars
  /\ SignalThread(u, event)
  /\ IF Wakes(u)
     THEN /\ continuation' = [continuation EXCEPT ![u] = FALSE]
          /\ kstep' = "resume"
          /\ UNCHANGED clockVars
     ELSE /\ UNCHANGED <<continuation, kstep>>
          /\ MaybeToggleThreadTimer(TRUE)
  /\ UNCHANGED <<blockEvents, relationVars, frameVars, pc, handleVars>>

\* A procedure that blocked the events of t unblocks them at its end, unless they
\* were blocked before.
ReturnFromBlocked(t) ==
  /\ pc' = [pc EXCEPT ![t] = IF saved[t] = "#f" THEN "unblock" ELSE "user"]
  /\ saved' = [saved EXCEPT ![t] = "#f"]
  /\ counted' = [counted EXCEPT ![t] = NothingCounted]
  /\ delivered' = [delivered EXCEPT ![t] = FALSE]

\* signal-thread-event of a thread to itself blocks its events but leaves
\* interrupts enabled: %add-pending-event looks at the ring ...
SignalSelf(t, event) ==
  /\ Calls(t, "self-signal")
  /\ Len(pendingEvents[t]) < MaxPending
  /\ saved' = [saved EXCEPT ![t] = blockEvents[t]]
  /\ blockEvents' = [blockEvents EXCEPT ![t] = "#t"]
  /\ counted' = [counted EXCEPT ![t] =
                   [event |-> event, found |-> RingState(pendingEvents[t])]]
  /\ pc' = [pc EXCEPT ![t] = "counted"]
  /\ UNCHANGED <<threadVars, pendingEvents, relationVars, delivered, timerVars, kstep,
                 handleVars>>

\* ... and changes it in a later step.
SignalSelfAdd(t) ==
  /\ At(t, "counted")
  /\ pendingEvents' = [pendingEvents EXCEPT ![t] =
                         AddWhenFound(@, counted[t].found, counted[t].event)]
  /\ ReturnFromBlocked(t)
  /\ UNCHANGED <<threadVars, blockEvents, relationVars, timerVars, kstep, handleVars>>

\* unblock-thread-events, called by the user or at the end of
\* signal-thread-event and sleep-current-thread.
UnblockThreadEvents(t) ==
  /\ Calls(t, "block") \/ At(t, "unblock")
  /\ kstep' = "handle"
  /\ caller' = "unblock" /\ anyEvents' = FALSE
  /\ pc' = [pc EXCEPT ![t] = "user"]
  /\ UNCHANGED <<threadVars, eventVars, relationVars, frameVars, timerVars>>

\* block-thread-events, and with-thread-events-blocked before it calls its thunk;
\* with-thread-events-blocked restores block-events? without handling the events
\* that arrived meanwhile.
SetThreadEventBlock(t, block) ==
  /\ Calls(t, "block")
  /\ blockEvents' = [blockEvents EXCEPT ![t] = block]
  /\ UNCHANGED <<threadVars, pendingEvents, relationVars, frameVars, timerVars,
                 controlVars>>

HandleCurrentThreadEvents(t) ==
  /\ Calls(t, "handle")
  /\ blockEvents[t] = "#f"
  /\ kstep' = "handle"
  /\ caller' = "none" /\ anyEvents' = FALSE
  /\ UNCHANGED <<threadVars, eventVars, relationVars, frameVars, timerVars, pc>>

\* allow-thread-event-delivery up to deliver-timer-events.
AllowThreadEventDelivery(t) ==
  /\ Calls(t, "handle")
  /\ saved' = [saved EXCEPT ![t] = blockEvents[t]]
  /\ blockEvents' = [blockEvents EXCEPT ![t] = "#f"]
  /\ kstep' = "deliver"
  /\ caller' = "allow" /\ anyEvents' = FALSE
  /\ UNCHANGED <<threadVars, pendingEvents, relationVars, counted, delivered, timerVars,
                 pc>>

\* %suspend-current-thread up to handle-thread-events; p is where t goes on.
Suspend(t, p) ==
  /\ blockEvents' = [blockEvents EXCEPT ![t] = IF @ = "#f" THEN "#f" ELSE "suspended"]
  /\ kstep' = "handle"
  /\ caller' = "suspend" /\ anyEvents' = FALSE
  /\ pc' = [pc EXCEPT ![t] = p]
  /\ UNCHANGED <<threadVars, pendingEvents, relationVars, frameVars, timerVars>>

SuspendCurrentThread(t) ==
  Calls(t, "suspend") /\ Suspend(t, "user")

\* exit-current-thread, up to the clean-up: no event is run in t any more.
BeginExit(t) ==
  /\ blockEvents' = [blockEvents EXCEPT ![t] = "#t"]
  /\ pendingEvents' = [pendingEvents EXCEPT ![t] = <<>>]
  /\ kstep' = "discard-timers"
  /\ caller' = "exit" /\ anyEvents' = FALSE

\* One iteration of handle-thread-events: take the first event and run it.
HandleOneEvent ==
  LET t == Current
      event == Head(pendingEvents[t])
  IN  /\ kstep = "handle" /\ pendingEvents[t] # <<>>
      /\ delivered' = [delivered EXCEPT ![t] = @ \/ event = "alarm"]
      /\ IF event = "kill"
         THEN BeginExit(t)
         ELSE /\ anyEvents' = TRUE
              /\ pendingEvents' = [pendingEvents EXCEPT ![t] = Tail(@)]
              /\ UNCHANGED <<blockEvents, kstep, caller>>
      /\ UNCHANGED <<threadVars, relationVars, saved, counted, timerVars, pc>>

\* handle-thread-events finds the ring empty and returns to its caller.
HandleReturn ==
  LET t == Current
      unsuspended == [blockEvents EXCEPT ![t] = IF @ = "suspended" THEN "#t" ELSE @]
  IN  /\ kstep = "handle" /\ pendingEvents[t] = <<>>
      /\ UNCHANGED recordVars
      /\ \/ /\ \/ caller = "resume"
               \/ caller = "suspend" /\ anyEvents
            /\ blockEvents' = unsuspended
            /\ kstep' = Return(t)
            /\ UNCHANGED <<threadVars, saved>>
            /\ MaybeToggleThreadTimer(TRUE)
         \/ /\ caller = "suspend" /\ ~anyEvents
            /\ ThreadNotRunning(t, "WAITING", TRUE)
            /\ UNCHANGED <<blockEvents, saved>>
         \/ /\ caller = "allow"
            /\ blockEvents' = [blockEvents EXCEPT ![t] = saved[t]]
            /\ saved' = [saved EXCEPT ![t] = "#f"]
            /\ kstep' = "none"
            /\ UNCHANGED threadVars
            /\ MaybeToggleThreadTimer(TRUE)
         \/ /\ caller \in {"unblock", "none"}
            /\ blockEvents' = [blockEvents EXCEPT ![t] = "#f"]
            /\ kstep' = "none"
            /\ UNCHANGED <<threadVars, clockVars, saved>>
      /\ FrameGone
      /\ UNCHANGED <<pendingEvents, relationVars, counted, delivered, pc>>

\* restart-thread of a stopped thread, its events discarded or not.
RestartThread(t, u, discard, event) ==
  /\ Calls(t, "restart")
  /\ executionState[u] = "STOPPED"
  /\ Len(pendingEvents[u]) < MaxPending
  /\ LET ring == IF discard THEN <<>> ELSE pendingEvents[u]
     IN  pendingEvents' = [pendingEvents EXCEPT ![u] =
                             IF event = "#f" THEN ring
                             ELSE AddPendingEvent(ring, event)]
  /\ executionState' = [executionState EXCEPT ![u] = "RUNNING"]
  /\ runQueue' = Append(runQueue, u)
  /\ UNCHANGED recordVars
  /\ MaybeToggleThreadTimer(TRUE)
  /\ UNCHANGED <<continuation, blockEvents, relationVars, frameVars, controlVars>>
------------------------------------------------------------------------------
(* Timer events and the timer interrupt.                                     *)

\* thread-timer-interrupt-handler up to deliver-timer-events.
TimerInterrupt ==
  /\ kstep = "none" /\ timerBit
  /\ timerBit' = FALSE
  /\ nextScheduledTimeout' = FALSE
  /\ kstep' = "deliver"
  /\ caller' = "interrupt" /\ anyEvents' = FALSE
  /\ UNCHANGED <<threadVars, eventVars, relationVars, frameVars, hwTimer, recordVars,
                 pc>>

\* One iteration of deliver-timer-events.
DeliverOneRecord ==
  /\ kstep = "deliver"
  /\ timerRecords # <<>> /\ Head(timerRecords).time = 0
  /\ SignalThread(Head(timerRecords).thread, Head(timerRecords).event)
  /\ timerRecords' = Tail(timerRecords)
  /\ UNCHANGED <<continuation, blockEvents, relationVars, frameVars, clockVars,
                 timerInterval, controlVars>>

\* deliver-timer-events returns; the interrupt handler then idles on, runs a
\* thread that the delivery woke, preempts the current thread or resumes it.
DeliverReturn ==
  /\ kstep = "deliver"
  /\ timerRecords # <<>> => Head(timerRecords).time > 0
  /\ UNCHANGED <<executionState, recordVars>>
  /\ \/ /\ caller = "allow"
        /\ kstep' = "handle"
        /\ UNCHANGED <<runQueue, continuation, clockVars, caller>>
     \/ /\ caller = "interrupt" /\ Idle
        /\ kstep' = "none"
        /\ caller' = "none"
        /\ UNCHANGED <<runQueue, continuation>>
        /\ MaybeToggleThreadTimer(TRUE)
     \/ /\ caller = "interrupt" /\ ~Idle
        /\ IF continuation[Current]
           THEN /\ continuation' = [continuation EXCEPT ![Current] = FALSE]
                /\ kstep' = "resume"
                /\ UNCHANGED runQueue
           ELSE IF executionState[Current] # "RUNNING-WITHOUT-PREEMPTION"
                THEN YieldThread(Current)
                ELSE kstep' = "resume" /\ UNCHANGED <<runQueue, continuation>>
        /\ caller' = "none"
        /\ UNCHANGED clockVars
  /\ UNCHANGED <<eventVars, relationVars, frameVars, pc, anyEvents>>

\* register-time-event: the list is ordered by time, equal times by arrival.
AddTimerRecord(record) ==
  \E i \in 1 .. Len(timerRecords) + 1 :
    /\ \A j \in 1 .. i - 1 : timerRecords[j].time <= record.time
    /\ i <= Len(timerRecords) => record.time < timerRecords[i].time
    /\ timerRecords' = InsertBefore(timerRecords, i, record)

RegisterTimerEvent(t, delay, event) ==
  /\ Calls(t, "timer")
  /\ Len(timerRecords) < MaxTimers
  /\ AddTimerRecord([time |-> delay, thread |-> t, event |-> event])
  /\ UNCHANGED <<threadVars, timerInterval>>
  /\ MaybeToggleThreadTimer(TRUE)
  /\ UNCHANGED <<eventVars, relationVars, frameVars, controlVars>>

\* deregister-timer-event, with a registration that t made.
DeregisterTimerEvent(t, i) ==
  /\ Calls(t, "timer")
  /\ timerRecords[i].thread = t
  /\ timerRecords' = DropAt(timerRecords, i)
  /\ UNCHANGED <<threadVars, timerInterval>>
  /\ MaybeToggleThreadTimer(TRUE)
  /\ UNCHANGED <<eventVars, relationVars, frameVars, controlVars>>

SetThreadTimerInterval(t, interval) ==
  /\ Calls(t, "interval")
  /\ timerInterval' = interval
  /\ UNCHANGED <<threadVars, timerRecords>>
  /\ MaybeToggleThreadTimer(TRUE)
  /\ UNCHANGED <<eventVars, relationVars, frameVars, controlVars>>

\* sleep-current-thread: block events, register the alarm, suspend until the
\* alarm has run, unblock events.
SleepCurrentThread(t) ==
  /\ Calls(t, "sleep")
  /\ saved' = [saved EXCEPT ![t] = blockEvents[t]]
  /\ blockEvents' = [blockEvents EXCEPT ![t] = "#t"]
  /\ delivered' = [delivered EXCEPT ![t] = FALSE]
  /\ pc' = [pc EXCEPT ![t] = "sleep-register"]
  /\ UNCHANGED <<threadVars, pendingEvents, relationVars, counted, timerVars, kstep,
                 handleVars>>

SleepRegister(t, delay) ==
  /\ At(t, "sleep-register")
  /\ AddTimerRecord([time |-> delay, thread |-> t, event |-> "alarm"])
  /\ pc' = [pc EXCEPT ![t] = "sleep-loop"]
  /\ UNCHANGED <<threadVars, timerInterval>>
  /\ MaybeToggleThreadTimer(TRUE)
  /\ UNCHANGED <<eventVars, relationVars, frameVars, kstep, handleVars>>

SleepSuspend(t) ==
  At(t, "sleep-loop") /\ ~delivered[t] /\ Suspend(t, "sleep-loop")

SleepReturn(t) ==
  /\ At(t, "sleep-loop") /\ delivered[t]
  /\ ReturnFromBlocked(t)
  /\ UNCHANGED <<threadVars, eventVars, relationVars, timerVars, kstep, handleVars>>
------------------------------------------------------------------------------
(* Mutexes.                                                                  *)

\* lock-thread-mutex and try-lock-thread-mutex of a free mutex.
LockThreadMutex(t, m) ==
  /\ Calls(t, "lock")
  /\ owner[m] = None
  /\ owner' = [owner EXCEPT ![m] = t]
  /\ mutexes' = [mutexes EXCEPT ![t] = <<m>> \o @]
  /\ UNCHANGED <<threadVars, eventVars, joinVars, waitingThreads, wants, releaseVars,
                 frameVars, timerVars, controlVars>>

\* lock-thread-mutex of a mutex that another thread owns.
EnqueueForMutex(t, m) ==
  /\ Calls(t, "lock")
  /\ owner[m] \notin {None, t}
  /\ mutexes' = [mutexes EXCEPT ![t] = <<m>> \o @]
  /\ waitingThreads' = [waitingThreads EXCEPT ![m] = Append(@, t)]
  /\ wants' = [wants EXCEPT ![t] = m]
  /\ kstep' = "lock"
  /\ pc' = [pc EXCEPT ![t] = "lock"]
  /\ UNCHANGED <<threadVars, eventVars, joinVars, owner, releaseVars, frameVars,
                 timerVars, handleVars>>

\* The loop of %lock-thread-mutex: suspend until the mutex is handed over.
LockSuspend ==
  kstep = "lock" /\ owner[wants[Current]] # Current /\ Suspend(Current, "lock")

LockReturn ==
  /\ kstep = "lock" /\ owner[wants[Current]] = Current
  /\ kstep' = "none"
  /\ pc' = [pc EXCEPT ![Current] = "user"]
  /\ wants' = [wants EXCEPT ![Current] = None]
  /\ UNCHANGED <<threadVars, eventVars, joinVars, mutexes, owner, waitingThreads,
                 releaseVars, frameVars, timerVars, handleVars>>

\* Mutant of HandOver: the mutex is freed and the first waiting thread only woken.
FreeAndWake(m) ==
  /\ owner' = [owner EXCEPT ![m] = None]
  /\ IF waitingThreads[m] = <<>>
     THEN UNCHANGED <<executionState, runQueue, pendingEvents, waitingThreads>>
     ELSE /\ waitingThreads' = [waitingThreads EXCEPT ![m] = Tail(@)]
          /\ SignalThread(Head(waitingThreads[m]), "#f")

\* Mutant of HandOver: the new owner is not woken.
HandOverSilently(m) ==
  /\ owner' = [owner EXCEPT ![m] = IF waitingThreads[m] = <<>> THEN None
                                   ELSE Head(waitingThreads[m])]
  /\ waitingThreads' = [waitingThreads EXCEPT ![m] = IF @ = <<>> THEN @ ELSE Tail(@)]
  /\ UNCHANGED <<executionState, runQueue, pendingEvents>>

\* %%unlock-thread-mutex: the first waiting thread becomes the owner and is
\* woken; owner, waitingThreads, executionState, runQueue and pendingEvents.
HandOver(m) ==
  IF waitingThreads[m] = <<>>
  THEN /\ owner' = [owner EXCEPT ![m] = None]
       /\ UNCHANGED <<executionState, runQueue, pendingEvents, waitingThreads>>
  ELSE /\ owner' = [owner EXCEPT ![m] = Head(waitingThreads[m])]
       /\ waitingThreads' = [waitingThreads EXCEPT ![m] = Tail(@)]
       /\ SignalThread(Head(waitingThreads[m]), "#f")

UnlockThreadMutex(t, m) ==
  /\ Calls(t, "lock")
  /\ owner[m] = t
  /\ mutexes' = [mutexes EXCEPT ![t] = Without(@, m)]
  /\ UNCHANGED recordVars
  /\ HandOver(m)
  /\ IF waitingThreads[m] # <<>> THEN MaybeToggleThreadTimer(TRUE)
                                 ELSE UNCHANGED clockVars
  /\ UNCHANGED <<continuation, blockEvents, joinVars, wants, releaseVars, frameVars,
                 controlVars>>
------------------------------------------------------------------------------
(* Exit, join and detach.                                                    *)

\* exit-current-thread.  The after thunks that translate-to-state-point runs for the
\* exiting thread (thread.scm:472) are code of its dynamic-winds and not modelled.
ExitCurrentThread(t) ==
  /\ Calls(t, "exit")
  /\ BeginExit(t)
  /\ UNCHANGED <<threadVars, relationVars, frameVars, timerVars, pc>>

DeregisterAllEvents(t) ==
  /\ Calls(t, "deregister")
  /\ pendingEvents' = [pendingEvents EXCEPT ![t] = <<>>]
  /\ kstep' = "discard-timers"
  /\ caller' = "deregister"
  /\ UNCHANGED <<threadVars, blockEvents, relationVars, frameVars, timerVars, pc,
                 anyEvents>>

\* %discard-thread-timer-records, one record of the current thread at a time.
DiscardTimerRecord ==
  /\ kstep = "discard-timers"
  /\ \E i \in DOMAIN timerRecords :
       /\ timerRecords[i].thread = Current
       /\ \A j \in 1 .. i - 1 : timerRecords[j].thread # Current
       /\ timerRecords' = DropAt(timerRecords, i)
  /\ UNCHANGED <<threadVars, eventVars, relationVars, frameVars, clockVars,
                 timerInterval, controlVars>>

DiscardReturn ==
  /\ kstep = "discard-timers"
  /\ \A i \in DOMAIN timerRecords : timerRecords[i].thread # Current
  /\ UNCHANGED <<threadVars, recordVars>>
  /\ IF caller = "deregister"
     THEN kstep' = "none" /\ FrameGone /\ MaybeToggleThreadTimer(TRUE)
     ELSE kstep' = "exit-joins" /\ UNCHANGED <<handleVars, clockVars>>
  /\ UNCHANGED <<eventVars, relationVars, frameVars, pc>>

\* %disassociate-joined-threads, one joined-to thread at a time.
ExitJoins ==
  LET t == Current
  IN  /\ kstep = "exit-joins"
      /\ IF joinedTo[t] # <<>>
         THEN /\ joinedThreads' = [joinedThreads EXCEPT ![Head(joinedTo[t])] =
                                     WithoutAll(@, t)]
              /\ joinedTo' = [joinedTo EXCEPT ![t] = Tail(@)]
              /\ UNCHANGED kstep
         ELSE /\ kstep' = "exit-mutexes"
              /\ UNCHANGED <<joinedThreads, joinedTo>>
      /\ UNCHANGED <<threadVars, eventVars, exitValue, mutexVars, releaseVars,
                     frameVars, timerVars, pc, handleVars>>

\* %disassociate-thread-mutexes, one mutex at a time: an owned mutex is handed
\* over, a wait is given up.
ExitMutex ==
  LET t == Current
      m == Head(mutexes[t])
  IN  /\ kstep = "exit-mutexes" /\ mutexes[t] # <<>>
      /\ mutexes' = [mutexes EXCEPT ![t] = Tail(@)]
      /\ IF owner[m] = t
         THEN HandOver(m)
         ELSE /\ waitingThreads' = [waitingThreads EXCEPT ![m] = Without(@, t)]
              /\ UNCHANGED <<executionState, runQueue, pendingEvents, owner>>
      /\ UNCHANGED <<continuation, blockEvents, joinVars, wants, releaseVars, frameVars,
                     timerVars, controlVars>>

\* release-joined-threads of thread u: set the exit value, take the list.
BeginRelease(u, value) ==
  /\ exitValue' = [exitValue EXCEPT ![u] = value]
  /\ toRelease' = joinedThreads[u]
  /\ releasing' = u
  /\ kstep' = "release"

ExitMutexesDone ==
  LET t == Current
  IN  /\ kstep = "exit-mutexes" /\ mutexes[t] = <<>>
      /\ IF exitValue[t] = "none"
         THEN BeginRelease(t, "value")
         ELSE kstep' = "exit" /\ UNCHANGED <<exitValue, releaseVars>>
      /\ UNCHANGED <<threadVars, eventVars, joinedThreads, joinedTo, mutexVars,
                     frameVars, timerVars, pc, handleVars>>

\* One iteration of release-joined-threads.
ReleaseOne ==
  LET u == Head(toRelease)
  IN  /\ kstep = "release" /\ toRelease # <<>>
      /\ joinedTo' = [joinedTo EXCEPT ![u] = WithoutAll(@, releasing)]
      /\ SignalThread(u, "join")
      /\ toRelease' = Tail(toRelease)
      /\ UNCHANGED <<continuation, blockEvents, joinedThreads, exitValue, mutexVars,
                     releasing, frameVars, timerVars, controlVars>>

ReleaseReturn ==
  /\ kstep = "release" /\ toRelease = <<>>
  /\ kstep' = IF caller = "exit" THEN "exit" ELSE "none"
  /\ releasing' = FirstThread /\ FrameGone
  /\ UNCHANGED <<threadVars, recordVars>>
  /\ MaybeToggleThreadTimer(TRUE)
  /\ UNCHANGED <<eventVars, joinVars, mutexVars, toRelease, frameVars, pc>>

\* The last step of exit-current-thread; the stack of the thread is gone.
ExitDead ==
  LET t == Current
  IN  /\ kstep = "exit"
      /\ UNCHANGED recordVars
      /\ ThreadNotRunning(t, "DEAD", FALSE)
      /\ pc' = [pc EXCEPT ![t] = "user"]
      /\ wants' = [wants EXCEPT ![t] = None]
      /\ saved' = [saved EXCEPT ![t] = "#f"]
      /\ counted' = [counted EXCEPT ![t] = NothingCounted]
      /\ delivered' = [delivered EXCEPT ![t] = FALSE]
      /\ FrameGone
      /\ UNCHANGED <<eventVars, joinVars, mutexes, owner, waitingThreads, releaseVars>>

\* join-thread of a thread that has not exited; it may be joined again.
JoinThread(t, u) ==
  /\ Calls(t, "join")
  /\ u # t /\ executionState[u] # "UNBORN"
  /\ exitValue[u] = "none" /\ Len(joinedThreads[u]) < MaxJoins
  /\ joinedThreads' = [joinedThreads EXCEPT ![u] = <<t>> \o @]
  /\ joinedTo' = [joinedTo EXCEPT ![t] = <<u>> \o @]
  /\ UNCHANGED <<threadVars, eventVars, exitValue, mutexVars, releaseVars, frameVars,
                 timerVars, controlVars>>

\* join-thread of a thread that has exited: signal-thread-event of t to itself,
\* here with interrupts disabled throughout.
JoinExitedThread(t, u) ==
  /\ Calls(t, "join")
  /\ u # t /\ exitValue[u] = "value"
  /\ Len(pendingEvents[t]) < MaxPending
  /\ pendingEvents' = [pendingEvents EXCEPT ![t] = AddPendingEvent(@, "join")]
  /\ blockEvents' = [blockEvents EXCEPT ![t] = "#t"]
  /\ IF blockEvents[t] = "#f"
     THEN kstep' = "handle" /\ caller' = "unblock" /\ anyEvents' = FALSE
     ELSE UNCHANGED <<kstep, handleVars>>
  /\ UNCHANGED <<threadVars, relationVars, frameVars, timerVars, pc>>

DetachThread(t, u) ==
  /\ Calls(t, "detach")
  /\ executionState[u] # "UNBORN" /\ exitValue[u] # "detached"
  /\ BeginRelease(u, "detached")
  /\ caller' = "detach"
  /\ UNCHANGED <<threadVars, eventVars, joinedThreads, joinedTo, mutexVars, frameVars,
                 timerVars, pc, anyEvents>>
------------------------------------------------------------------------------
\* The steps of the thread system that run to completion without the threads.
KernelStep ==
  \/ ResumeCurrentThread \/ HandleOneEvent \/ HandleReturn
  \/ DeliverOneRecord \/ DeliverReturn
  \/ LockSuspend \/ LockReturn
  \/ DiscardTimerRecord \/ DiscardReturn
  \/ ExitJoins \/ ExitMutex \/ ExitMutexesDone
  \/ ReleaseOne \/ ReleaseReturn \/ ExitDead

\* Thread t goes on inside a procedure of the thread system.
ThreadStep(t) ==
  \/ CreateThreadReturn(t)
  \/ SignalSelfAdd(t)
  \/ At(t, "unblock") /\ UnblockThreadEvents(t)
  \/ \E delay \in Delays : SleepRegister(t, delay)
  \/ SleepSuspend(t) \/ SleepReturn(t)

\* The code of thread t calls a procedure of the thread system.
UserCall(t) ==
  \/ YieldCurrentThread(t)
  \/ \E state \in RunningStates : SetPreemption(t, state)
  \/ StopCurrentThread(t)
  \/ SuspendCurrentThread(t)
  \/ \E event \in Events : SignalSelf(t, event)
  \/ Calls(t, "block") /\ UnblockThreadEvents(t)
  \/ \E block \in {"#f", "#t"} : SetThreadEventBlock(t, block)
  \/ HandleCurrentThreadEvents(t)
  \/ AllowThreadEventDelivery(t)
  \/ \E delay \in Delays, event \in Events : RegisterTimerEvent(t, delay, event)
  \/ \E i \in DOMAIN timerRecords : DeregisterTimerEvent(t, i)
  \/ \E interval \in Intervals : SetThreadTimerInterval(t, interval)
  \/ SleepCurrentThread(t)
  \/ \E m \in Mutex : LockThreadMutex(t, m) \/ EnqueueForMutex(t, m)
                      \/ UnlockThreadMutex(t, m)
  \/ ExitCurrentThread(t)
  \/ DeregisterAllEvents(t)
  \/ \E u \in Thread :
       \/ CreateThread(t, u)
       \/ \E event \in Events : SignalThreadEvent(t, u, event)
       \/ \E discard \in BOOLEAN, event \in Events :
            RestartThread(t, u, discard, event)
       \/ JoinThread(t, u) \/ JoinExitedThread(t, u)
       \/ DetachThread(t, u)

Next ==
  \/ KernelStep
  \/ TimerInterrupt
  \/ Tick
  \/ \E t \in Thread : ThreadStep(t) \/ UserCall(t)
  \/ \E u \in Thread, event \in Events : SignalWhileIdle(u, event)

Spec == Init /\ [][Next]_vars

\* An uninterruptible step is carried on with.  Time passes, whatever the threads
\* do: they cannot take infinitely many steps between two ticks.  A pending timer
\* interrupt is taken at one of the interruptible points that the processor keeps
\* reaching (set-interrupt-enables! and every procedure entry poll for it), and a
\* thread that gets the processor again and again inside a procedure of the
\* thread system gets on, since a time slice is longer than an instruction.
\* Nothing makes a thread call a procedure.
Fairness ==
  /\ WF_vars(KernelStep)
  /\ SF_vars(Tick)
  /\ SF_vars(TimerInterrupt)
  /\ \A t \in Thread : SF_vars(ThreadStep(t))

FairSpec == Spec /\ Fairness
------------------------------------------------------------------------------
(* Properties.                                                               *)

\* Every variable holds a value of its type.  The real timer is never set to a
\* non-positive value, also when a record is due already (%maybe-toggle-thread-timer).
TypeOK ==
  /\ executionState \in [Thread -> States]
  /\ runQueue \in Seq(Thread)
  /\ continuation \in [Thread -> BOOLEAN]
  /\ kstep \in KSteps
  /\ pc \in [Thread -> PCs]
  /\ blockEvents \in [Thread -> Blocks]
  /\ pendingEvents \in [Thread -> Seq(Event)]
  /\ joinedThreads \in [Thread -> Seq(Thread)]
  /\ joinedTo \in [Thread -> Seq(Thread)]
  /\ exitValue \in [Thread -> {"none", "value", "detached"}]
  /\ mutexes \in [Thread -> Seq(Mutex)]
  /\ owner \in [Mutex -> Thread \cup {None}]
  /\ waitingThreads \in [Mutex -> Seq(Thread)]
  /\ wants \in [Thread -> Mutex \cup {None}]
  /\ saved \in [Thread -> Blocks]
  /\ counted \in [Thread -> Counted]
  /\ delivered \in [Thread -> BOOLEAN]
  /\ timerRecords \in Seq(TimerRecord)
  /\ timerInterval \in Nat
  /\ hwTimer \in (Nat \ {0}) \cup {Off}
  /\ timerBit \in BOOLEAN
  /\ nextScheduledTimeout \in BOOLEAN
  /\ caller \in Callers
  /\ anyEvents \in BOOLEAN
  /\ toRelease \in Seq(Thread)
  /\ releasing \in Thread

\* The run queue holds every thread whose execution state is a running one, and
\* holds it once: %thread-running and thread-not-running are called so that no
\* thread is lost from the chain of thread/next, or linked into it twice.
RunQueueInv ==
  /\ \A i, j \in DOMAIN runQueue : runQueue[i] = runQueue[j] => i = j
  /\ Elements(runQueue) = {t \in Thread : executionState[t] \in RunningStates}

\* The uninterruptible steps, except the timer interrupt while the system idles,
\* are steps of a current thread.
KernelHasThread ==
  Idle => kstep = "none" \/ (kstep = "deliver" /\ caller = "interrupt")

\* Exactly the threads that wait to go on have a continuation to go on with:
\* run-thread never finds thread/continuation #f, and the current thread, which
\* goes on by itself, has none left over from an earlier switch.
ContinuationInv ==
  /\ KernelHasThread
  /\ \A t \in Thread : executionState[t] \in {"WAITING", "STOPPED"} => continuation[t]
  /\ \A i \in DOMAIN runQueue : i > 1 => continuation[runQueue[i]]
  /\ kstep # "deliver" /\ ~Idle => ~continuation[Current]
  /\ kstep = "deliver" /\ caller = "allow" => ~continuation[Current]

\* No wakeup is lost: a thread that waits has no event it would have to handle,
\* can be woken by an event, and was not handed the mutex it waits for.
NoLostWakeup ==
  \A t \in Thread : executionState[t] = "WAITING" =>
    /\ pendingEvents[t] = <<>>
    /\ blockEvents[t] # "#t"
    /\ pc[t] = "lock" => owner[wants[t]] # t

\* A free mutex has no waiting threads; a thread has a mutex on its list exactly
\* when it owns it or waits for it (exit-current-thread relies on the list to
\* give up both), waits at most once, and waits only inside lock-thread-mutex.
MutexInv ==
  \A m \in Mutex :
    LET waiting == waitingThreads[m]
    IN  /\ owner[m] = None => waiting = <<>>
        /\ owner[m] \notin Elements(waiting)
        /\ \A i, j \in DOMAIN waiting : waiting[i] = waiting[j] => i = j
        /\ \A i \in DOMAIN waiting : pc[waiting[i]] = "lock" /\ wants[waiting[i]] = m
        /\ \A t \in Thread : m \in Elements(mutexes[t])
                               <=> owner[m] = t \/ t \in Elements(waiting)

\* The current thread is inside exit-current-thread.
Exiting == \/ kstep \in {"exit-joins", "exit-mutexes", "exit"}
           \/ kstep \in {"discard-timers", "release"} /\ caller = "exit"

\* A dead thread is forgotten: nobody waits for it to release a mutex, no timer
\* record or waiting ring mentions it, and no thread that can still exit will
\* signal it.  (detach-thread of a thread that has exited does signal again the
\* threads that had joined it, dead ones included.)
DeadIsForgotten ==
  \A t \in Thread : executionState[t] = "DEAD" =>
    /\ mutexes[t] = <<>> /\ joinedTo[t] = <<>>
    /\ \A m \in Mutex : owner[m] # t /\ t \notin Elements(waitingThreads[m])
    /\ \A i \in DOMAIN timerRecords : timerRecords[i].thread # t
    /\ \A u \in Thread : exitValue[u] = "none" => t \notin Elements(joinedThreads[u])

\* joined-to and joined-threads agree on who waits for whose exit, as long as the
\* exit can still come, however often a thread has joined another (an exiting thread
\* that takes its joins back takes all those of one thread back at once, and
\* release-joined-threads takes one end off in its loop when the other is not needed
\* any more).
JoinSymmetry ==
  kstep # "release" =>
    \A t, u \in Thread :
      /\ exitValue[u] = "none" /\ t \in Elements(joinedThreads[u]) => u \in Elements(joinedTo[t])
      /\ u \in Elements(joinedTo[t]) =>
           /\ exitValue[u] = "none"
           /\ t \in Elements(joinedThreads[u]) \/ (kstep = "exit-joins" /\ t = Current)

\* Whatever the order of join, detach and exit, also while the clean-up loops of
\* exit-current-thread run, both ends of a join agree and nothing refers to a thread
\* that has exited.
ExitInv == JoinSymmetry /\ DeadIsForgotten

\* The comment of %add-pending-event: pending-events is empty, or one #f event,
\* or any number of non-#f events.
ThreeStates ==
  \A t \in Thread : RingState(pendingEvents[t]) = "other" =>
                      "#f" \notin Elements(pendingEvents[t])

\* A thread in the loop of sleep-current-thread has its alarm run, pending or in
\* the timer records: however it is woken, it does not suspend for ever.
SleeperHasAlarm ==
  \A t \in Thread :
    /\ pc[t] = "sleep-loop" /\ ~delivered[t]
    /\ ~(Exiting /\ t = Current)
    => \/ "alarm" \in Elements(pendingEvents[t])
       \/ \E i \in DOMAIN timerRecords :
            timerRecords[i].thread = t /\ timerRecords[i].event = "alarm"

\* While a thread runs and another one is ready, the timer will end its turn
\* within timer-interval, whatever procedures led here.
PreemptionArmed ==
  /\ kstep = "none" /\ Len(runQueue) > 1 /\ timerInterval # 0
  /\ pc[Current] # "created"
  => timerBit \/ hwTimer \in 1 .. timerInterval

\* No timer record is overslept: an interrupt is due by its time, whichever record
\* is first in the list and whatever started or stopped the timer since.
AlarmArmed ==
  kstep = "none" =>
    \A i \in DOMAIN timerRecords : timerBit \/ hwTimer \in 1 .. timerRecords[i].time

\* Whatever procedures led to an interruptible point, the one hardware timer serves
\* both its uses: the turn of the running thread ends, and no record is overslept
\* (%maybe-toggle-thread-timer).
TimerArmed == PreemptionArmed /\ AlarmArmed

Fifo == INSTANCE FifoLock WITH queue <- waitingThreads

\* The mutexes implement FifoLock: the mutex passes to the thread that has waited
\* longest (ring/dequeue in %%unlock-thread-mutex), never to another one that happens
\* to run first, and only the exit of a thread takes it out of its turn.
FifoSpec == Fifo!Spec

\* Death is final: a late event (detach-thread, a timer) revives nobody.
DeadStaysDead ==
  [][\A t \in Thread : executionState[t] = "DEAD" => executionState'[t] = "DEAD"]_vars

\* While a thread has its events blocked none of them is run: handle-thread-events
\* takes one only when block-events? is #f or suspended, or to unblock them.
BlockedEventsWait ==
  [][\A t \in Thread : Len(pendingEvents'[t]) < Len(pendingEvents[t]) =>
       \/ blockEvents[t] # "#t"
       \/ caller = "unblock"
       \/ caller' \in {"exit", "deregister"}
       \/ executionState[t] = "STOPPED"]_vars

\* A ready thread gets the processor, with preemption on and no thread that
\* refuses it.
ReadyRuns ==
  \A t \in Thread : executionState[t] = "RUNNING" ~>
    (~Idle /\ t = Current) \/ executionState[t] # "RUNNING"

\* sleep-current-thread returns (or its thread exits).
SleepEnds ==
  \A t \in Thread : pc[t] = "sleep-loop" ~>
    pc[t] # "sleep-loop" \/ executionState[t] \in {"DEAD", "STOPPED"}
==============================================================================
