------------------------------- MODULE CondVar -------------------------------
(***************************************************************************)
(* runtime/condvar.scm.  A waiter is named by its thread, which has one at *)
(* a time; the doubly linked list of waiters is a sequence, since it is    *)
(* relinked without interruption and under the lock of the condition       *)
(* variable.  What runs between two calls is left to the modules that use  *)
(* this one: they jump to the first label of a call with the label to go   *)
(* on at in ret.                                                           *)
(***************************************************************************)
EXTENDS Suspension, SequencesExt

ASSUME CondVarAssumption == {"condvar", "mutex"} \subseteq Mutex

VARIABLES
  waiters,   \* the threads between waiter-head and waiter-tail
  done,      \* the threads whose waiter is done?
  timed,     \* the threads that wait with a timeout
  expired,   \* those whose timeout has come
  timedOut,  \* the threads whose last wait returned #f
  ret        \* thread -> where it goes on after the call

condVars == <<waiters, done, timed, expired, timedOut, ret>>
vars == <<suspensionVars, condVars>>

Labels == {"wait", "enqueue", "enqueued", "release", "loop", "suspend", "clean", "cleanup",
           "cleaned", "relock", "signal", "signal-at", "mark", "remove", "signalled",
           "broadcast", "broadcast-at", "mark-all", "remove-all", "lock"}
Signalling == {"signal-at", "mark", "remove", "broadcast-at", "mark-all", "remove-all"}

CondVarInit(start) ==
  /\ SuspensionInit(start)
  /\ waiters = <<>> /\ done = {} /\ timed = {} /\ expired = {} /\ timedOut = {}
  /\ ret = [t \in Thread |-> start]

\* Call an operation at its first label, to return to `back`.
Call(t, label, back) ==
  /\ Jump(t, label)
  /\ ret' = [ret EXCEPT ![t] = back]
  /\ UNCHANGED <<locking, pending, owner, ring>>

Goto(t, label) == Jump(t, label) /\ UNCHANGED <<locking, pending, owner, ring>>

-----------------------------------------------------------------------------
(* %condition-variable-wait!/unlock and condition-variable-wait!.  Thread   *)
(* events are blocked from "wait" to "cleaned".                             *)

WaitLock(t) ==
  /\ pc[t] = "wait"
  /\ lock_thread_mutex(t, "condvar", "enqueue")
  /\ UNCHANGED condVars

enqueue_waiter(t) ==
  /\ pc[t] = "enqueue"
  /\ waiters' = Append(waiters, t)
  /\ done' = done \ {t}
  /\ timedOut' = timedOut \ {t}
  /\ Goto(t, "enqueued")
  /\ UNCHANGED <<timed, expired, ret>>

Enqueued(t) ==
  /\ pc[t] = "enqueued"
  /\ unlock_thread_mutex(t, "condvar", "release")
  /\ UNCHANGED condVars

Release(t) ==
  /\ pc[t] = "release"
  /\ unlock_thread_mutex(t, "mutex", "loop")
  /\ UNCHANGED condVars

\* (<= (real-time-clock) timeout): the clock has not passed the timeout.
BeforeTimeout(t) == t \in timed /\ t \notin expired

WaitLoop(t) ==
  /\ pc[t] = "loop"
  /\ Goto(t, IF BeforeTimeout(t) \/ t \in done THEN "clean" ELSE "suspend")
  /\ timedOut' = IF BeforeTimeout(t) THEN timedOut \cup {t} ELSE timedOut
  /\ UNCHANGED <<waiters, done, timed, expired, ret>>

\* An event that leaves the wait by an escape, or ends the thread, from inside
\* suspend-current-thread is not modelled; condvar.scm:101 is not under the
\* dynamic-wind, so such a waiter would stay linked.
WaitSuspend(t) ==
  /\ pc[t] = "suspend"
  /\ suspend_current_thread(t, "loop")
  /\ UNCHANGED condVars

\* Mutant: the waiter leaves without the lock.
CleanUnlocked(t) ==
  /\ pc[t] = "clean"
  /\ Goto(t, "cleanup")
  /\ UNCHANGED condVars

Clean(t) ==
  /\ pc[t] = "clean"
  /\ lock_thread_mutex(t, "condvar", "cleanup")
  /\ UNCHANGED condVars

\* Mutant: a waiter that leaves undone stays linked.
CleanupNothing(t) ==
  /\ pc[t] = "cleanup"
  /\ Goto(t, "cleaned")
  /\ UNCHANGED condVars

Cleanup(t) ==
  /\ pc[t] = "cleanup"
  /\ \/ t \notin ToSet(waiters) /\ UNCHANGED waiters
     \/ \E i \in DOMAIN waiters : waiters[i] = t /\ waiters' = RemoveAt(waiters, i)
  /\ Goto(t, "cleaned")
  /\ UNCHANGED <<done, timed, expired, timedOut, ret>>

Cleaned(t) ==
  /\ pc[t] = "cleaned"
  /\ unlock_thread_mutex(t, "condvar", "relock")
  /\ UNCHANGED condVars

Relock(t) ==
  /\ pc[t] = "relock"
  /\ lock_thread_mutex(t, "mutex", ret[t])
  /\ UNCHANGED condVars

-----------------------------------------------------------------------------
(* condition-variable-signal! and condition-variable-broadcast!.            *)

SignalLock(t) ==
  /\ pc[t] \in {"signal", "broadcast"}
  /\ lock_thread_mutex(t, "condvar", IF pc[t] = "signal" THEN "signal-at" ELSE "broadcast-at")
  /\ UNCHANGED condVars

\* The loop at the first waiter: there is none, or it is done already, ...
SignalSkip(t) ==
  /\ pc[t] \in {"signal-at", "broadcast-at"}
  /\ \/ waiters = <<>> /\ Goto(t, "signalled") /\ UNCHANGED waiters
     \/ /\ waiters # <<>> /\ Head(waiters) \in done
        /\ waiters' = Tail(waiters) /\ Goto(t, pc[t])
  /\ UNCHANGED <<done, timed, expired, timedOut, ret>>

\* ... or it is to be signalled.
SignalWaiter(t) ==
  /\ pc[t] \in {"signal-at", "broadcast-at"}
  /\ waiters # <<>> /\ Head(waiters) \notin done
  /\ pending' = pending \cup {Head(waiters)}
  /\ Jump(t, IF pc[t] = "signal-at" THEN "mark" ELSE "mark-all")
  /\ UNCHANGED <<locking, owner, ring, condVars>>

\* Mutant: a broadcast does not mark the waiters done.
MarkOne(t) ==
  /\ pc[t] \in {"mark", "mark-all"}
  /\ done' = IF pc[t] = "mark" THEN done \cup {Head(waiters)} ELSE done
  /\ Goto(t, IF pc[t] = "mark" THEN "remove" ELSE "remove-all")
  /\ UNCHANGED <<waiters, timed, expired, timedOut, ret>>

Mark(t) ==
  /\ pc[t] \in {"mark", "mark-all"}
  /\ done' = done \cup {Head(waiters)}
  /\ Goto(t, IF pc[t] = "mark" THEN "remove" ELSE "remove-all")
  /\ UNCHANGED <<waiters, timed, expired, timedOut, ret>>

RemoveWaiter(t) ==
  /\ pc[t] \in {"remove", "remove-all"}
  /\ waiters' = Tail(waiters)
  /\ Goto(t, IF pc[t] = "remove" THEN "signalled" ELSE "broadcast-at")
  /\ UNCHANGED <<done, timed, expired, timedOut, ret>>

\* An event of the signaller leaves the call: dynamic-wind unlocks.
Interrupt(t) ==
  /\ pc[t] \in Signalling
  /\ Goto(t, "signalled")
  /\ UNCHANGED condVars

Signalled(t) ==
  /\ pc[t] = "signalled"
  /\ unlock_thread_mutex(t, "condvar", ret[t])
  /\ UNCHANGED condVars

-----------------------------------------------------------------------------
CondVarLocked(t) == LockWait(t) /\ UNCHANGED condVars

\* The timer event of a wait with a timeout.
Expire(t) ==
  /\ t \in timed \ expired /\ pc[t] \in {"loop", "suspend", "clean"}
  /\ expired' = expired \cup {t}
  /\ pending' = pending \cup {t}
  /\ UNCHANGED <<pc, locking, owner, ring, waiters, done, timed, timedOut, ret>>

CondVarStep(t) ==
  \/ WaitLock(t) \/ enqueue_waiter(t) \/ Enqueued(t) \/ Release(t) \/ WaitLoop(t)
  \/ WaitSuspend(t) \/ Clean(t) \/ Cleanup(t) \/ Cleaned(t) \/ Relock(t)
  \/ SignalLock(t) \/ SignalSkip(t) \/ SignalWaiter(t) \/ Mark(t) \/ RemoveWaiter(t)
  \/ Signalled(t) \/ CondVarLocked(t)

-----------------------------------------------------------------------------
(* A client: threads that lock the mutex, wait, signal and broadcast, with  *)
(* the mutex or without.                                                    *)

LockClient(t) ==
  /\ pc[t] = "idle"
  /\ lock_thread_mutex(t, "mutex", "locked")
  /\ UNCHANGED condVars

UnlockClient(t) ==
  /\ pc[t] = "locked"
  /\ unlock_thread_mutex(t, "mutex", "idle")
  /\ UNCHANGED condVars

StartWait(t, timeout) ==
  /\ pc[t] = "locked"
  /\ timed' = IF timeout THEN timed \cup {t} ELSE timed \ {t}
  /\ expired' = expired \ {t}
  /\ Call(t, "wait", "locked")
  /\ UNCHANGED <<waiters, done, timedOut>>

StartSignal(t, how) ==
  /\ pc[t] \in {"idle", "locked"}
  /\ Call(t, how, pc[t])
  /\ UNCHANGED <<waiters, done, timed, expired, timedOut>>

Idle(t) == pc[t] = "idle" /\ Consume(t) /\ UNCHANGED condVars

Init == CondVarInit("idle")

CONSTANTS
  Waiting,     \* the threads that wait
  Timeouts     \* whether a wait has a timeout: a subset of BOOLEAN

Client(t) ==
  \/ LockClient(t)
  \/ t \in Waiting /\ \E timeout \in Timeouts : StartWait(t, timeout)
  \/ t \notin Waiting /\ \E how \in {"signal", "broadcast"} : StartSignal(t, how)

Next == \E t \in Thread :
          CondVarStep(t) \/ Interrupt(t) \/ Expire(t) \/ Client(t) \/ UnlockClient(t) \/ Idle(t)

\* Threads are scheduled in turn, the clock goes on, and a client gives the mutex up.
Fairness == \A t \in Thread : /\ WF_vars(CondVarStep(t)) /\ WF_vars(Expire(t))
                              /\ WF_vars(UnlockClient(t))
Spec == Init /\ [][Next]_vars /\ Fairness

-----------------------------------------------------------------------------
(* Properties. *)

\* The assertions of enqueue-waiter! and remove-waiter!: whoever works on the list
\* owns the lock, no waiter is linked twice, and the waiter that is marked or
\* removed is still linked.
AssertionsHold ==
  /\ \A t \in Thread :
       /\ pc[t] \in Signalling \cup {"enqueue", "cleanup"} => owner["condvar"] = t
       /\ pc[t] \in {"mark", "remove", "mark-all", "remove-all"} => waiters # <<>>
       /\ pc[t] = "enqueue" => t \notin ToSet(waiters)
  /\ \A i, j \in DOMAIN waiters : waiters[i] = waiters[j] => i = j

\* A waiter that waits and is not done is linked, also when a signaller is
\* interrupted: it can still be signalled.
WaiterCanBeSignalled ==
  \A t \in Thread : pc[t] \in {"release", "loop", "suspend"} /\ t \notin done =>
    t \in ToSet(waiters)

\* The linked waiters are those of threads that wait: none is left behind by a
\* thread that returned, to take a signal that others wait for.
OnlyWaitersLinked ==
  \A t \in ToSet(waiters) : pc[t] \in Labels /\ pc[t] # "relock"

\* The list of waiters, at every point at which a signaller or a waiter may be
\* interrupted: it is exactly the list of the threads that are still to be
\* signalled, and the assertions of condvar.scm hold.
WaitersInv == AssertionsHold /\ WaiterCanBeSignalled /\ OnlyWaitersLinked

\* Whoever locks the condition variable gets it: signallers and waiters that
\* leave never block each other, whatever events they are sent meanwhile.  (A thread
\* in lock-thread-mutex stays there until it has the mutex.)
LockIsHandedOver ==
  \A t \in Thread : []<>~(pc[t] = "lock" /\ locking[t].mutex = "condvar")
=============================================================================
