----------------------------- MODULE Suspension -----------------------------
(***************************************************************************)
(* What the synchronisers built on runtime/thread.scm see of it: a thread  *)
(* suspends itself until it has a pending event, anyone may signal it, and *)
(* a mutex is handed over in the order of its ring.                        *)
(*                                                                         *)
(* The clients keep thread events blocked (or run without interrupts)      *)
(* while they count on a signal, so a pending #f event is used up only by  *)
(* suspend-current-thread and, elsewhere, by Consume.  Module Threads has  *)
(* the scheduler itself; here any thread may take the next step, as timer  *)
(* interrupts allow.                                                       *)
(***************************************************************************)
EXTENDS Integers, Sequences, FiniteSets

CONSTANTS Thread, Mutex, NoThread

ASSUME ThreadsAssumption == IsFiniteSet(Thread) /\ NoThread \notin Thread

VARIABLES
  pc,        \* thread -> where it is
  locking,   \* thread -> the mutex it is locking and where it goes then
  pending,   \* the threads whose ring holds a #f event
  owner,     \* mutex -> thread-mutex/owner
  ring       \* mutex -> thread-mutex/waiting-threads

suspensionVars == <<pc, locking, pending, owner, ring>>

NoLock == [mutex |-> CHOOSE m \in Mutex : TRUE, then |-> "none"]

SuspensionInit(start) ==
  /\ pc = [t \in Thread |-> start]
  /\ locking = [t \in Thread |-> NoLock]
  /\ pending = {}
  /\ owner = [m \in Mutex |-> NoThread]
  /\ ring = [m \in Mutex |-> <<>>]

Jump(t, there) == pc' = [pc EXCEPT ![t] = there]

\* lock-thread-mutex, and then on to `then`.  A thread that must wait suspends
\* itself without interrupts, which uses up an event it had before.
lock_thread_mutex(t, m, then) ==
  IF owner[m] = NoThread
  THEN /\ owner' = [owner EXCEPT ![m] = t]
       /\ Jump(t, then)
       /\ UNCHANGED <<locking, ring, pending>>
  ELSE /\ ring' = [ring EXCEPT ![m] = Append(@, t)]
       /\ locking' = [locking EXCEPT ![t] = [mutex |-> m, then |-> then]]
       /\ Jump(t, "lock")
       /\ pending' = pending \ {t}
       /\ UNCHANGED owner

\* The loop of %lock-thread-mutex: an event resumes the thread, which suspends
\* itself again if the mutex is not its own.
LockWait(t) ==
  /\ pc[t] = "lock" /\ t \in pending
  /\ pending' = pending \ {t}
  /\ IF owner[locking[t].mutex] = t
     THEN Jump(t, locking[t].then) /\ locking' = [locking EXCEPT ![t] = NoLock]
     ELSE UNCHANGED <<pc, locking>>
  /\ UNCHANGED <<owner, ring>>

\* Mutant: the new owner is not signalled.
unlock_thread_mutex_quietly(t, m, then) ==
  /\ owner[m] = t
  /\ owner' = [owner EXCEPT ![m] = IF ring[m] = <<>> THEN NoThread ELSE Head(ring[m])]
  /\ ring' = [ring EXCEPT ![m] = IF @ = <<>> THEN @ ELSE Tail(@)]
  /\ Jump(t, then)
  /\ UNCHANGED <<locking, pending>>

\* unlock-thread-mutex: the next thread of the ring owns the mutex at once.
unlock_thread_mutex(t, m, then) ==
  /\ owner[m] = t
  /\ IF ring[m] = <<>>
     THEN owner' = [owner EXCEPT ![m] = NoThread] /\ UNCHANGED <<ring, pending>>
     ELSE /\ owner' = [owner EXCEPT ![m] = Head(ring[m])]
          /\ ring' = [ring EXCEPT ![m] = Tail(@)]
          /\ pending' = pending \cup {Head(ring[m])}
  /\ Jump(t, then)
  /\ UNCHANGED locking

\* suspend-current-thread: returns at once, or later, when an event is pending.
suspend_current_thread(t, then) ==
  /\ t \in pending
  /\ pending' = pending \ {t}
  /\ Jump(t, then)
  /\ UNCHANGED <<locking, owner, ring>>

\* A thread whose events are not blocked handles them when it is resumed.
Consume(t) ==
  /\ t \in pending
  /\ pending' = pending \ {t}
  /\ UNCHANGED <<pc, locking, owner, ring>>
=============================================================================
