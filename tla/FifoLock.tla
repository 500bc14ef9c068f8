------------------------------ MODULE FifoLock ------------------------------
(***************************************************************************)
(* What the mutexes of thread.scm promise to the threads that use them,    *)
(* whatever the scheduler, the timer and the events do: a mutex has one    *)
(* owner at a time, the threads that found it taken get it in the order of *)
(* their arrival, a thread that comes later never overtakes them, and a    *)
(* thread leaves the queue before its turn only by exiting.                *)
(***************************************************************************)
EXTENDS Sequences, Integers

CONSTANTS Thread, Mutex, None

VARIABLES
  owner,  \* the thread that has the mutex, or None
  queue   \* the threads that wait for it, the first to arrive first

vars == <<owner, queue>>

Init ==
  /\ owner = [m \in Mutex |-> None]
  /\ queue = [m \in Mutex |-> <<>>]

\* A thread takes a mutex that is free.
Take(t, m) ==
  /\ owner[m] = None /\ queue[m] = <<>>
  /\ owner' = [owner EXCEPT ![m] = t]
  /\ UNCHANGED queue

\* A thread finds the mutex taken and waits.
Wait(t, m) ==
  /\ owner[m] \notin {None, t}
  /\ \A i \in DOMAIN queue[m] : queue[m][i] # t
  /\ queue' = [queue EXCEPT ![m] = Append(@, t)]
  /\ UNCHANGED owner

\* The owner gives the mutex to the first waiting thread, or frees it.
Release(m) ==
  /\ owner[m] # None
  /\ IF queue[m] = <<>>
     THEN owner' = [owner EXCEPT ![m] = None] /\ UNCHANGED queue
     ELSE /\ owner' = [owner EXCEPT ![m] = Head(queue[m])]
          /\ queue' = [queue EXCEPT ![m] = Tail(@)]

\* The thread at place i gives up waiting, because it exits.
GiveUp(m, i) ==
  /\ queue' = [queue EXCEPT ![m] = SubSeq(@, 1, i - 1) \o SubSeq(@, i + 1, Len(@))]
  /\ UNCHANGED owner

Next == \E m \in Mutex :
          \/ \E t \in Thread : Take(t, m) \/ Wait(t, m)
          \/ Release(m)
          \/ \E i \in DOMAIN queue[m] : GiveUp(m, i)

Spec == Init /\ [][Next]_vars
=============================================================================
