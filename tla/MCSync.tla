------------------------------- MODULE MCSync -------------------------------
(***************************************************************************)
(* Instances for TLC of the synchronisers above Suspension: the threads    *)
(* are clients of a condition variable, or they meet at a barrier, or they *)
(* use a thread queue.                                                     *)
(***************************************************************************)
EXTENDS ThreadBarrier, ThreadQueue

CONSTANTS t1, t2, t3, a, b, c, d, e

VARIABLE client   \* which of the three

queueOnly == <<queueVars, clientVars, historyVars>>
syncVars == <<allVars, queueOnly, client>>

-----------------------------------------------------------------------------
(* What three threads do with a queue. *)

Put(x) == [op |-> "queue!", item |-> x]
Try(x) == [op |-> "queue-no-hang!", item |-> x]
Push(x) == [op |-> "push!", item |-> x]
Do(name) == [op |-> name, item |-> a]
Take == Do("dequeue!")
TakeUntil == Do("dequeue-until!")

Workload(max, ends, p1, p2, p3) ==
  [program |-> [t \in Thread |-> CASE t = t1 -> p1 [] t = t2 -> p2 [] t = t3 -> p3],
   max |-> max, ends |-> ends]

\* No calls, when the threads do something else.
NoCalls == Workload(0, FALSE, <<>>, <<>>, <<>>)

MCWorkloads ==
  { NoCalls,
    \* A producer that fills the queue, and two consumers; one of them pushes first.
    Workload(1, TRUE, <<Put(a), Put(b), Put(c)>>, <<Take, Take>>, <<Push(d), Take>>),
    \* Calls with a time, which may or may not find an item; then calls without.
    Workload(2, TRUE, <<Put(a), Put(b), Put(c)>>, <<TakeUntil, Do("peek-until"), Take>>,
             <<Do("peek"), TakeUntil>>),
    \* No limit, and the other operations.
    Workload(0, FALSE, <<Put(a), Push(b), Try(c)>>, <<Take, Do("empty!")>>, <<Do("peek"), Take>>),
    Workload(2, FALSE, <<Put(a), Push(b), Try(c)>>, <<TakeUntil, Do("empty!"), Push(d)>>,
             <<Do("peek"), Push(e)>>) }

-----------------------------------------------------------------------------

SyncInit ==
  \/ client = "barrier" /\ BarrierInit /\ load = NoCalls /\ QueueEmpty
  \/ client = "condvar" /\ Init /\ BarrierUnused /\ load = NoCalls /\ QueueEmpty
  \/ client = "queue" /\ QueueInit /\ load # NoCalls /\ CondVarInit("next") /\ BarrierUnused

SyncNext ==
  \/ client = "barrier" /\ BarrierNext /\ UNCHANGED <<queueOnly, client>>
  \/ client = "condvar" /\ Next /\ UNCHANGED <<barrierVars, queueOnly, client>>
  \/ client = "queue" /\ QueueNext /\ UNCHANGED <<condVars, barrierVars, client>>

\* The threads are scheduled in turn whatever they do.
SyncSpec == SyncInit /\ [][SyncNext]_syncVars /\ Fairness /\ QueueFairness
=============================================================================
