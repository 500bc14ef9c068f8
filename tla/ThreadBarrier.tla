---------------------------- MODULE ThreadBarrier ----------------------------
(***************************************************************************)
(* runtime/thread-barrier.scm: thread-barrier-wait, over the condition     *)
(* variable of module CondVar.  Each thread waits at the barrier Rounds    *)
(* times; count threads are needed to pass.                                *)
(***************************************************************************)
EXTENDS CondVar

CONSTANTS
  Count,    \* count: as many as there are threads
  Rounds    \* bound: how often each thread comes to the barrier

ASSUME BarrierAssumption ==
  Count \in Nat \ {0} /\ Count = Cardinality(Thread) /\ Rounds \in Nat

VARIABLES
  current,      \* how many are still to come
  generation,   \* how often the barrier was passed
  arrived,      \* thread -> the generation it found when it came; -1 while it is out
  round         \* thread -> how often it passed

barrierVars == <<current, generation, arrived, round>>
allVars == <<vars, barrierVars>>

BarrierUnused ==
  /\ current = Count /\ generation = 0
  /\ arrived = [t \in Thread |-> -1] /\ round = [t \in Thread |-> 0]

BarrierInit == CondVarInit("out") /\ BarrierUnused

Arrive(t) ==
  /\ pc[t] = "out" /\ round[t] < Rounds
  /\ lock_thread_mutex(t, "mutex", "arrive")
  /\ UNCHANGED <<condVars, barrierVars>>

\* Mutant: the last one to come wakes the others but leaves the generation.
LastArrivesQuietly(t) ==
  /\ pc[t] = "arrive" /\ current = 1
  /\ current' = Count
  /\ arrived' = [arrived EXCEPT ![t] = generation]
  /\ Call(t, "broadcast", "passed")
  /\ UNCHANGED <<waiters, done, timed, expired, timedOut, generation, round>>

\* Mutant: one thread too few is needed.
LastArrivesEarly(t) ==
  /\ pc[t] = "arrive" /\ current <= 2
  /\ current' = Count
  /\ generation' = generation + 1
  /\ arrived' = [arrived EXCEPT ![t] = generation]
  /\ Call(t, "broadcast", "passed")
  /\ UNCHANGED <<waiters, done, timed, expired, timedOut, round>>

\* The last one to come starts the next generation.
LastArrives(t) ==
  /\ pc[t] = "arrive" /\ current = 1
  /\ current' = Count
  /\ generation' = generation + 1
  /\ arrived' = [arrived EXCEPT ![t] = generation]
  /\ Call(t, "broadcast", "passed")
  /\ UNCHANGED <<waiters, done, timed, expired, timedOut, round>>

OtherArrives(t) ==
  /\ pc[t] = "arrive" /\ current > 1
  /\ current' = current - 1
  /\ arrived' = [arrived EXCEPT ![t] = generation]
  /\ Goto(t, "again")
  /\ UNCHANGED <<condVars, generation, round>>

\* The loop around condition-variable-wait!.
Again(t) ==
  /\ pc[t] = "again"
  /\ IF arrived[t] < generation
     THEN Goto(t, "passed") /\ UNCHANGED ret
     ELSE Call(t, "wait", "again")
  /\ UNCHANGED <<waiters, done, timed, expired, timedOut, barrierVars>>

Passed(t) ==
  /\ pc[t] = "passed"
  /\ unlock_thread_mutex(t, "mutex", "out")
  /\ round' = [round EXCEPT ![t] = @ + 1]
  /\ arrived' = [arrived EXCEPT ![t] = -1]
  /\ UNCHANGED <<condVars, current, generation>>

Out(t) == pc[t] = "out" /\ Consume(t) /\ UNCHANGED <<condVars, barrierVars>>

BarrierStep(t) ==
  \/ Arrive(t) \/ LastArrives(t) \/ OtherArrives(t) \/ Again(t) \/ Passed(t) \/ Out(t)
  \/ CondVarStep(t) /\ UNCHANGED barrierVars

BarrierNext == \E t \in Thread : BarrierStep(t)

BarrierSpec == BarrierInit /\ [][BarrierNext]_allVars

-----------------------------------------------------------------------------
(* Properties. *)

\* The assertions at the beginning of thread-barrier-wait, and what current counts:
\* the threads that came for this generation are those no longer awaited.
CountIsRight ==
  /\ 0 < current /\ current <= Count
  /\ Count - current = Cardinality({t \in Thread : arrived[t] = generation})

\* Nobody passes the barrier before everybody has come to it as often.
BarrierHolds ==
  \A t, u \in Thread :
    round[t] <= round[u] + IF arrived[u] = -1 THEN 0 ELSE 1

\* The barrier, also while threads of the next round arrive before those of the
\* last one have left: nobody gets ahead, and the count is of those who have come.
BarrierInv == BarrierHolds /\ CountIsRight
=============================================================================
