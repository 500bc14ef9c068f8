----------------------------- MODULE ThreadQueue -----------------------------
(***************************************************************************)
(* runtime/thread-queue.scm: a queue that blocks a thread which dequeues   *)
(* while it is empty or queues while it is full.  Each thread runs a       *)
(* program, a sequence of calls; the histories `sent' and `received' say   *)
(* what the calls did.                                                     *)
(***************************************************************************)
EXTENDS Suspension, SequencesExt

CONSTANT
  Workloads    \* [program, max, ends]: what each thread calls, a sequence of [op, item];
               \* max-elements, 0 standing for #f, no limit; and whether the calls that
               \* wait for an item are no more than the items that are queued

Sending == {"queue!", "queue-no-hang!", "push!"}
Timed == {"dequeue-until!", "peek-until"}
Taking == {"dequeue!", "dequeue-until!", "peek", "peek-until"}

\* The items of the calls that queue one tell those calls apart.
ASSUME WorkloadAssumption ==
  /\ "queue" \in Mutex
  /\ \A w \in Workloads :
       /\ w.max \in Nat
       /\ \A t \in Thread : w.program[t] \in Seq(ToSet(w.program[t]))
       /\ \A t, u \in Thread : \A i \in DOMAIN w.program[t], j \in DOMAIN w.program[u] :
            /\ w.program[t][i].op \in Sending /\ w.program[u][j].op \in Sending
            /\ w.program[t][i].item = w.program[u][j].item
            => t = u /\ i = j

VARIABLES
  load,              \* the workload, chosen at the start
  items,             \* the items from first-pair to last-pair
  waitingQueuers,    \* waiting-queuers
  waitingDequeuers,  \* waiting-dequeuers
  call,              \* thread -> index of its call in its program
  overdue,           \* the threads whose call has run out of time
  timers,            \* thread -> the calls that left a timer registered
  sent, received,    \* histories: items queued; thread -> items dequeued
  dropped            \* history: items emptied or clobbered, or pushed in vain

queueVars == <<items, waitingQueuers, waitingDequeuers>>
clientVars == <<load, call, overdue, timers>>
historyVars == <<sent, received, dropped>>
queueAllVars == <<suspensionVars, queueVars, clientVars, historyVars>>

Op(t) == load.program[t][call[t]].op
Item(t) == load.program[t][call[t]].item

QueueEmpty ==
  /\ items = <<>> /\ waitingQueuers = <<>> /\ waitingDequeuers = <<>>
  /\ call = [t \in Thread |-> 1]
  /\ overdue = {} /\ timers = [t \in Thread |-> {}]
  /\ sent = <<>> /\ received = [t \in Thread |-> <<>>] /\ dropped = {}

QueueInit == load \in Workloads /\ SuspensionInit("next") /\ QueueEmpty

-----------------------------------------------------------------------------
\* Mutant: one item too many.
FullPlusOne == load.max # 0 /\ Len(items) > load.max

Full == load.max # 0 /\ Len(items) >= load.max

\* Mutant: only the first waiting dequeuer is resumed, and all are dropped.
resume_one_dequeuer ==
  /\ pending' = IF waitingDequeuers = <<>> THEN pending
                ELSE pending \cup {Head(waitingDequeuers)}
  /\ waitingDequeuers' = <<>>

\* Mutant: no dequeuer is resumed.
resume_no_dequeuers == UNCHANGED <<pending, waitingDequeuers>>

resume_dequeuers ==
  /\ pending' = pending \cup ToSet(waitingDequeuers)
  /\ waitingDequeuers' = <<>>

\* Mutant: nobody is told that there is room.
resume_no_queuers == UNCHANGED <<pending, waitingQueuers>>

resume_queuers ==
  /\ pending' = pending \cup ToSet(waitingQueuers)
  /\ waitingQueuers' = <<>>

\* Leave the body of with-queue-locked: for good, or to suspend in
\* with-queue-unlocked.
Leave(t, there) == Jump(t, there) /\ UNCHANGED <<locking, owner, ring>>
Return(t) == Leave(t, "leave")
Block(t) == Leave(t, "unlock")

\* Mutant: an item goes to the front.
AtFront(x) == <<x>> \o items
AtEnd(x) == Append(items, x)

queue_item(t) ==
  /\ items' = AtEnd(Item(t))
  /\ sent' = Append(sent, Item(t))
  /\ resume_dequeuers
  /\ Return(t)
  /\ UNCHANGED <<waitingQueuers, received, dropped, clientVars>>

thread_queue_queue(t) ==
  /\ Op(t) = "queue!" /\ ~Full /\ queue_item(t)

QueueBlocks(t) ==
  /\ Op(t) = "queue!" /\ Full
  /\ waitingQueuers' = Append(waitingQueuers, t)
  /\ Block(t)
  /\ UNCHANGED <<pending, items, waitingDequeuers, clientVars, historyVars>>

thread_queue_queue_no_hang(t) ==
  /\ Op(t) = "queue-no-hang!"
  /\ \/ ~Full /\ queue_item(t)
     \/ Full /\ Return(t) /\ UNCHANGED <<pending, queueVars, clientVars, historyVars>>

dequeue_item(t) ==
  /\ Op(t) \in {"dequeue!", "dequeue-until!"} /\ items # <<>>
  /\ items' = Tail(items)
  /\ received' = [received EXCEPT ![t] = Append(@, Head(items))]
  /\ resume_queuers
  /\ Return(t)
  /\ UNCHANGED <<waitingDequeuers, sent, dropped, clientVars>>

peek_item(t) ==
  /\ Op(t) \in {"peek", "peek-until"} /\ items # <<>>
  /\ Return(t)
  /\ UNCHANGED <<pending, queueVars, clientVars, historyVars>>

\* Nothing to take yet.  A call with a time leaves a timer, which is never
\* deregistered, as is the thread's place in waiting-dequeuers.  (A call that finds
\* nothing again leaves another timer for the same time: the timers of one call are
\* one here, since all they do is make the thread's event pending, once its time is
\* over, and `pending' does not count.)
TakeBlocks(t) ==
  /\ Op(t) \in Taking /\ items = <<>>
  /\ Op(t) \in Timed => t \notin overdue
  /\ waitingDequeuers' = Append(waitingDequeuers, t)
  /\ timers' = [timers EXCEPT ![t] = IF Op(t) \in Timed THEN @ \cup {call[t]} ELSE @]
  /\ Block(t)
  /\ UNCHANGED <<pending, items, waitingQueuers, load, call, overdue, historyVars>>

\* when-non-empty-before: the time is over.
TakeExpires(t) ==
  /\ Op(t) \in Timed /\ items = <<>> /\ t \in overdue
  /\ Return(t)
  /\ UNCHANGED <<pending, queueVars, clientVars, historyVars>>

\* thread-queue/push! on a queue with room, and on a full one, where it clobbers
\* the last item.  With one item there is no pair before the last one: the search
\* runs off the list and signals an error.
thread_queue_push(t) ==
  /\ Op(t) = "push!" /\ ~Full
  /\ items' = <<Item(t)>> \o items
  /\ sent' = Append(sent, Item(t))
  /\ resume_dequeuers
  /\ Return(t)
  /\ UNCHANGED <<waitingQueuers, received, dropped, clientVars>>

PushClobbers(t) ==
  /\ Op(t) = "push!" /\ Full /\ Len(items) > 1
  /\ items' = <<Item(t)>> \o SubSeq(items, 1, Len(items) - 1)
  /\ sent' = Append(sent, Item(t))
  /\ dropped' = dropped \cup {Last(items)}
  /\ Return(t)
  /\ UNCHANGED <<pending, waitingQueuers, waitingDequeuers, received, clientVars>>

\* Mutant: the only item is clobbered without a word.
PushFailsLosing(t) ==
  /\ Op(t) = "push!" /\ Full /\ Len(items) = 1
  /\ items' = <<Item(t)>>
  /\ Return(t)
  /\ UNCHANGED <<pending, waitingQueuers, waitingDequeuers, clientVars, historyVars>>

PushFails(t) ==
  /\ Op(t) = "push!" /\ Full /\ Len(items) = 1
  /\ sent' = Append(sent, Item(t))
  /\ dropped' = dropped \cup {Item(t)}
  /\ Return(t)
  /\ UNCHANGED <<pending, queueVars, clientVars, received>>

thread_queue_empty(t) ==
  /\ Op(t) = "empty!"
  /\ IF items = <<>> THEN UNCHANGED <<pending, waitingQueuers>> ELSE resume_queuers
  /\ items' = <<>>
  /\ dropped' = dropped \cup ToSet(items)
  /\ Return(t)
  /\ UNCHANGED <<waitingDequeuers, clientVars, sent, received>>

Body(t) ==
  /\ pc[t] = "body"
  /\ \/ thread_queue_queue(t) \/ QueueBlocks(t) \/ thread_queue_queue_no_hang(t)
     \/ dequeue_item(t) \/ peek_item(t) \/ TakeBlocks(t) \/ TakeExpires(t)
     \/ thread_queue_push(t) \/ PushClobbers(t) \/ PushFails(t) \/ thread_queue_empty(t)

-----------------------------------------------------------------------------
Running(t) == call[t] <= Len(load.program[t])

Begin(t) ==
  /\ pc[t] = "next" /\ Running(t)
  /\ lock_thread_mutex(t, "queue", "body")
  /\ UNCHANGED <<queueVars, clientVars, historyVars>>

\* with-queue-unlocked: unlock, suspend, lock again.
Unlock(t) ==
  /\ pc[t] = "unlock"
  /\ unlock_thread_mutex(t, "queue", "await")
  /\ UNCHANGED <<queueVars, clientVars, historyVars>>

Suspend(t) ==
  /\ pc[t] = "await"
  /\ suspend_current_thread(t, "awake")
  /\ UNCHANGED <<queueVars, clientVars, historyVars>>

LockAgain(t) ==
  /\ pc[t] = "awake"
  /\ lock_thread_mutex(t, "queue", "body")
  /\ UNCHANGED <<queueVars, clientVars, historyVars>>

Locked(t) == LockWait(t) /\ UNCHANGED <<queueVars, clientVars, historyVars>>

End(t) ==
  /\ pc[t] = "leave"
  /\ unlock_thread_mutex(t, "queue", "next")
  /\ call' = [call EXCEPT ![t] = @ + 1]
  /\ overdue' = overdue \ {t}
  /\ UNCHANGED <<queueVars, load, timers, historyVars>>

Rest(t) == pc[t] = "next" /\ Consume(t) /\ UNCHANGED <<queueVars, clientVars, historyVars>>

\* The time of the call is over.
RunOut(t) ==
  /\ Running(t) /\ Op(t) \in Timed /\ t \notin overdue
  /\ overdue' = overdue \cup {t}
  /\ UNCHANGED <<suspensionVars, queueVars, load, call, timers, historyVars>>

\* A timer fires after its time, in this call or in a later one.
Fire(t) ==
  /\ \E k \in timers[t] :
       /\ k = call[t] => t \in overdue
       /\ timers' = [timers EXCEPT ![t] = @ \ {k}]
  /\ pending' = pending \cup {t}
  /\ UNCHANGED <<pc, locking, owner, ring, queueVars, load, call, overdue, historyVars>>

Step(t) == Begin(t) \/ Body(t) \/ Unlock(t) \/ Suspend(t) \/ LockAgain(t) \/ Locked(t) \/ End(t)

QueueNext == \E t \in Thread : Step(t) \/ Rest(t) \/ RunOut(t) \/ Fire(t)

\* Threads are scheduled in turn and the clock goes on.
QueueFairness ==
  \A t \in Thread : /\ WF_queueAllVars(Step(t))
                    /\ WF_queueAllVars(RunOut(t)) /\ WF_queueAllVars(Fire(t))

QueueSpec == QueueInit /\ [][QueueNext]_queueAllVars /\ QueueFairness

-----------------------------------------------------------------------------
(* Properties. *)

\* The queue stays within its limit, and whoever works on it owns its mutex.
TypeOK ==
  /\ pending \subseteq Thread /\ overdue \subseteq Thread
  /\ owner["queue"] \in Thread \cup {NoThread}
  /\ load.max # 0 => Len(items) <= load.max
  /\ \A t \in Thread : pc[t] \in {"body", "unlock", "leave"} => owner["queue"] = t

\* A thread that gave the queue up to suspend is still registered or has its
\* signal already, although both may happen before it suspends and although it may
\* have been signalled for an earlier call: no wakeup is lost.
NoLostWakeup ==
  \A t \in Thread : pc[t] \in {"unlock", "await"} =>
    t \in pending \cup ToSet(IF Op(t) \in Taking THEN waitingDequeuers ELSE waitingQueuers)

\* The queue itself, at every interruption: within its limit, and with everyone
\* who is about to suspend registered or signalled.
QueueInv == TypeOK /\ NoLostWakeup

\* What test-thread-queue.scm asserts: each consumer receives items in the order in
\* which they were queued, and none twice, as long as nobody pushes an item.
InOrder ==
  (\A t \in Thread : \A c \in ToSet(load.program[t]) : c.op # "push!") =>
    \A t \in Thread : \A i, j \in DOMAIN received[t] : i < j =>
      \E k, l \in DOMAIN sent :
        k < l /\ sent[k] = received[t][i] /\ sent[l] = received[t][j]

\* Nothing is lost: an item that was queued or pushed is in the queue, was received
\* once, or was dropped by empty! or by a push! on a full queue.
NothingLost ==
  /\ ToSet(sent) = ToSet(items) \cup dropped \cup UNION {ToSet(received[t]) : t \in Thread}
  /\ IsInjective(items) /\ ToSet(items) \cap dropped = {}
  /\ \A t \in Thread :
       /\ IsInjective(received[t])
       /\ ToSet(received[t]) \cap (ToSet(items) \cup dropped) = {}
       /\ \A u \in Thread \ {t} : ToSet(received[t]) \cap ToSet(received[u]) = {}

\* Every item arrives once and in order, or is dropped by an operation that says so.
ItemsDelivered == InOrder /\ NothingLost

\* Every call returns, in a workload that takes no more items than it queues:
\* queuers and dequeuers always wake each other, also by signals that were meant
\* for an earlier call.
AllReturn == []<>(load.ends => \A t \in Thread : ~Running(t) /\ pc[t] = "next")

\* A suspended taker does not stay suspended while there are items.
TakersWake ==
  \A t \in Thread : []<>~(pc[t] = "await" /\ Op(t) \in Taking /\ items # <<>>)

\* Nobody waits for ever for what is there: calls return when they can.
CallsReturn == AllReturn /\ TakersWake
=============================================================================
