# A TLA+ development of MIT/GNU Scheme

MIT/GNU Scheme is a Scheme implementation: a C microcode (`src/src/microcode`),
a runtime system written in Scheme (`src/src/runtime`), a native-code compiler,
a syntaxer, an editor and libraries. This directory models the parts whose
correctness depends on orders of events or on invariants that no single
procedure shows:

* the threads of the runtime system, preemptive on one processor and written on
  top of interrupts and first-class continuations: scheduler, events, timers,
  mutexes, joins, I/O waits, and the condition variables, queues and barriers
  built on them;
* the subprocesses, whose table a signal handler changes behind the program's back;
* the variable caches, which keep compiled code in step with first-class environments
  that anyone may redefine, link and unbind;
* the copying garbage collector with its weak pairs and ephemerons;
* the integers: fixnums and bignums, the one part that is pure arithmetic, and
  whose rare cases (one division in 2^62) no test reaches at the real word size.

TLC checks small instances of all of them; TLAPS proves the safety properties of the
scheduler, the mutexes, the timers, the I/O waits, the synchronisers, the subprocesses
and the collector for every number of threads, mutexes, registrations, items, children,
slots and objects.

## 1. The system

### Components

| component | state | operations |
|---|---|---|
| thread scheduler (`thread.scm`, `thread-low.scm`) | `first-running-thread` … `last-running-thread` linked by `thread/next`; per thread `execution-state`, `continuation` | create, yield, preempt, suspend, stop, restart, exit; idle in `wait-for-io` |
| thread events | per thread `pending-events` (a ring) and `block-events?` (`#f`, `#t`, `SUSPENDED`) | signal (another thread, oneself, while idle), block, unblock, handle, allow delivery |
| timer events | `timer-records` (a list ordered by time), `timer-interval`, `next-scheduled-timeout`, the real timer and its interrupt bit | register, deregister, discard, deliver, sleep, set the interval, `%maybe-toggle-thread-timer` |
| thread mutexes | `thread-mutex/owner`, `waiting-threads`, per thread `thread/mutexes` | lock, try-lock, unlock, clean-up on exit |
| join, detach and exit | `joined-threads`, `joined-to`, `exit-value` | join, detach, exit with its clean-up loops |
| I/O thread events (`thread.scm`, `io.scm`, `uxio.c`, `prosio.c`) | `io-registrations` (a doubly linked list of dentries, each with a doubly linked list of tentries), `io-registry` | register, deregister, block on a descriptor, poll and signal, close a descriptor |
| condition variables (`condvar.scm`) | the list of waiters, each with `done?`; the lock of the variable | wait (with and without a timeout, with and without unlocking), signal, broadcast |
| thread queues (`thread-queue.scm`) | items, `waiting-queuers`, `waiting-dequeuers`, the limit | queue, queue without hanging, dequeue and peek (also until a time), push, empty |
| thread barriers (`thread-barrier.scm`) | count, current, generation, a condition variable | wait |
| subprocesses (`process.scm`, `uxproc.c`, `uxsig.c`, `uxio.c`) | process table with raw and synchronized status and ticks; subprocess objects; registrations | start, signal, stop, continue, wait, delete, SIGCHLD, status change, sleep in `ppoll` |
| variables and variable caches (`lookup.c`, `lookprm.c`, `cmpint.c`) | value cells in symbols, frames and extensions; caches, clones and UUO links with their reference lists | lookup, assign, define, link, unbind; link a compiled block; assign from compiled code |
| garbage collector (`gcloop.c`, `memmag.c`) | fromspace, tospace, broken hearts, weak chain, ephemeron list, hash table and queue | transport, scan, scan ephemerons, update ephemerons and weak pairs |
| integers (`artutl.c`, `bignum.c`, `intprm.c`) | – (pure functions over two representations) | arithmetic, division, comparison, bitwise operations, shifts, counts, conversions |
| finalizers, `dynamic-wind`, hash tables | weak lists; state points; buckets | add, remove, collect; translate; rehash |
| interpreter, compiler, syntaxer, Edwin, plug-ins, strings | registers and stack; syntax trees; buffers | – |

`PROJECT.json` lists all of them, with the reason for each one that is left out.

### How they interact

There is one processor. The thread at the head of the run queue has it. A
procedure of the thread system raises the interrupt mask to *gc-ok*, so that its
body runs to completion; the code between such procedures is interruptible. All
other interaction goes through four channels:

* **events**: `%signal-thread-event` queues a thunk in the ring of a thread and,
  if that thread is waiting and has not blocked its events, makes it running.
  Mutexes, joins, timers and I/O all wake threads this way and no other;
* **the timer**: one hardware timer serves both the time slice and the timer
  records. `%maybe-toggle-thread-timer` sets it again at the end of almost every
  procedure, which is why forgetting it once would be fatal;
* **the run queue**, changed by `%thread-running`, `thread-not-running` and
  `yield-thread`;
* **the poll set** `io-registry`, polled when the system idles and at every timer
  interrupt.

Above the threads, condition variables, queues and barriers use only mutexes,
`suspend-current-thread` and `%signal-thread-event`. Below them, the poll that
idles is also where a subprocess status change is noticed: SIGCHLD, the table,
the ticks and the poll are one protocol. The garbage collector sees the
environments and the caches as objects; the variable caches in turn hold their
references weakly, and every primitive on variables may be interrupted for a
collection and begun again.

### What is hard

* *Interleaving.* The timer at every interruptible point; a wakeup against a
  suspension under way; a thread killed while it waits, sleeps or blocks; SIGCHLD
  between any two instructions at which it is not masked.
* *Calls that outlive themselves.* A timed call that gave up leaves its timer and
  its place in a list, which signal it later in another call; a registration
  outlives the structure it points to.
* *Order.* Which of a key and its ephemeron the collector reaches first; whether a
  variable is cached before or after it is linked; who arrives at a barrier while
  others still leave it.
* *Staleness.* A UUO link has the procedure built in; a cache stands for a binding
  that a definition may shadow; a tick says that a status was seen.
* *Rare arithmetic.* The guess of a quotient digit that is still too large after both
  corrections; carries that run through half digits; negative powers of two.

The list, with the line of each, is `hazards` in `PROJECT.json`; the properties
below are aimed at it.

### What makes each component correct

* scheduler: the run queue is exactly the set of runnable threads, each once;
  whoever does not run can be continued; dead threads stay dead; ready threads run;
* events: no wakeup is lost, no event is run while blocked;
* timers: no record is overslept, no sleeper forgotten, the time slice is armed;
* mutexes: one owner, first come first served, consistent under exit;
* joins: the two sides agree, the dead are forgotten;
* I/O: the lists are well formed, agree with the poll set, implement FIFO queues;
* condition variables, queues, barriers: waiters can be signalled, items arrive once
  and in order, nobody passes early, calls return;
* subprocesses: nobody signals a process that is gone, a death is always noticed;
* variables: compiled code sees what a search would find;
* collector: the copy is what was reachable, faithful, and the collection ends;
* integers: every result is the integer it should be, in canonical form.

## 2. The modules

| module | what it is |
|---|---|
| `Threads` | scheduler, events, timers, mutexes, join, detach, exit |
| `FifoLock` | abstract specification of the mutexes, implemented by `Threads` |
| `IORegistrations` | I/O thread events at the level of the pointers |
| `IOWaiters` | abstract specification of the I/O waits, implemented by `IORegistrations` |
| `Suspension` | what clients see of the threads: suspend, signal, lock, unlock |
| `CondVar`, `ThreadBarrier`, `ThreadQueue` | the synchronisers, over `Suspension`; `ThreadBarrier` EXTENDS `CondVar` |
| `Subprocess` | process table, SIGCHLD, subprocess objects and who waits for them |
| `Lookup` | variables, caches, clones and UUO links |
| `CopyGC` | one garbage collection |
| `Bignum`, `IntegerOps` | bignums digit by digit; fixnums and the dispatch to either |
| `MCThreads`, `MCIORegistrations`, `MCSync`, `MCLookup`, `MCCopyGC`, `MCIntegers` | instances for TLC |
| `ThreadsProofs` | types, run queue, finality of death, wakeups, mutexes and their refinement of `FifoLock`, joins, and what is left of a dead thread, proved |
| `ThreadsTimerProofs` | continuations, blocked events, sleepers and the timer, proved |
| `IORegistrationsProofs` | the pointers of the I/O registrations, who is registered, and that they implement `IOWaiters`, proved |
| `SyncProofs`, `ThreadQueueProofs` | condition variables, barriers and thread queues, proved |
| `SubprocessProofs` | the process table, signals and changes of status, proved |
| `LookupProofs` | caches, clones and UUO links are not stale in programs that link nothing; which variables share a cache; which symbols are held, proved |
| `CopyGCProofs` | the collection copies what is live, faithfully, but for what ephemerons of one key hold, proved |

### `Threads`

State. The variables are the fields of the thread, mutex and timer-record
structures and the global variables of `thread.scm`, under their own names.
`runQueue` is the chain of `thread/next` as a sequence (its head is
`current-thread`). A continuation is abstracted to whether one is saved. An
event is what it does: `#f` nothing, `user` returns, `alarm` ends a sleep, `join`
reports an exit, `kill` calls `exit-current-thread`. Times are ticks still to pass.
A thread may join another any number of times; `WithoutAll` is the `delq!` and
`del-assq!` that take all of these joins back at once.

Control. `kstep` is the uninterruptible step under way: `resume`
(`%resume-current-thread`), `handle` (`handle-thread-events`), `deliver`
(`deliver-timer-events`), `lock` (the loop of `%lock-thread-mutex`), and the
clean-up loops of `exit-current-thread`; `none` means an interruptible point.
`pc[t]` is the interruptible point at which thread `t` goes on: `user`, or a
point inside `create-thread`, `sleep-current-thread`, the self-signal of
`signal-thread-event` or the loop of `%lock-thread-mutex`. `caller` and
`anyEvents` are the frame of the loop under way; `saved`, `counted`, `delivered`
and `wants` are local variables of the interrupted procedures.

Actions. One per procedure of the exported interface, whole: the action of
`signal-thread-event` contains the wakeup and the `%maybe-toggle-thread-timer` at
the end. Loops take one step per iteration. The timer interrupt can come at
every interruptible point, and while idle. Time (`Tick`) passes at interruptible
points and when a thread has just been given the processor: there a record can
fall due between `deliver-timer-events` and the setting of the timer.

Where the code leaves interrupts enabled the model does too: `create-thread`
(which moreover lends its caller the `block-events?` of the root continuation),
`sleep-current-thread` and the signal of a thread to itself, whose
`%add-pending-event` counts the ring in one step and changes it in another.

### `IORegistrations`

`io` is a record with the head of `io-registrations`, the dentries, the tentries
(`prev`, `next`, `first`, `last`, `dentry`, `thread`) and the poll set. The list
surgery of `delete-tentry!`, `%register-io-thread-event` and
`%deregister-io-descriptor` is done on these pointers as in the code. Registrations are
numbered as they are made, and a number stands for the tentry and for the dentry made with
it. What a loop of the code meets is the least set that has the cell where it begins and,
with a cell, the next one (`From`). A poll may
find any subset of the modes asked for, and errors and hangups; as in the code
only the first matching registration of a descriptor is signalled for each
report. `Spec` never closes a descriptor that has registrations;
`SpecWithClose` does. The threads are abstracted to the code around
`block-on-io-descriptor` (its before, during and after thunks), registrations
held by the program, other events, and exit. Exit is one step for its first part
(`ExitCurrentThread`), one for the after thunk and the collection of the thread's tentries
(`Unwind`), one for each tentry that `%deregister-io-thread-events` then deletes, and a last
one; closing is a step for each dentry that `dloop` visits. Interrupts are disabled
there, so nothing else runs meanwhile (`Calm`).

### `Suspension`, `CondVar`, `ThreadBarrier`, `ThreadQueue`

`Suspension` is the interface at which the synchronisers use `thread.scm`, as
`NoWakeupLost` and `FifoSpec` justify it: a signal is pending until it is used up,
`suspend-current-thread` returns at once when one is pending, a mutex is handed
over in order. Any thread may take the next step, as the timer allows; an event
that nobody waits for any more is used up by `Consume`.

`CondVar` has one label for each point of `%condition-variable-wait!/unlock`,
`condition-variable-signal!` and `…-broadcast!` at which another thread can run. The
signaller's three changes (signal the thread, mark the waiter, unlink it) are
three steps, since interrupts are enabled there, and `Interrupt` may end the signaller
between them. The timeout test is the one of the code, `(<= (real-time-clock)
timeout)`, which holds *before* the time. `ThreadBarrier` calls it as a subroutine
(`ret` is the return address). `ThreadQueue` runs a program, a sequence of calls,
for each thread; a timed call leaves its timer (`timers`) and its place in
`waitingDequeuers` behind, as in the code (the several timers that one call can
register, all for the same time, are one). `sent`, `received` and `dropped` are
histories of what the calls did. The specification of the queue is `QueueSpec`, beside
`Spec` of the condition variable and `BarrierSpec`, and `MCSync` extends all three.

### `Subprocess`

The table of `uxproc.c` with `raw` and synchronized status, tick and sync tick per
slot, the global ticks, the children as the kernel sees them, and the objects and
registrations of `process.scm`. `pc` is where the one Scheme process is; the
handler (`Handler`, `Waitpid`, `subprocess_death`…) runs between any two of its steps
at which SIGCHLD is not masked, and `Masked` is the set of places where it is.
SIGCHLD is a flag, not a queue. `safe_poll` is three steps: the test for a change,
the sleep with the mask that lets SIGCHLD in, and the return. A stopped child can be
continued by the continue operations (`SendContinue`), by a plain SIGCONT of
`subprocess-signal`, or by a process outside; in the last two cases it is `resumed`:
it runs, and the table does not know. A subprocess may be deleted while a thread waits
for it or has put it in the foreground.

### `Lookup`

The heap is one record: value cells (global, argument, extension), the traps in
them, caches with value, clone flag and the three reference lists as association
lists by name, the sites of compiled code with what each holds (a cache, a clone, a
procedure, or a link that looks the cache up), and the obarray's strong symbols. Each
operator is named after the procedure of `lookup.c` it translates and maps a heap
to a heap; an action is a primitive. Primitives are atomic except where a garbage
collection restarts them: `GC_CHECK` fails before a change is made everywhere but in
`link_variables` (`LinkInterrupted`, which comes after the target's symbol was made strong).
The one case in which the code loops for
ever is part of the actions too (`Hang`): after links have joined a variable to the one it
inherits, the list that references are moved from can be the list they are moved to. The
walk is endless only if the first pair of the list is to be moved; lists are sets here, so
`movedFirst` chooses which one is first. Of `make_uuo_link` the error
`ERR_COMPILED_CODE_ERROR` for a compiled entry that is none is left out.

### `CopyGC`

Fromspace is a set of pairs, weak pairs and ephemerons; tospace is the sequence of
copies. `phase` names the loop of the code that runs (roots, tospace, ephemeron list,
queue, datum, tospace again, and the last two passes), `index` and `scan` are its
position, and `step`, `obj` and `loc` say where the handler of the current word is. Every turn
of a loop is a step: a word, a cdr that is copied along with its list, a link of
the walk in `queue_ephemerons_for_key`. Broken hearts are `fwd`; the hash table, its
chains and the queue share the link of the ephemeron as in the code, so that a walk that
leaves the table goes on along the queue, as the walk of the code does. Any number of
ephemerons may have one key. `Crowd` is the set of those that waited for one live key
with another: what the code does with them is finding 3, and they are the only exception
in the properties of the run `gc`.

### `Bignum`, `IntegerOps`

Digits are `D` bits long, the C long that holds them two bits longer, and every
intermediate product, sum and carry is reduced to that width (`Long`), so an
overflow of the code is an overflow of the model. `machine` is chosen at the start:
with digits of 2 bits, integers of a few hundred have many digits and TLC can try all
of them; with 4, 6 and 8 bits a digit has halves that are longer than one bit, so that the
routines for small factors and small denominators and the middle product of `Mul` run.
The machines have the orders of sizes of the real ones: fixnum shorter
than digit shorter than double (32 bits), and double shorter than fixnum shorter
than digit (64 bits). A right shift of a fixnum by the length of a word or more, `n1 >> m`
at `artutl.c:708`, is undefined in C: any word may come out (`ShiftedRight`). `IntegerOps` applies a primitive to two integers and makes
the result the next operand, so that what a primitive returns is what the next one
gets.

### Refinements

* `Threads` implements `FifoLock` under `queue <- waitingThreads`: whatever the
  scheduler, the timer and the events do, a mutex passes to the longest-waiting
  thread and only an exit takes a thread out of its turn.
* `IORegistrations` implements `IOWaiters`, in which a registration is a ticket and a
  report of a descriptor wakes the lowest ticket for it. What waits is what the pointers
  lead to (`Waiting`, from `Linked(io)`), so a mislinked list breaks the refinement.

## 3. The runs

| run | instance | checks |
|---|---|---|
| `threads` | 3 threads, 1 mutex, 2 joins of one thread at a time, program `Workers`; 1.54M states | `RunQueueInv`, `NoLostWakeup`, `MutexInv`, `ExitInv`, `FifoSpec`, `DeadStaysDead` |
| `timer` | 2 threads, delays 0 and 2, intervals off, 1, 2, 2 timer records, program `Timers`; 0.73M states | `TypeOK`, `NoLostWakeup`, `SleeperHasAlarm`, `TimerArmed`, `BlockedEventsWait` |
| `live` | 3 threads that only create and sleep, `FairSpec`; 39k states | `ReadyRuns`, `SleepEnds` |
| `io` | 2 threads, 2 descriptors, both modes, 3 registrations; 0.34M states | `ListsInv`, `RegistrationsInv`, `WaitersSpec` |
| `sync` | 3 threads: 2 waiters and a signaller, or a barrier of 3 passed twice, or one of 4 workloads of a queue with limits none, 1 and 2; 0.45M states | `WaitersInv`, `BarrierInv`, `LockIsHandedOver`, `QueueInv`, `ItemsDelivered`, `CallsReturn` |
| `subprocess` | 2 children, 2 slots, ticks up to 2, signals SIGKILL, SIGTSTP and SIGCONT; 0.88M states | `NoSignalToReaped`, `ChangesNoticed`, `TableInv`, `WaitReturnsWhenNotRunning`, `DeadIsNoticed` |
| `lookup` | 3 environments and the global one, 2 names, 4 compiled blocks, 6 workloads; 0.19M states | `ReferencesAgree`, `OperatorsFollow`, `AssignmentsReachBinding`, `RecordsInv`, `BoundSymbolsHeld`, `OnlyInheritedLinksLoop` |
| `gc` | 6 objects, all heaps of a family, 3 lists of roots; 0.27M states | `CopyIsCorrect`, `ScanInv`, `Finishes` |
| `integers` | 9 machines: all integers of up to 5 digits of 2 bits, and ranges with digits of 4, 6 and 8 bits; 0.66M states | `AlwaysCanonical`, `OperationsExact`, `DivisionExact`, `ConversionsExact` |
| `self_signal` | 2 threads, 2 pending events | `ThreeStates` is **violated** (finding 1) |
| `io_close` | as `io`, with closing | `OthersStay` is **violated** (finding 2) |
| `gc_shared` | as `gc` | `DataKept` is **violated** (finding 3) |

What the threads do is a parameter: `Ops[t]` is the set of procedures that the code
of thread `t` calls, in any order and number, and `MCThreads` has the programs of the
runs. In `Workers` the first thread starts, joins, detaches and kills the others, they
join each other, suspend and exit, and all contend for the mutex. In `Timers` the
first thread sleeps, sets timers and time slices and restarts the other one, which
signals itself, blocks, handles and deregisters events, suspends, stops, yields,
refuses preemption and is signalled by interrupt handlers while the system idles.
Together they take every action of `Threads`.

Some runs ask several questions. The workloads of `ThreadQueue` and
`Lookup`, the machines of `IntegerOps` and the synchroniser in
`MCSync` are chosen in the initial state and kept, so each run explores the full
interleaving of the operations that bear on one question instead of a thin slice of
all.

Most of the properties are conjunctions of named parts, each with its own comment in
its module (`WaitersInv`, `QueueInv`, `RecordsInv`, `OperationsExact`…). `TypeOK` of
`Threads` says more than types in one place: the real timer is never set to zero, also when a
record is due already.

Bounds. `Thread`: three are needed for an owner, a first and a second waiting
thread, and for a thread that tries to overtake; timers and events need a
sender and a receiver. `MaxPending` bounds what `Signal…` puts into a ring; the
events of timers, mutexes and joins come on top of it, so rings of two and more
occur although the bound is 1. `MaxTimers` bounds `register-timer-event`;
`sleep-current-thread` adds one record for each thread. `MaxJoins` bounds how many joins
of one thread wait for its exit: two are two threads, or one thread twice. `Delays` contains 0 (a
record due at once) and a delay longer than the shortest interval. `Intervals`
contains 0, which is `#f`, preemption off. `MaxRegistrations = 3` gives a
first, a middle and a last cell in a list, and a dentry that is emptied
and made again.

`Rounds = 2` is enough for a thread of the next round to meet those of the last. The
queue's workloads have a limit smaller than the number of items, two consumers, and
calls that time out followed by calls that do not, which is when a late signal
matters. Two children in two slots make SIGCHLDs merge and slots be used again;
`MaxTick = 2` bounds the changes of status, `Watched` the slots somebody waits for. A process
outside continues a child only after its stop was reported; the program's own SIGCONT may
come sooner.
Six objects hold every chain of two ephemerons through a pair and a weak pair, in
both orders of the roots, two ephemerons of one key, and a third one whose datum leads to
that key; one bucket makes every chain of the hash table collide.
In `lookup` a block is inside two nested environments, another outside; `MaxCaches`
bounds the caches alive at one time (dead ones are reclaimed). Calls are combined with
unbinding (`Calling`, `Unbinding`) and with links of targets that have caches and values of
their own (`Retargeting`). The operands of the
division reach five digits by three, where every branch of the guess and of the
adding back is taken; a mutant that omits the adding back is found.

Symmetry. Threads other than `FirstThread`, mutexes, in the I/O model all threads and
descriptors, and in `Lookup` the values, are interchangeable; the runs `threads`,
`io`, `io_close` and `lookup` use this. No run with a liveness property does.

Deadlock is not checked in the runs whose system may really stop: all threads
may have exited or be waiting for ever, programs and workloads end, a collection is over.

Every property of a passing run comes with mutated definitions of the code (a
dropped guard, a missing removal, a forgotten reset) under which TLC finds it
violated, for most of its parts one each; they stand just before the definitions they
mutate.

### Fairness

`Threads!FairSpec` assumes: the uninterruptible steps go on (`WF(KernelStep)`: nothing
else can run); time passes (`SF(Tick)`: no infinite number of steps in a tick);
a requested timer interrupt is taken (`SF(TimerInterrupt)`: the processor keeps
coming to interruptible points, where the interrupt is polled); and a thread that
is inside a procedure of the thread system and keeps getting the processor gets
on (`SF(ThreadStep(t))`: a time slice is longer than an instruction). Strong
fairness is needed because each of these is disabled whenever the processor is
inside the thread system or another thread has it. Nothing is assumed about the
calls that threads make: a thread may compute for ever, and the others
still run.

`ThreadQueue` and `CondVar` assume weak fairness of each thread's steps inside their
procedures, which is what `ReadyRuns` shows of the scheduler, and of the clock. In
`CondVar` a client also gives back the mutex it holds; nothing is assumed of a
client that does not hold it. `CopyGC` runs alone, so it goes on as long as it can.
`Subprocess` assumes that primitives go on; that a pending SIGCHLD is delivered when
it is unmasked (strong: the mask comes and goes, and the kernel delivers a pending
signal before the call that unmasks it returns); that the timer interrupt polls
again and again (strong: it is off inside primitives; `OS_test_select_registry` returns
before its test of the status when a descriptor is ready, `uxio.c:610`, so this also assumes
that not every poll finds one); and that a thread which has been
told gets the processor. Nothing is assumed of the children.

`CallsReturn`, `LockIsHandedOver` and `DeadIsNoticed` have the form `[]<>~P` for a state `P` in
which somebody waits for what is there already: it does not last for ever.

### Findings

1. `self_signal`. The comment at `thread.scm:933` says that `pending-events` has
   three states: empty, one `#f` event, or any number of non-`#f` events. A thread
   that signals itself runs `%add-pending-event` with interrupts enabled
   (`thread.scm:912`); an event of another thread or of the timer between its
   count and its change leaves a `#f` event among others. That costs a superfluous
   wakeup. If the thread has found one `#f` event, and the other event takes its place
   before `ring/set-first-item!` does, that event is overwritten and lost.
2. `io_close`. `%deregister-io-descriptor` (`thread.scm:774`) unlinks a dentry but
   leaves its tentries pointing to it. A thread that was blocked on the descriptor
   then runs the after thunk of `block-on-io-descriptor`, whose `delete-tentry!`
   unlinks the same dentry again, with its old neighbours: registrations made by
   other threads since are dropped from the list while their descriptors stay in
   the poll set. The comment at `thread.scm:644` promises that only the own
   registration is withdrawn.
3. `gc_shared`. `queue_ephemerons_for_key` goes on from the link it has just rewritten
   (`gcloop.c:883`), which by then is a link of the queue. Of two ephemerons of one key the
   second stays in the table. If the key was reached through the datum of a third
   ephemeron, it is never queued, and its datum still points into the old heap when the
   collection is over: `DataKept`, which is the promise of the comment at `gcloop.c:131`, is
   violated. If the main pass has found the key, the first loop of `scan_ephemerons` calls
   the procedure for each of the two, and the second call exchanges the two in the queue
   for ever: `Finishes` of the run `gc` says that a collection ends unless this has happened
   (`Endless`), and that then it never does.

### Other behaviour met while modelling

The models contain the following behaviour of the code; the properties are stated so
as to allow it where they would otherwise exclude it. Each was seen in a
counterexample of a stronger property. Lines are of the commit modelled.

* `condvar.scm:138`: a waiter that runs between the signal and its mark finds itself not
  done, uses the event up and suspends again, and the mark that follows wakes nobody. A
  barrier can hang this way. `WaitersInv` says only that the list is right; the lost
  wakeup is in the model and no property excludes it.
* `condvar.scm:96`: the timeout test holds before the timeout, so a timed wait
  returns at its first wakeup and never because of the time.
* `thread-queue.scm:277`: `push!` on a full queue with a limit of one runs off the list;
  it is an error that leaves the queue as it was (`PushFails`).
* `lookup.c:1150`: linking a variable to the binding it inherits, when compiled code
  refers to it, never ends. It need not be linked directly: it is enough that both were made
  one with some other variable (workload `Aliasing`), a case that an earlier form of
  `OnlyInheritedLinksLoop` excluded and the attempt to prove it brought up.
  The property now says that the variable whose references are walked for ever is always one
  that links have joined to the one it inherits.
* `lookup.c:699`: unbinding a cached global variable leaves its UUO links, so compiled
  code goes on calling the procedure (workloads `Calling`, `Unbinding`). `lookup.c:609`: so does
  linking a target that has a cache to a source of another value, for the operators in the
  target's list (`Retargeting`). The comment at `lookup.c:903` says that UUO links are kept in
  step; these are the only two steps that leave one behind: `OperatorsAgree` names the states
  and `OperatorsFollow` the steps, and says that every other step puts right the links whose
  variable it changes. `lookup.c:469`: an argument that was
  unbound and is defined again does not get its references back.
  `lookup.c:583`: a source that is cached but unbound is accepted by `link_variables`.
  `lookup.c:653`: after linking, a reference list can have two entries for one name, of
  which only the first is found; `RecordsInv` asks for the entry only without links, and no
  workload goes on to use such a list. `lookup.c:665`: a global variable that links have made
  one with another and that is unbound, which makes its symbol weak, can be bound again
  through the other, and the symbol stays weak. This is the one exception in
  `BoundSymbolsHeld`.
  `lookup.c:1176`: `move_ref_pair_p` looks at the block's environment for a global operator
  reference too, so a definition in a frame around the block takes the reference away from
  the global variable. `lookup.c:920`: a search that ends at the null environment finds no
  cell, so the reference gets a cache that belongs to no binding and that no later definition
  of its name can find. The blocks of `MCLookup` are inside the global environment, and those with
  global operator references directly in it.
* `bignum.c:657`: the comment in `bignum_to_double` promises rounding to even. Two cases are
  different, and `ToDoubleExact` says exactly which and how: where a digit is longer than the
  significand (64 bits) and the first digit has just its bits, the guard bit is not found and
  the integer is truncated (`GuardMissed`); where it is not (32 bits), in a halfway case
  whose guard bit is the first of the last digit and whose even neighbour is below, the
  function returns before it scales by that digit (`bignum.c:674`, `LeftUnscaled`).
  `object.h:379`: where the significand is not longer than a fixnum (64 bits) the limit of
  `DOUBLE_TO_FIXNUM_P` is rounded, and the double of the smallest fixnum becomes a bignum, which
  is not canonical; `AlwaysCanonical` allows this bignum only. `bignum.c:768`:
  `bignum_fits_in_word_p` accepts `RADIX - 1` integers below the smallest long, those with its
  first digit, and they are converted wrongly; `WordsExact` says that there are no others.
  `artutl.c:708`: a fixnum is shifted right by `n1 >> m` for any `m`, undefined from the
  length of the word on. `intprm.c:237`: a right shift by a bignum returns 0, for negative
  integers too. `ShiftsExact` is about the other shifts.
* `uxproc.c:714`: the handler finds a process by its id alone, first slot first, so with an id that the kernel
  has given again the wrong slot is told; the run has `Recycle = FALSE`. `uxproc.c:195`: the
  kill of an aborted allocation comes after the mask was restored. `uxproc.c:606`: `waitpid` does not report that a child was continued, so after a plain
  SIGCONT of `subprocess-signal`, or one from outside, the table says `stopped` until the next
  change and `process_wait` returns at once for a process that runs.
  `WaitReturnsWhenNotRunning` is therefore about the continue operations: a status from before
  one of them does not end a wait after it.
  `process.scm:198`: a thread that waits for a subprocess that another one deletes
  is never told (`DeadIsNoticed` excludes it). `uxproc.c:453`: the test for a
  valid process number admits the size of the table itself.

## 4. The proofs

Every invariant and every action property that a run checks of `Threads`, `CondVar`,
`ThreadBarrier`, `ThreadQueue`, `Subprocess`, `CopyGC`, `IORegistrations` and `Lookup` is a
theorem (three of those of `Lookup` for the programs described there; `OperatorsFollow` is only
checked), and so are the
refinements of `FifoLock` by `Threads` and of `IOWaiters` by `IORegistrations`. A proof
module names its inductive invariant in a comment; the parts of it that TLC can evaluate
were checked on the instance of the run before they were proved. The
pattern is the same everywhere: lemmas on the sequences and records that the actions
write, a lemma that says which of a few *moves* an action makes on the variables in
question, and one that each move keeps the invariant.

### The scheduler

For arbitrary `Thread`, `Mutex`, `Events`, `Delays`, `Intervals`, `Ops` and bounds, from
the one assumption `ConstantsAssumption` (`FirstThread` is a thread; `None` is neither a
thread nor a mutex; times and bounds are natural numbers; `Events` are events). No bound is
used in a proof but to know its type.

* `ThreadsProofs!TypeSafety`: `Spec => []TypeOK`. `TypeOK` is not inductive: most
  steps of the thread system speak of `Head(runQueue)`, which is a thread only if
  the queue is not empty. The invariant is `TypeInv == TypeOK /\ KernelHasThread`:
  an uninterruptible step is a step of a current thread, except the delivery of
  timer records while idle. The proof has one step per action, with a lemma for
  each of the shared pieces (`MaybeToggleThreadTimer`, `ThreadNotRunning`,
  `YieldThread`, `SignalThread`, `HandOver`, `AddTimerRecord`).
* `ThreadsProofs!RunQueueCorrect`: `Spec => []RunQueueInv`. Inductive relative
  to `TypeInv`. Every action makes one of four moves on the run queue: it leaves
  it alone, takes the current thread off, appends a thread that was not in a
  running state, or rotates it (`NextQueueStep`); each move preserves the invariant.
* `ThreadsProofs!DeathIsFinal`: `Spec => DeadStaysDead`, from the same moves:
  the current thread is not dead, and a thread that is appended is not dead.
* `ThreadsProofs!NoWakeupLost`: `Spec => []NoLostWakeup`. The inductive
  invariant `WakeInv` adds `SuspendReady` (between the decision to suspend and the
  test for pending events the events are not blocked, and the mutex is not owned),
  `LockWants` and `LockLoop` (a thread in the loop of `%lock-thread-mutex` wants a
  mutex). Every action leaves a thread that waits afterwards either undisturbed, or
  is the one step that makes the current thread wait; a thread that is signalled
  or handed a mutex does not wait afterwards, because `Wakes` held for it by the
  invariant itself. `RunQueueCorrect` is used to know that a waiting thread is
  not the current one.
* `ThreadsProofs!MutexSafety`: `Spec => []MutexInv`. `MutexIInv` adds that the list
  of mutexes of a thread names each once, without which the loop of
  `exit-current-thread` could give one up and leave it on the list, and that this list
  is empty when the loop is over.
* `ThreadsProofs!MutexesAreFifo`: `Spec => FifoSpec`. With the mapping
  `queue <- waitingThreads` every step is one of lock, wait, hand over, give up a place,
  or a stutter. `MutexIInv` is what makes the hand-over of an exiting thread a step of
  `FifoLock`: it owns the mutex or waits in its ring, never both.
* `ThreadsProofs!ExitSafety`: `Spec => []ExitInv`. `JoinSymmetry` fails inside
  `release-joined-threads`, which goes through the list one thread at a time;
  `JoinInv` says what holds there instead (those that still name the thread that exits are
  among those still to be released). While an exiting thread takes its joins back it may still
  name a thread it has joined twice, whose list does not name it any more (`TakingBack`). What
  `delq!` leaves of a list with repetitions (`WithoutAllElements`) rests on counting the
  elements before each place (`OthersCount`) and on the least place where the count reaches a
  number. `ForgottenInv` says after which clean-up loop the
  timer records, the joins and the mutexes of the exiting thread are gone.
* `ThreadsTimerProofs!ContinuationCorrect`: `Spec => []ContinuationInv`, with
  `ContinuationIInv`, which fixes the continuation also while timer records are delivered.
  `run-thread` never finds `thread/continuation` to be `#f`; no run checks it besides.
* `ThreadsTimerProofs!BlockedEventsStay`: `Spec => BlockedEventsWait`, from
  `HandleAllowed`: `handle-thread-events` is entered only for a thread whose events are
  not blocked, or to unblock them.
* `ThreadsTimerProofs!SleepersWake`: `Spec => []SleeperHasAlarm`. `SleepIInv` adds that a
  stopped thread is not inside a procedure (`restart-thread` may discard its pending
  events) and that records are discarded only for a thread that exits or that asks for it.
* `ThreadsTimerProofs!TimerAlwaysArmed`: `Spec => []TimerArmed`. `Armed` extends the
  property to the uninterruptible points from which an interruptible one is reached
  without another `%maybe-toggle-thread-timer`; it needs the records to be in order,
  since the code sets the timer for the first one only.

### The I/O registrations

For any threads, descriptors and number of registrations (`IOAssumption`), and programs that
close no descriptor in use (`Spec`): finding 2 shows that the properties fail for the others.

* `ListsHold`: `Spec => []ListsInv`; `RegistrationsHold`: `Spec => []RegistrationsInv`;
  `WaitersRefined`: `Spec => WaitersSpec`.

`ListsInv` is not inductive: that every pointer back undoes a pointer forward says nothing of
cells outside the lists, and a list that is locally right could still be a ring. What is
inductive is an order that the code keeps without knowing of it. A tentry is put at
the end of a list and a dentry at the beginning, so numbers ascend along tentries and
descend along dentries, and deleting keeps it so. `ListsOK` says this of each pointer by
itself: `next` of a tentry is the least number above it among the tentries that name the
same dentry, `first` the least of them, `last` the greatest, and the same downwards
for the dentries that some tentry names. No chain is followed in the invariant; each piece
of surgery is a change of a set of numbers by one element (`Types`, `Cleared`, `TentryOK`,
`DentryOK`), and that what a loop meets is exactly this set (`FromUp`, `FromDown`) is a
least-counterexample argument (`WFMin`) done once. `ThreadsOK` ties the lists
to the threads: the registration in a frame or in a variable is linked for that thread or
cleared, a linked one is in a frame or a variable of a thread that has not exited, and while a
thread exits, `doomed` is what it still has. For the refinement, the first
tentry of a dentry is the lowest number of all registrations for the descriptor and mode
because no two dentries are for the same ones (`Distinct`).

### The synchronisers

* `SyncProofs!WaitersCorrect`: `Spec => []WaitersInv` of `CondVar`, for any threads,
  mutexes and clients that call it as `CondVar` describes. `CondVarIInv` has the lock
  (`LockInv`: whoever works on the list owns the lock, whoever waits for the lock
  waits for the right one) and the list (`ListInv`: a signaller that is interrupted
  between its three changes still finds the same waiter at the head, marked).
* `SyncProofs!BarrierCorrect` and `BarrierWaitersCorrect`: `BarrierSpec => []BarrierInv` and
  `BarrierSpec => []WaitersInv`, from `BarrierAssumption`: a barrier is made for all
  threads that call it (`Count = Cardinality(Thread)`). The invariant counts those who
  have arrived in this generation, and says that a thread is at most one
  generation behind.
* `ThreadQueueProofs!QueueCorrect`: `QueueSpec => []QueueInv`, for any programs.
* `ThreadQueueProofs!ItemsAreDelivered`: `QueueSpec => []ItemsDelivered`. `DeliveryIInv` says that,
  without `push!`, `items` is a suffix of the history `sent` and what a thread has
  received lies before it in the same order. The histories can say that an item arrives
  once only if items can be told apart: `WorkloadAssumption` gives every sending call
  an item of its own. The code never looks at an item, so this loses nothing.

### The subprocesses

For any children, slots, signals and bound on the ticks (`SubprocessAssumption`). The invariant
`Base` ties the pid, the raw status, the ticks and the object of each slot to where the
Scheme process is; its part on ticks counts those that are due, as the bound does. Nearly
all of the work is in showing that it survives the handler between any two assignments.
Every step then has one of six effects (`Effects`): the table is left alone, a slot is
emptied, filled, copied to its object, continued, or changed by a report of `waitpid`.

* `TableCorrect`: `Spec => []TableInv`, and `NoChangeIsMissed`: `Spec => []NoChangeMissed`,
  without further assumptions. The second is the half of `ChangesNoticed` that the sleep
  in `ppoll` relies on.
* `SignalsReachChildren` and `ChangesAreNoticed`: `Spec => []NoSignalToReaped` and
  `Spec => []ChangesNoticed` if `~Recycle`. The invariant `PidsInv` (a pid is in one
  slot, and freed exactly if that slot is dead) is false when the kernel gives a pid
  again that is still in the table, and so are the properties: `find_process` takes the
  first slot with the pid. The kernel counts through all pids before it gives one
  again, but nothing in the code excludes it, so it is a hypothesis of the theorems.
* `WaitsAreRight`: `Spec => WaitReturnsWhenNotRunning` if `~Recycle`, for any `Signals`, SIGCONT
  included. A child that the program made run is `running` until it stops or dies, which a tick
  of its slot follows; one that was continued in another way is `resumed`, and the table's
  `stopped` is then of a stop that came after the last continue operation.

### The variables

For any finite or infinite sets of environments, symbols, values, blocks and sites, any tree of
environments and any workloads, from `EnvAssumption`: every chain of environments ends, and
the special objects are not values.

Three properties are false of some programs (the cases are in section 3, at the lines named
there), so they are proved of the others, which `Tame` describes: no links (`lookup.c:609`,
`lookup.c:653`), no unbinding of parameters (`lookup.c:469`) or of variables that compiled code
calls (`lookup.c:699`), blocks inside the global environment (`lookup.c:920`), and
global operator references only in blocks directly in it (`lookup.c:1176`). The workload
`Defining` of `MCLookup` is one; a `Tame` program may also unbind what compiled code reads and
assigns.

* `ReferencesNeverStale`: `Spec => [](Tame(load) => ReferencesAgree)`; `AssignmentsReach`, the
  same for `AssignmentsReachBinding`; `RecordsHold`, the same for `RecordsInv`.

The inductive invariant is `Good(heap, w)` for some function `w` from sites to caches, which is
not part of the state: `w[s]` is the cache that serves site `s`. Then the site is in the list
of that cache and in no other (`Recorded`, `OnlyRecorded`), it holds what `install_cache` would
put there now (`Installed`), the cache is that of the cell that a search from the site finds
(`Tied`), a cache with calls and assignments has its clone (`AllClones`), and no two cells have the
same cache (`CellsOK`). Each operator of `lookup.c` is given a lemma on what it does to `w`
and to the bindings: a definition that shadows a binding moves exactly the sites for which a
search now stops earlier (`Movers`, `Moved`), and unbinding moves them back. In the middle of an
operation some sites still hold the old cache; `HeapOK` has them as a parameter. The search
through the environments is never unrolled: `Enclosing` is the least set closed under
`Parent`, the search stops at the first environment in it where it can (`SearchStops`), and
both are used by giving a closed set of one's own in place of an induction
(`EnclosingLeast`). The loop of `WALK_REFERENCES` is a recursive function; what the proofs
need of it (`KeptOK`: the same sites under the same names) is a least-counterexample argument.

Two properties are theorems of every program, with links and unbinding:

* `LoopsOnlyInherited`: `Spec => []OnlyInheritedLinksLoop`, and `SymbolsHeld`:
  `Spec => []BoundSymbolsHeld`. Their invariant is `Anywhere` (`CachesShared`:
  `Spec => []Anywhere`). Its core, `Sound`, says that two cells have one cache only if links
  have joined their variables (`Joined`, the least equivalence that has the links) and that the
  cache of a cell is never taken for free. A walk is endless only if the
  binding of a frame and the binding of the same name around it have one cache, and these are
  then two variables that links have joined. For the symbols there are two arguments. `Held`: as
  long as the program unbinds no variable of that name, a global cell that is in use has a
  strong symbol, because symbols are only made stronger. `Firm`: a symbol whose global variable
  is one with no other (`Lone`) is strong whenever that variable is bound (`Gone` is when it is
  not), because each primitive makes strong the symbol it binds and weak only the one it
  unbinds (`Steady`), and no assignment through another variable's cache can bind it.

### The collector

For any finite set of objects of any kinds, any hash function, roots and heaps
(`HeapAssumption`), ephemerons of one key included.

* `ScanCorrect`: `Spec => []ScanInv`, and `CollectionCorrect`: `Spec => []CopyIsCorrect`. Without a
  `Crowd` (no two ephemerons were copied before one live key of theirs) exactly what is live is
  copied; with one, nothing that is dead is, and the data of the crowd are the only words that
  may be left as they were. What is live is
  defined as the least set that has what the roots point to and is closed
  (`Live`), without reference to the way the collector finds it.

The inductive invariant `IInv` has four parts. *Copies*: every place of tospace holds
the copy of one object (`Placement`), whose words are the old ones or point to the copies
of what those pointed to, apart from hidden cars and waiting ephemerons (`Content`, `Direct`,
`RootsOK`). *Position*: where each loop may be (`ScanOK`, `CallOK`) and that what it has
passed is clean (`ScannedIsClean`). *Liveness of the copied*: `LiveOK`; an object is
copied only because a live one holds it. *Ephemerons* (`TableOK`): there are a set `T` and
a sequence `qs` such that the chains of the hash table hold `T`, each in descending
order of place, the queue holds `qs` in reverse, and every ephemeron whose datum was not
scanned is in one of them; those in `T` have keys that are not known to be live, or that the first loop has
still to look at, or that another ephemeron has too (`Shared`). A walk has not passed the
first one it looks for, or it has moved one and is in the queue, where whatever it meets
and moves again was in `qs` already, so that `T` and the elements of `qs` stay. Chains are
described by these witnesses, never by following links, so no recursive definition
is needed: that a walk down a chain meets every ephemeron of its bucket is the order of places, and
that the queue reaches all of `qs` (the least set `Queued`) is a least-counterexample
argument (`WFMin`). At the end the table holds only ephemerons of dead keys and the
queue is empty (or of a crowd), so the copied objects are closed and have the roots, hence contain `Live`;
`LiveOK` is the other inclusion.

### What is only model-checked

Liveness (`ReadyRuns`, `SleepEnds`, `CallsReturn`, `LockIsHandedOver`, `Finishes`,
`DeadIsNoticed`), which is out of reach of the prover. `OperatorsFollow`. `ReferencesAgree`,
`AssignmentsReachBinding` and `RecordsInv` of programs that link variables, which hold on the
workloads of `MCLookup` and not of all programs. `Bignum` and `IntegerOps`, recursive over
digits: what such a function computes takes an induction that these provers cannot
instantiate. They are checked on every operand of a small machine instead.

## 5. What is not modelled

* in `thread.scm`: SMP (`enable-smp?`, on which only a lock around the obarray depends), the floating-point
  environment and the time accounting of threads, `start-thread-timer` and
  `stop-thread-timer`, the after thunks that an exiting thread runs
  (`translate-to-state-point`, `thread.scm:472`), errors signalled for wrong arguments and for recursive
  locking, the `with-…` forms (uses of the modelled procedures), event handlers that
  call the thread system themselves other than by exiting, and
  `permanently-register-io-thread-event`;
* in the condition variables: an event that leaves a wait by an escape, or ends its thread,
  inside `suspend-current-thread` (`condvar.scm:101` is not under a `dynamic-wind`, so the
  waiter would stay linked);
* in the I/O part: the mode `READ/WRITE` of a registration, several descriptors in
  one poll (they are several steps), and descriptors that become invalid without
  `channel-close`;
* in the subprocesses: the child's side of the fork, terminals and job control, the
  channels and ptys, synchronous subprocesses, the growth of the table;
* in the collector: objects of other shapes than two words (they are scanned the same
  way), compiled-code blocks, purification, the allocation of the ephemeron array;
* in the variables: the interpreter's part of the traps, `lookup` of macros as syntax,
  and the instruction-level layout of caches and UUO links;
* in the integers: rationals, flonums and the number parser above them; the assembly
  language multiplications;
* the compositions: `Threads` has no registered I/O event, `IORegistrations` and
  `Subprocess` have a thread's view of the scheduler only, and `Suspension` stands for `Threads` by
  its properties, not by a refinement;
* the interpreter, whose specification would be the semantics of Scheme itself; the
  compiler, `sf` and the syntaxer, which transform programs of unbounded size; the glue
  to operating systems, X11, Windows and plug-ins, which keeps little state of its
  own and whose other side is not in the repository; `v8/`, an older copy of the same
  microcode; Edwin and IMAIL. These are the bulk of the repository's lines. The components
  marked `not_modelled` in `PROJECT.json` give the reason for each.

## 6. Plan

Done: `Threads`, `FifoLock`, `IORegistrations`, `IOWaiters`, `Suspension`, `CondVar`,
`ThreadBarrier`, `ThreadQueue`, `Subprocess`, `Lookup`, `CopyGC`, `Bignum`, `IntegerOps`; the
proofs of all safety properties of `Threads`, of `IORegistrations`, of the synchronisers, of
`Subprocess`, of `CopyGC` and, within the limits said above, of `Lookup`, and of the two
refinements.

Theorems worth proving next: for `Lookup`, which links keep `ReferencesAgree`; for `IntegerOps`,
the operations on fixnums.

Modules worth writing next: weak hash tables (`hashtb.scm`) against the collector;
finalizers (`gcfinal.scm`); state points (`wind.scm`);
`permanently-register-io-thread-event` as actions of `IORegistrations`; and a
refinement of `Suspension` by `Threads`.
