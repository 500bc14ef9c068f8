----------------------------- MODULE Subprocess -----------------------------
(***************************************************************************)
(* Subprocesses: the process table of microcode/uxproc.c, the handler of   *)
(* SIGCHLD in microcode/uxsig.c that fills it asynchronously, safe_poll of *)
(* microcode/uxio.c that sleeps until it has changed, and runtime/         *)
(* process.scm, which copies the table to subprocess objects and tells the *)
(* threads that wait.                                                      *)
(*                                                                         *)
(* A child is a member of Pid; waitpid(2) frees its pid.  SIGCHLD does not *)
(* queue: `sigchld` says that one is pending.  The handler interrupts the  *)
(* Scheme process between any two steps at which it is not masked.  There  *)
(* is one subprocess object per slot of the table and at most one thread   *)
(* that waits for it; the other threads are free to call any operation     *)
(* when pc is "scheme".                                                    *)
(***************************************************************************)
EXTENDS Integers, FiniteSets, FiniteSetsExt

CONSTANTS
  Pid,       \* the process ids of the children
  NSlots,    \* OS_process_table_size, which is 64; it does not grow here
  MaxTick,   \* bound on process_tick
  Recycle,   \* may a new child get the pid of one that is still in the table?
  Signals,   \* the signals that subprocess-signal and its relatives send
  Watched    \* bound: the slots whose subprocess a thread waits for or puts in the foreground

ASSUME SubprocessAssumption ==
  /\ NSlots \in Nat \ {0} /\ MaxTick \in Nat /\ Recycle \in BOOLEAN
  /\ Signals \subseteq {"SIGKILL", "SIGTSTP", "SIGCONT"}
  /\ 0 \notin Pid
  /\ Watched \subseteq 0 .. NSlots - 1

VARIABLES
  child,        \* pid -> state of that process in the kernel; "resumed" if it runs again after
                \* a stop that none of the continue operations has ended
  unreported,   \* the pids that waitpid would report
  sigchld,      \* SIGCHLD is pending
  handling,     \* the handler is running
  table,        \* the process table
  process_tick, sync_tick,
  pc,           \* where the Scheme process is
  cur,          \* the slot it is working on
  signo,        \* the signal it is about to send
  todo,         \* the subprocesses that handle-subprocess-status-change has not polled
  subs,         \* slot -> (subprocess-status process), or None
  reg,          \* slot -> status of the registration of the waiting thread, or None
  waiting,      \* slot -> the thread in subprocess-wait
  result,       \* slot -> result in subprocess-wait
  fg            \* the slot of subprocess-continue-foreground, or NSlots

os == <<child, unreported, sigchld, handling>>
ticks == <<process_tick, sync_tick>>
runtime == <<subs, reg, waiting, result, fg>>
vars == <<os, table, ticks, pc, cur, signo, todo, runtime>>

None == "none"
Slot == 0 .. NSlots - 1
Live == {"running", "stopped"}
Dead == {"exited", "signalled"}
RawStatus == Live \cup Dead \cup {"free", "allocated"}
ProcessStatus == Live \cup Dead
Running == {"running", "resumed"}
ChildStatus == ProcessStatus \cup {"resumed", "free"}
Places == {"scheme", "fork", "terminal", "object", "wait", "send", "abort", "abort-kill",
           "dealloc", "poll", "sleep", "ppoll", "polled", "hsc"}

\* UX_initialize_processes.
Init ==
  /\ child = [p \in Pid |-> "free"] /\ unreported = {} /\ sigchld = FALSE /\ handling = FALSE
  /\ table = [s \in Slot |-> [id |-> 0, raw |-> "free", status |-> "free", tick |-> 0, sync |-> 0]]
  /\ process_tick = 0 /\ sync_tick = 0
  /\ pc = "scheme" /\ cur = 0 /\ signo = None /\ todo = {}
  /\ subs = [s \in Slot |-> None] /\ reg = [s \in Slot |-> None]
  /\ waiting = [s \in Slot |-> FALSE] /\ result = [s \in Slot |-> None] /\ fg = NSlots

-----------------------------------------------------------------------------
(* The kernel.                                                              *)

\* The bound on process_tick, counting the ticks that are due: a report for each
\* unreported child, and one for the signal that is being sent.
Sending == pc \in {"fork", "terminal", "abort", "abort-kill", "send"}
TickLeft == process_tick + Cardinality(unreported) + (IF Sending THEN 1 ELSE 0) < MaxTick

\* A child changes state: waitpid will report it, and SIGCHLD becomes pending.
Changes(p, state) ==
  /\ child' = [child EXCEPT ![p] = state]
  /\ unreported' = unreported \cup {p}
  /\ sigchld' = TRUE
  /\ UNCHANGED handling

\* A stopped child goes on: there is no stop to report any more, though SIGCHLD may
\* come.
GoesOn(p) ==
  /\ child' = [child EXCEPT ![p] = "resumed"]
  /\ unreported' = unreported \ {p}
  /\ sigchld' \in {sigchld, TRUE}
  /\ UNCHANGED handling

\* Any process may continue a stopped child.  Bound: one that is in the table and whose
\* stop was reported; SIGCONT from the program itself may come sooner.
ChildChanges(p) ==
  /\ \/ /\ TickLeft /\ child[p] \in Running
        /\ \E state \in {"exited", "signalled", "stopped"} : Changes(p, state)
     \/ TickLeft /\ child[p] = "stopped" /\ Changes(p, "signalled")
     \/ /\ child[p] = "stopped" /\ p \notin unreported /\ \E s \in Slot : table[s].id = p
        /\ GoesOn(p)
  /\ UNCHANGED <<table, ticks, pc, cur, signo, todo, runtime>>

\* kill(2).
UX_kill(p, sig) ==
  IF sig = "SIGKILL" /\ child[p] \in Running \cup {"stopped"} THEN Changes(p, "signalled")
  ELSE IF sig = "SIGTSTP" /\ child[p] \in Running THEN Changes(p, "stopped")
  ELSE IF sig = "SIGCONT" /\ child[p] = "stopped" THEN GoesOn(p)
  ELSE UNCHANGED os

-----------------------------------------------------------------------------
(* The handler of SIGCHLD.                                                  *)

\* Mutant: OS_process_send_signal does not block SIGCHLD.
NotMaskedToSend == pc \in {"fork", "terminal", "poll", "sleep"}

\* Mutant: safe_poll tests for a status change before it blocks the signals.
NotMaskedToPoll == pc \in {"fork", "terminal", "send"}

\* Where block_sigchld, block_jc_signals or safe_poll have blocked SIGCHLD;
\* sigsuspend ("wait") and ppoll ("ppoll") let it in again.
Masked == pc \in {"fork", "terminal", "send", "poll", "sleep"}

sighnd_dead_subprocess ==
  /\ sigchld /\ ~handling /\ ~Masked
  /\ sigchld' = FALSE
  /\ handling' = TRUE
  /\ UNCHANGED <<child, unreported, table, ticks, pc, cur, signo, todo, runtime>>

find_process(p) == {s \in Slot : table[s].id = p /\ \A r \in 0 .. s - 1 : table[r].id # p}

\* NEW_RAW_STATUS.
NewRawStatus(t, s, status) ==
  [t EXCEPT ![s] = [@ EXCEPT !.raw = status, !.tick = process_tick + 1]]

\* Mutant: the change of status does not count.
subprocess_death_quiet(p) ==
  /\ table' = [s \in Slot |-> IF s \in find_process(p) THEN [table[s] EXCEPT !.raw = child[p]] ELSE table[s]]
  /\ UNCHANGED process_tick

subprocess_death(p) ==
  IF find_process(p) = {} THEN UNCHANGED <<table, process_tick>>
  ELSE /\ table' = NewRawStatus(table, CHOOSE s \in find_process(p) : TRUE, child[p])
       /\ process_tick' = process_tick + 1

Waitpid(p) ==
  /\ handling
  /\ p \in unreported
  /\ unreported' = unreported \ {p}
  /\ child' = [child EXCEPT ![p] = IF @ \in Dead THEN "free" ELSE @]
  /\ subprocess_death(p)
  /\ UNCHANGED <<sigchld, handling, sync_tick, pc, cur, signo, todo, runtime>>

\* The handler returns: sigsuspend and ppoll return with EINTR.
HandlerReturns ==
  /\ handling /\ unreported = {}
  /\ handling' = FALSE
  /\ pc' = IF pc = "ppoll" THEN "polled" ELSE pc
  /\ UNCHANGED <<child, unreported, sigchld, table, ticks, cur, signo, todo, runtime>>

-----------------------------------------------------------------------------
(* Primitives of microcode/prosproc.c.                                      *)

\* Scheme code is running, and not interrupted by the handler.
Scheme == pc = "scheme" /\ ~handling
At(place) == pc = place /\ ~handling

Goto(place, s) == pc' = place /\ cur' = s

\* process_allocate takes the first free slot.
process_allocate(s) ==
  /\ Scheme
  /\ TickLeft
  /\ table[s].raw = "free" /\ \A r \in 0 .. s - 1 : table[r].raw # "free"
  /\ table' = [table EXCEPT ![s].raw = "allocated"]
  /\ Goto("fork", s)
  /\ UNCHANGED <<os, ticks, signo, todo, runtime>>

\* Mutant: PROCESS_STATUS_SYNC before the raw status is assigned.
NewProcessSyncedEarly(s, p) ==
  [id |-> p, raw |-> "running", status |-> table[s].raw, tick |-> process_tick, sync |-> process_tick]

NewProcess(s, p) ==
  [id |-> p, raw |-> "running", status |-> "running", tick |-> process_tick, sync |-> process_tick]

\* vfork, with SIGCHLD blocked; in the foreground the terminal is next.
OS_make_subprocess(p) ==
  /\ At("fork")
  /\ child[p] = "free"
  /\ ~Recycle => \A s \in Slot : table[s].id # p
  /\ child' = [child EXCEPT ![p] = "running"]
  /\ table' = [table EXCEPT ![cur] = NewProcess(cur, p)]
  /\ \E place \in {"object", "terminal"} : Goto(place, cur)
  /\ UNCHANGED <<unreported, sigchld, handling, ticks, signo, todo, runtime>>

\* Mutant: the slot is free before its pid is forgotten.
DeallocatedBackwards(t, s, n) == [t EXCEPT ![s] = IF n = 1 THEN [@ EXCEPT !.raw = "free"] ELSE [@ EXCEPT !.id = 0]]

\* The assignments of OS_process_deallocate: the handler may run between them.
Deallocated(t, s, n) == [t EXCEPT ![s] = IF n = 1 THEN [@ EXCEPT !.id = 0] ELSE [@ EXCEPT !.raw = "free"]]

\* vfork has failed: the transaction is aborted, and its actions run in the
\* reverse order of their recording, process_allocate_abort after the mask is
\* restored.  So they do when tcsetpgrp fails in give_terminal_to.
MakeFails ==
  /\ At("fork") \/ At("terminal")
  /\ Goto("abort", cur)
  /\ UNCHANGED <<os, table, ticks, signo, todo, runtime>>

process_allocate_abort ==
  /\ At("abort")
  /\ IF table[cur].raw \in Live
     THEN Goto("abort-kill", cur) /\ UNCHANGED table
     ELSE table' = Deallocated(table, cur, 1) /\ Goto("dealloc", cur)
  /\ UNCHANGED <<os, ticks, signo, todo, runtime>>

AbortKill ==
  /\ At("abort-kill")
  /\ IF table[cur].id = 0 THEN UNCHANGED os ELSE UX_kill(table[cur].id, "SIGKILL")
  /\ table' = Deallocated(table, cur, 1)
  /\ Goto("dealloc", cur)
  /\ UNCHANGED <<ticks, signo, todo, runtime>>

\* The child has the terminal; process_wait is next.
give_terminal_to ==
  /\ At("terminal")
  /\ Goto("wait", cur)
  /\ UNCHANGED <<os, table, ticks, signo, todo, runtime>>

\* OS_process_wait.
OS_process_wait(s) ==
  /\ Scheme /\ subs[s] # None
  /\ Goto("wait", s)
  /\ UNCHANGED <<os, table, ticks, signo, todo, runtime>>

\* process_wait returns: the status has changed, or an interrupt is pending.
\* A subprocess that is being made has no object yet.
WaitReturns ==
  /\ At("wait")
  /\ table[cur].raw # "running"
  /\ Goto(IF subs[cur] = None THEN "object" ELSE "scheme", cur)
  /\ UNCHANGED <<os, table, ticks, signo, todo, runtime>>

WaitInterrupted ==
  /\ At("wait")
  /\ Goto(IF subs[cur] = None THEN "object" ELSE "scheme", cur)
  /\ UNCHANGED <<os, table, ticks, signo, todo, runtime>>

\* OS_process_send_signal, up to the test of the status: the others are errors.
OS_process_send_signal(s, sig) ==
  /\ Scheme /\ subs[s] # None
  /\ TickLeft
  /\ table[s].raw \in Live
  /\ Goto("send", s)
  /\ signo' = sig
  /\ UNCHANGED <<os, table, ticks, todo, runtime>>

process_send_signal ==
  /\ At("send")
  /\ UX_kill(table[cur].id, signo)
  /\ Goto("scheme", cur)
  /\ signo' = None
  /\ UNCHANGED <<table, ticks, todo, runtime>>

\* process_send_signal (process, SIGCONT) in the continue operations: if the child
\* has been continued already, it counts as continued by them.
SendContinue(p) ==
  IF child[p] \in {"stopped", "resumed"}
  THEN /\ child' = [child EXCEPT ![p] = "running"]
       /\ unreported' = unreported \ {p}
       /\ sigchld' \in {sigchld, TRUE}
       /\ UNCHANGED handling
  ELSE UNCHANGED os

\* Mutant: the raw status is left as it was.
ContinueQuietly(s) ==
  /\ IF table[s].raw = "stopped" THEN SendContinue(table[s].id) ELSE UNCHANGED os
  /\ UNCHANGED <<table, process_tick>>

\* The common part of OS_process_continue_background and _foreground.
Continue(s) ==
  IF table[s].raw = "stopped"
  THEN /\ table' = NewRawStatus(table, s, "running")
       /\ process_tick' = process_tick + 1
       /\ SendContinue(table[s].id)
  ELSE UNCHANGED <<table, process_tick, os>>

OS_process_continue_background(s) ==
  /\ Scheme /\ subs[s] # None
  /\ TickLeft
  /\ table[s].raw \in Live
  /\ Continue(s)
  /\ UNCHANGED <<sync_tick, pc, cur, signo, todo, runtime>>

\* PROCESS_STATUS_SYNC, when the ticks differ.
Synced(t) == IF t.tick = t.sync THEN t ELSE [t EXCEPT !.status = t.raw, !.sync = t.tick]

-----------------------------------------------------------------------------
(* runtime/process.scm.                                                     *)

\* The rest of make-subprocess: the object, and poll-subprocess-status.
make_subprocess ==
  /\ At("object")
  /\ table' = [table EXCEPT ![cur] = Synced(@)]
  /\ subs' = [subs EXCEPT ![cur] = table[cur].raw]
  /\ Goto("scheme", cur)
  /\ UNCHANGED <<os, ticks, signo, todo, reg, waiting, result, fg>>

\* subprocess-delete and the finalizer of a subprocess that was dropped.  A
\* thread that waits loses its registration and is not followed any further: it
\* is never woken.  Nor is one in subprocess-continue-foreground, whose next call of
\* the primitive is an error.
subprocess_delete(s) ==
  /\ Scheme /\ subs[s] # None
  /\ subs' = [subs EXCEPT ![s] = None]
  /\ reg' = [reg EXCEPT ![s] = None]
  /\ waiting' = [waiting EXCEPT ![s] = FALSE]
  /\ result' = [result EXCEPT ![s] = None]
  /\ table' = Deallocated(table, s, 1)
  /\ fg' = IF fg = s THEN NSlots ELSE fg
  /\ Goto("dealloc", s)
  /\ UNCHANGED <<os, ticks, signo, todo>>

OS_process_deallocate ==
  /\ At("dealloc")
  /\ table' = Deallocated(table, cur, 2)
  /\ Goto("scheme", cur)
  /\ UNCHANGED <<os, ticks, signo, todo, runtime>>

\* subprocess-continue-foreground: the primitive, in a loop while the status
\* of the object, which is not polled, is RUNNING.  PROCESS-CONTINUE-FOREGROUND
\* refuses a process that is dead.
subprocess_continue_foreground(s) ==
  /\ Scheme /\ subs[s] # None /\ fg = NSlots
  /\ fg' = s
  /\ UNCHANGED <<os, table, ticks, pc, cur, signo, todo, subs, reg, waiting, result>>

OS_process_continue_foreground ==
  /\ Scheme /\ fg # NSlots
  /\ TickLeft
  /\ table[fg].raw \in Live
  /\ Continue(fg)
  /\ Goto("wait", fg)
  /\ UNCHANGED <<sync_tick, signo, todo, runtime>>

ForegroundReturns ==
  /\ Scheme /\ fg # NSlots
  /\ subs[fg] # "running" \/ table[fg].raw \in Dead
  /\ fg' = NSlots
  /\ UNCHANGED <<os, table, ticks, pc, cur, signo, todo, subs, reg, waiting, result>>

\* Mutant: no event for a subprocess that has changed before.
ImmediateNone(s) == None

\* The immediate event of register-subprocess-event.
Immediate(s) == IF subs[s] # "running" THEN subs[s] ELSE None

\* subprocess-wait, which registers with the status RUNNING.
subprocess_wait(s) ==
  /\ Scheme /\ subs[s] # None /\ ~waiting[s]
  /\ waiting' = [waiting EXCEPT ![s] = TRUE]
  /\ reg' = [reg EXCEPT ![s] = subs[s]]
  /\ result' = [result EXCEPT ![s] = Immediate(s)]
  /\ UNCHANGED <<os, table, ticks, pc, cur, signo, todo, subs, fg>>

\* The waiting thread runs after an event.
WaiterRuns(s) ==
  /\ Scheme /\ waiting[s] /\ result[s] # None
  /\ result' = [result EXCEPT ![s] = None]
  /\ IF result[s] = "running"
     THEN UNCHANGED <<waiting, reg>>
     ELSE /\ waiting' = [waiting EXCEPT ![s] = FALSE]
          /\ reg' = [reg EXCEPT ![s] = None]
  /\ UNCHANGED <<os, table, ticks, pc, cur, signo, todo, subs, fg>>

\* OS_process_status_sync_all, called by %handle-subprocess-status-change.
StatusChanged == process_tick # sync_tick

StartSync ==
  /\ sync_tick' = process_tick
  /\ todo' = {s \in Slot : subs[s] # None}
  /\ pc' = "hsc"
  /\ UNCHANGED <<os, table, process_tick, cur, signo, runtime>>

\* poll-subprocess-status.
poll_subprocess_status(s) ==
  /\ At("hsc") /\ s \in todo
  /\ table' = [table EXCEPT ![s] = Synced(@)]
  /\ subs' = [subs EXCEPT ![s] = Synced(table[s]).status]
  /\ todo' = todo \ {s}
  /\ UNCHANGED <<os, ticks, pc, cur, signo, reg, waiting, result, fg>>

\* The events, and the registrations that are dropped.
handle_subprocess_status_change ==
  /\ At("hsc") /\ todo = {}
  /\ result' = [s \in Slot |-> IF reg[s] \notin {None, subs[s]} THEN subs[s] ELSE result[s]]
  /\ reg' = [s \in Slot |-> IF reg[s] = None \/ subs[s] \in Dead THEN None ELSE subs[s]]
  /\ pc' = "scheme"
  /\ UNCHANGED <<os, table, ticks, cur, signo, todo, subs, waiting, fg>>

\* maybe-signal-io-thread-events, at a timer interrupt: OS_test_select_registry does
\* not block.  It returns before the test of the status if a descriptor is ready, and
\* then this poll does not happen.
TimerPoll ==
  /\ Scheme
  /\ \E s \in Slot : reg[s] # None
  /\ StatusChanged
  /\ StartSync

\* wait-for-io, when no thread can run: safe_poll blocks all signals, tests for
\* a change and sleeps in ppoll, which lets the signals in.
WaitForIO ==
  /\ Scheme
  /\ \A s \in Slot : result[s] = None
  /\ fg = NSlots
  /\ Goto("poll", cur)
  /\ UNCHANGED <<os, table, ticks, signo, todo, runtime>>

safe_poll ==
  /\ At("poll")
  /\ Goto(IF StatusChanged THEN "polled" ELSE "sleep", cur)
  /\ UNCHANGED <<os, table, ticks, signo, todo, runtime>>

UX_ppoll ==
  /\ At("sleep")
  /\ Goto("ppoll", cur)
  /\ UNCHANGED <<os, table, ticks, signo, todo, runtime>>

\* A descriptor is ready or another interrupt is pending: the threads go on.
PollReturns ==
  /\ At("ppoll")
  /\ pc' = "scheme"
  /\ UNCHANGED <<os, table, ticks, cur, signo, todo, runtime>>

\* OS_test_select_registry after EINTR.
OS_test_select_registry ==
  /\ At("polled")
  /\ IF StatusChanged THEN StartSync
     ELSE pc' = "poll" /\ UNCHANGED <<os, table, ticks, cur, signo, todo, runtime>>

-----------------------------------------------------------------------------

Handler == sighnd_dead_subprocess \/ (\E p \in Pid : Waitpid(p)) \/ HandlerReturns

\* What the Scheme process goes on with by itself.
Runs ==
  \/ (\E p \in Pid : OS_make_subprocess(p)) \/ MakeFails
  \/ process_allocate_abort \/ AbortKill \/ give_terminal_to
  \/ WaitReturns \/ process_send_signal \/ make_subprocess \/ OS_process_deallocate
  \/ (\E s \in Slot : poll_subprocess_status(s))
  \/ handle_subprocess_status_change
  \/ safe_poll \/ UX_ppoll \/ OS_test_select_registry

\* What the program asks for.
Asks ==
  \/ \E s \in Slot :
       \/ process_allocate(s) \/ OS_process_wait(s)
       \/ \E sig \in Signals : OS_process_send_signal(s, sig)
       \/ OS_process_continue_background(s) \/ subprocess_delete(s)
       \/ s \in Watched /\ (subprocess_continue_foreground(s) \/ subprocess_wait(s))
  \/ OS_process_continue_foreground \/ ForegroundReturns
  \/ WaitInterrupted \/ PollReturns

Next ==
  \/ \E p \in Pid : ChildChanges(p)
  \/ Handler \/ Runs \/ Asks \/ TimerPoll \/ WaitForIO
  \/ \E s \in Watched : WaiterRuns(s)

\* A pending SIGCHLD is delivered when it is let in, at the latest before the call
\* that unblocks it returns; primitives go on, interrupts stop a wait, and the
\* scheduler gets to poll and to run every thread however busy others are.  That it gets
\* to poll includes that OS_test_select_registry does not return early, for a descriptor
\* that is ready, every time.
Fairness ==
  /\ SF_vars(Handler) /\ WF_vars(Runs) /\ WF_vars(WaitInterrupted)
  /\ SF_vars(TimerPoll) /\ WF_vars(WaitForIO)
  /\ \A s \in Watched : SF_vars(WaiterRuns(s))

Spec == Init /\ [][Next]_vars
LiveSpec == Spec /\ Fairness

-----------------------------------------------------------------------------

\* The process table, its cached status and the runtime's copies are well formed.
TypeOK ==
  /\ child \in [Pid -> ChildStatus] /\ unreported \subseteq Pid
  /\ sigchld \in BOOLEAN /\ handling \in BOOLEAN
  /\ table \in [Slot -> [id : Pid \cup {0}, raw : RawStatus, status : ProcessStatus \cup {"free"},
                         tick : 0 .. MaxTick, sync : 0 .. MaxTick]]
  /\ process_tick \in 0 .. MaxTick /\ sync_tick \in 0 .. process_tick
  /\ pc \in Places /\ cur \in Slot /\ signo \in Signals \cup {None} /\ todo \subseteq Slot
  /\ subs \in [Slot -> ProcessStatus \cup {None}] /\ reg \in [Slot -> ProcessStatus \cup {None}]
  /\ waiting \in [Slot -> BOOLEAN] /\ result \in [Slot -> ProcessStatus \cup {None}]
  /\ fg \in Slot \cup {NSlots}

Reaped(p) == p = 0 \/ child[p] = "free"

\* OS_process_send_signal signals no process that waitpid has reported dead: its
\* pid may belong to an innocent bystander by then.
NoSignalToReaped == pc = "send" => ~Reaped(table[cur].id)

\* A change of status that a subprocess object does not show yet is still going to
\* be noticed: both the ticks of the process and the global ones differ, or the
\* process is about to be polled.  The sleep in ppoll relies on it.
NoChangeMissed ==
  \A s \in Slot : subs[s] # None /\ subs[s] # table[s].raw =>
    table[s].tick # table[s].sync /\ (StatusChanged \/ s \in todo)

\* No slot is lost and none is given away twice: it is free, and found by
\* process_allocate, exactly if no subprocess object has it.
NoSlotLeaks ==
  ~handling /\ pc = "scheme" => \A s \in Slot : table[s].raw = "free" <=> subs[s] = None

\* The table stays well formed although OS_process_deallocate and process_allocate
\* run with SIGCHLD let in: no slot is lost, and none is given away twice.
TableInv == TypeOK /\ NoSlotLeaks

\* A thread that waits is registered as long as the subprocess runs, and has been
\* told of the change as soon as the object shows that it does not.
WaiterIsTold ==
  pc # "hsc" => \A s \in Slot :
    /\ reg[s] # None => waiting[s]
    /\ waiting[s] => IF subs[s] = "running" THEN reg[s] = "running" ELSE result[s] = subs[s]

\* A change of status gets to whoever waits for it: it stays visible until the
\* object shows it, and the thread is told then.
ChangesNoticed == NoChangeMissed /\ WaiterIsTold

\* process_wait does not return for the status of the process unless it has stopped
\* or died since the program last made it run: a status from before a continue
\* operation does not end the wait after it.  (A child that someone else has
\* continued runs although the table says that it is stopped: waitpid does not report
\* it, subprocess_death.)
WaitReturnsWhenNotRunning ==
  [][WaitReturns /\ table[cur].id # 0 => child[table[cur].id] # "running"]_vars

\* A thread that waits for a subprocess that has died returns, unless the
\* subprocess is deleted: it does not wait for ever.
DeadIsNoticed ==
  \A s \in Slot :
    []<>~(waiting[s] /\ table[s].id \in Pid /\ child[table[s].id] \in Dead \cup {"free"})
=============================================================================
