-------------------------- MODULE SubprocessProofs --------------------------
(***************************************************************************)
(* The process table of microcode/uxproc.c and the subprocess objects of   *)
(* runtime/process.scm, proved for every number of children and slots.     *)
(***************************************************************************)
EXTENDS Subprocess, FiniteSetTheorems, TLAPS

USE DEF os, ticks, runtime, At, Scheme, Goto

Entry == [id : Pid \cup {0}, raw : RawStatus, status : ProcessStatus \cup {"free"},
          tick : Nat, sync : Nat]

\* What waitpid has to report of a child.
Reportable == Dead \cup {"stopped"}

KernelOK ==
  /\ child \in [Pid -> ChildStatus]
  /\ unreported \subseteq Pid /\ IsFiniteSet(unreported)
  /\ \A p \in unreported : child[p] \in Reportable
  /\ sigchld \in BOOLEAN /\ handling \in BOOLEAN
  /\ Masked => ~handling

\* The ticks, with those that are due, are within the bound.
Due == Cardinality(unreported) + (IF Sending THEN 1 ELSE 0)

TicksOK ==
  /\ process_tick \in Nat /\ sync_tick \in 0 .. process_tick
  /\ process_tick + Due <= MaxTick

TableOK ==
  /\ table \in [Slot -> Entry]
  /\ \A s \in Slot : table[s].tick <= process_tick /\ table[s].sync <= table[s].tick

RuntimeOK ==
  /\ pc \in Places /\ cur \in Slot /\ signo \in Signals \cup {None}
  /\ subs \in [Slot -> ProcessStatus \cup {None}] /\ reg \in [Slot -> ProcessStatus \cup {None}]
  /\ waiting \in [Slot -> BOOLEAN] /\ result \in [Slot -> ProcessStatus \cup {None}]
  /\ fg \in Slot \cup {NSlots}
  /\ \A s \in todo : s \in Slot /\ subs[s] # None
  /\ pc # "hsc" => todo = {}

\* Where the Scheme process is at work on a slot that has no object, or may have none.
Making == {"fork", "terminal", "abort", "abort-kill", "object", "dealloc"}

\* What the pid, the raw status and the object of a slot say of each other.
SlotsInv ==
  \A s \in Slot :
    /\ table[s].raw \in {"free", "allocated"} => table[s].id = 0
    /\ table[s].raw \in ProcessStatus => table[s].id \in Pid \/ (pc = "dealloc" /\ s = cur)
    /\ table[s].raw \in ProcessStatus /\ table[s].tick = table[s].sync =>
         table[s].status = table[s].raw
    /\ subs[s] # None => table[s].raw \in ProcessStatus
    /\ subs[s] = None => table[s].raw = "free" \/ (pc \in Making \cup {"wait"} /\ s = cur)

\* The slot that the Scheme process is at work on.
PcInv ==
  /\ pc = "fork" => table[cur].raw = "allocated"
  /\ pc = "abort" => table[cur].raw \in ProcessStatus \cup {"allocated"}
  /\ pc \in {"terminal", "object", "abort-kill", "wait"} => table[cur].raw \in ProcessStatus
  /\ pc \in Making => subs[cur] = None
  /\ pc = "dealloc" => table[cur].id = 0
  /\ pc = "send" => subs[cur] # None /\ signo \in Signals

\* The inductive invariant behind TableInv, which the changes of status are part of.
Base == KernelOK /\ TicksOK /\ TableOK /\ RuntimeOK /\ SlotsInv /\ PcInv

LEMMA Distinct ==
  /\ Live \cap Dead = {} /\ ProcessStatus = Live \cup Dead
  /\ "free" \notin ProcessStatus /\ "allocated" \notin ProcessStatus /\ None \notin ProcessStatus
  /\ Live = {"running", "stopped"} /\ Dead = {"exited", "signalled"}
  /\ ProcessStatus \subseteq RawStatus /\ Reportable \subseteq ProcessStatus
  /\ "running" \notin Reportable /\ "resumed" \notin ProcessStatus
  /\ Running = {"running", "resumed"} /\ ChildStatus = ProcessStatus \cup {"resumed", "free"}
  BY DEF Live, Dead, ProcessStatus, RawStatus, None, Reportable, Running, ChildStatus

LEMMA Constants ==
  /\ NSlots \in Nat \ {0} /\ MaxTick \in Nat /\ 0 \notin Pid /\ 0 \in Slot
  /\ NSlots \notin Slot /\ Watched \subseteq Slot
  BY SubprocessAssumption DEF Slot

LEMMA CountType ==
  ASSUME KernelOK
  PROVE  Cardinality(unreported) \in Nat
  BY FS_CardinalityType DEF KernelOK

-----------------------------------------------------------------------------
(* The kernel.                                                              *)

\* A child changes state.
LEMMA ChangesMeaning ==
  ASSUME KernelOK, NEW p \in Pid, NEW state \in Reportable, Changes(p, state)
  PROVE  /\ child' = [child EXCEPT ![p] = state]
         /\ child' \in [Pid -> ChildStatus]
         /\ unreported' \subseteq Pid /\ IsFiniteSet(unreported')
         /\ \A q \in unreported' : child'[q] \in Reportable
         /\ sigchld' \in BOOLEAN /\ handling' = handling
         /\ Cardinality(unreported') <= Cardinality(unreported) + 1
<1>1. /\ child' = [child EXCEPT ![p] = state] /\ unreported' = unreported \cup {p}
      /\ sigchld' = TRUE /\ handling' = handling
  BY DEF Changes
<1>2. IsFiniteSet(unreported') /\ Cardinality(unreported') <= Cardinality(unreported) + 1
  <2>1. IsFiniteSet(unreported) /\ Cardinality(unreported) \in Nat
    BY CountType DEF KernelOK
  <2>2. /\ IsFiniteSet(unreported \cup {p})
        /\ \/ Cardinality(unreported \cup {p}) = Cardinality(unreported)
           \/ Cardinality(unreported \cup {p}) = Cardinality(unreported) + 1
    BY <2>1, FS_AddElement
  <2>3. QED
    BY <1>1, <2>1, <2>2
<1>3. child' \in [Pid -> ChildStatus] /\ unreported' \subseteq Pid
  BY <1>1, Distinct DEF KernelOK
<1>4. \A q \in unreported' : child'[q] \in Reportable
  BY <1>1 DEF KernelOK
<1>5. QED
  BY <1>1, <1>2, <1>3, <1>4

\* A child goes on, or counts as continued by the program.
LEMMA ResumedMeaning ==
  ASSUME KernelOK, NEW p \in Pid, NEW state \in Running,
         child' = [child EXCEPT ![p] = state], unreported' = unreported \ {p},
         sigchld' \in {sigchld, TRUE}, UNCHANGED handling
  PROVE  /\ child' \in [Pid -> ChildStatus]
         /\ unreported' \subseteq Pid /\ IsFiniteSet(unreported')
         /\ \A q \in unreported' : child'[q] \in Reportable
         /\ sigchld' \in BOOLEAN /\ handling' = handling
         /\ Cardinality(unreported') <= Cardinality(unreported)
         /\ Cardinality(unreported') <= Cardinality(unreported) + 1
         /\ \A q \in Pid \ {p} : child'[q] = child[q]
         /\ child'[p] = state
<1>1. IsFiniteSet(unreported') /\ Cardinality(unreported') <= Cardinality(unreported)
  <2>1. IsFiniteSet(unreported) /\ Cardinality(unreported) \in Nat
    BY CountType DEF KernelOK
  <2>2. /\ IsFiniteSet(unreported \ {p})
        /\ \/ Cardinality(unreported \ {p}) = Cardinality(unreported)
           \/ Cardinality(unreported \ {p}) = Cardinality(unreported) - 1
    BY <2>1, FS_RemoveElement
  <2>3. QED
    BY <2>1, <2>2
<1>2. /\ child'[p] = state /\ \A q \in Pid \ {p} : child'[q] = child[q]
      /\ child' \in [Pid -> ChildStatus]
  BY Distinct DEF KernelOK
<1>3. unreported' \subseteq Pid /\ \A q \in unreported' : child'[q] \in Reportable
  BY <1>2 DEF KernelOK
<1>4. Cardinality(unreported') <= Cardinality(unreported) + 1
  BY <1>1, CountType, FS_CardinalityType
<1>5. sigchld' \in BOOLEAN /\ handling' = handling
  BY DEF KernelOK
<1>6. QED
  BY <1>1, <1>2, <1>3, <1>4, <1>5

\* The signal of the continue operations makes no report due.
LEMMA ContinueMeaning ==
  ASSUME KernelOK, NEW p \in Pid, SendContinue(p)
  PROVE  /\ child' \in [Pid -> ChildStatus]
         /\ unreported' \subseteq Pid /\ IsFiniteSet(unreported')
         /\ \A q \in unreported' : child'[q] \in Reportable
         /\ sigchld' \in BOOLEAN /\ handling' = handling
         /\ Cardinality(unreported') <= Cardinality(unreported)
         /\ \A q \in Pid \ {p} : child'[q] = child[q]
         /\ child'[p] = "free" <=> child[p] = "free"
<1>1. CASE child[p] \in {"stopped", "resumed"}
  <2>1. /\ child' = [child EXCEPT ![p] = "running"] /\ unreported' = unreported \ {p}
        /\ sigchld' \in {sigchld, TRUE} /\ UNCHANGED handling
    BY <1>1 DEF SendContinue
  <2>2. "running" \in Running
    BY Distinct
  <2>3. child'[p] # "free" /\ child[p] # "free"
    BY <1>1, <2>1, <2>2, ResumedMeaning
  <2>4. QED
    BY <2>1, <2>2, <2>3, ResumedMeaning
<1>2. CASE child[p] \notin {"stopped", "resumed"}
  BY <1>2, CountType DEF SendContinue, os, KernelOK
<1>3. QED
  BY <1>1, <1>2

\* kill(2) changes a child that is not dead, and no other; nothing that it does makes a
\* child run as if the program had continued it.
LEMMA KillMeaning ==
  ASSUME KernelOK, NEW p \in Pid, NEW sig, UX_kill(p, sig)
  PROVE  /\ child' \in [Pid -> ChildStatus]
         /\ unreported' \subseteq Pid /\ IsFiniteSet(unreported')
         /\ \A q \in unreported' : child'[q] \in Reportable
         /\ sigchld' \in BOOLEAN /\ handling' = handling
         /\ Cardinality(unreported') <= Cardinality(unreported) + 1
         /\ \A q \in Pid \ {p} : child'[q] = child[q]
         /\ child'[p] = "free" <=> child[p] = "free"
         /\ child'[p] = "running" => child[p] = "running"
<1>1. ASSUME NEW state \in Reportable, Changes(p, state), child[p] # "free"
      PROVE  /\ child' \in [Pid -> ChildStatus]
             /\ unreported' \subseteq Pid /\ IsFiniteSet(unreported')
             /\ \A q \in unreported' : child'[q] \in Reportable
             /\ sigchld' \in BOOLEAN /\ handling' = handling
             /\ Cardinality(unreported') <= Cardinality(unreported) + 1
             /\ \A q \in Pid \ {p} : child'[q] = child[q]
             /\ child'[p] # "free" /\ child'[p] # "running" /\ child[p] # "free"
  <2>1. child' = [child EXCEPT ![p] = state]
    BY <1>1, ChangesMeaning
  <2>2. child'[p] = state /\ \A q \in Pid \ {p} : child'[q] = child[q]
    BY <2>1 DEF KernelOK
  <2>3. QED
    BY <1>1, <2>2, ChangesMeaning, Distinct
<1>2. CASE sig = "SIGKILL" /\ child[p] \in Running \cup {"stopped"}
  <2>1. Changes(p, "signalled") /\ "signalled" \in Reportable /\ child[p] # "free"
    BY <1>2, Distinct DEF UX_kill, Reportable, Dead
  <2>2. QED
    BY <1>1, <2>1
<1>3. CASE sig = "SIGTSTP" /\ child[p] \in Running
  <2>1. Changes(p, "stopped") /\ "stopped" \in Reportable /\ child[p] # "free"
    BY <1>3, Distinct DEF UX_kill, Reportable, Dead
  <2>2. QED
    BY <1>1, <2>1
<1>4. CASE sig = "SIGCONT" /\ child[p] = "stopped"
  <2>1. /\ child' = [child EXCEPT ![p] = "resumed"] /\ unreported' = unreported \ {p}
        /\ sigchld' \in {sigchld, TRUE} /\ UNCHANGED handling
    BY <1>4 DEF UX_kill, GoesOn
  <2>2. "resumed" \in Running
    BY Distinct
  <2>3. child'[p] = "resumed"
    BY <2>1, <2>2, ResumedMeaning
  <2>4. QED
    BY <1>4, <2>1, <2>2, <2>3, ResumedMeaning
<1>5. CASE /\ ~(sig = "SIGKILL" /\ child[p] \in Running \cup {"stopped"})
           /\ ~(sig = "SIGTSTP" /\ child[p] \in Running)
           /\ ~(sig = "SIGCONT" /\ child[p] = "stopped")
  <2>1. UNCHANGED <<child, unreported, sigchld, handling>>
    BY <1>5 DEF UX_kill, os
  <2>2. Cardinality(unreported') <= Cardinality(unreported) + 1
    BY <2>1, CountType
  <2>3. QED
    BY <2>1, <2>2 DEF KernelOK
<1>6. QED
  BY <1>2, <1>3, <1>4, <1>5

-----------------------------------------------------------------------------
(* The actions, grouped by what they write.                                 *)

\* The Scheme process goes on, or a thread is told of a change: neither the table nor
\* the objects change.
Moves ==
  \/ \E s \in Slot :
       \/ OS_process_wait(s) \/ (\E sig \in Signals : OS_process_send_signal(s, sig))
       \/ subprocess_continue_foreground(s) \/ subprocess_wait(s) \/ WaiterRuns(s)
  \/ MakeFails \/ give_terminal_to \/ WaitReturns \/ WaitInterrupted \/ ForegroundReturns
  \/ handle_subprocess_status_change \/ WaitForIO \/ safe_poll \/ UX_ppoll \/ PollReturns
  \/ (OS_test_select_registry /\ ~StatusChanged)

\* All subprocess objects are going to be polled.
Syncs == TimerPoll \/ (OS_test_select_registry /\ StatusChanged)

Continues ==
  \/ \E s \in Slot : OS_process_continue_background(s)
  \/ OS_process_continue_foreground

LEMMA Groups ==
  ASSUME Next
  PROVE  \/ Moves \/ Syncs \/ Continues \/ sighnd_dead_subprocess \/ HandlerReturns
         \/ \E p \in Pid : ChildChanges(p) \/ Waitpid(p) \/ OS_make_subprocess(p)
         \/ \E s \in Slot : process_allocate(s) \/ subprocess_delete(s) \/ poll_subprocess_status(s)
         \/ process_allocate_abort \/ AbortKill \/ process_send_signal \/ make_subprocess
         \/ OS_process_deallocate
<1>1. ASSUME Asks
      PROVE  \/ Moves \/ Continues
             \/ \E s \in Slot : process_allocate(s) \/ subprocess_delete(s)
  BY <1>1 DEF Asks, Moves, Continues
<1>2. ASSUME Runs
      PROVE  \/ Moves \/ Syncs \/ \E p \in Pid : OS_make_subprocess(p)
             \/ process_allocate_abort \/ AbortKill \/ process_send_signal \/ make_subprocess
             \/ OS_process_deallocate \/ \E s \in Slot : poll_subprocess_status(s)
  BY <1>2 DEF Runs, Moves, Syncs
<1>3. ASSUME \E s \in Watched : WaiterRuns(s) PROVE Moves
  BY <1>3, Constants DEF Moves
<1>4. QED
  BY <1>1, <1>2, <1>3 DEF Next, Handler, Syncs, Moves

\* The fields of an entry.
LEMMA EntryType ==
  ASSUME NEW t \in Entry
  PROVE  /\ t.id \in Pid \cup {0} /\ t.raw \in RawStatus /\ t.status \in ProcessStatus \cup {"free"}
         /\ t.tick \in Nat /\ t.sync \in Nat
  BY DEF Entry

\* An entry is written.
LEMMA Written ==
  ASSUME TableOK, NEW s \in Slot, NEW t \in Entry, table' = [table EXCEPT ![s] = t]
  PROVE  table' \in [Slot -> Entry] /\ table'[s] = t /\ \A r \in Slot \ {s} : table'[r] = table[r]
  BY DEF TableOK

\* A step that leaves the table and the objects alone keeps what is said of the slots.
LEMMA MovesKeep ==
  ASSUME Base, UNCHANGED <<child, unreported, table, process_tick, sync_tick, subs>>,
         sigchld' \in BOOLEAN, handling' \in BOOLEAN, Masked' => ~handling',
         Sending' => Sending \/ TickLeft,
         RuntimeOK', PcInv',
         \A s \in Slot : subs[s] = None /\ pc \in Making \cup {"wait"} /\ s = cur =>
           pc' \in Making \cup {"wait"} /\ s = cur',
         pc = "dealloc" => pc' = "dealloc" /\ cur' = cur
  PROVE  Base'
<1>1. KernelOK'
  BY DEF Base, KernelOK
<1>2. TicksOK'
  <2>1. Cardinality(unreported) \in Nat /\ process_tick \in Nat /\ MaxTick \in Nat
    BY CountType, Constants DEF Base, TicksOK
  <2>2. process_tick + (Cardinality(unreported) + (IF Sending' THEN 1 ELSE 0)) <= MaxTick
    <3>1. CASE Sending' /\ ~Sending
      BY <2>1, <3>1 DEF TickLeft
    <3>2. CASE ~(Sending' /\ ~Sending)
      BY <2>1, <3>2 DEF Base, TicksOK, Due
    <3>3. QED
      BY <3>1, <3>2
  <2>3. QED
    BY <2>2 DEF Base, TicksOK, Due
<1>3. TableOK'
  BY DEF Base, TableOK
<1>4. SlotsInv'
  BY DEF Base, SlotsInv
<1>5. QED
  BY <1>1, <1>2, <1>3, <1>4 DEF Base

LEMMA MovesMeaning ==
  ASSUME Moves
  PROVE  UNCHANGED <<child, unreported, sigchld, handling, table, process_tick, sync_tick, subs, todo>>
         /\ ~handling
  BY DEF Moves, OS_process_wait, OS_process_send_signal, subprocess_continue_foreground,
     subprocess_wait, WaiterRuns, MakeFails, give_terminal_to, WaitReturns, WaitInterrupted,
     ForegroundReturns, handle_subprocess_status_change, WaitForIO, safe_poll, UX_ppoll, PollReturns,
     OS_test_select_registry

\* What a thread that waits is told has the right type.
LEMMA MovesTypes ==
  ASSUME Base, Moves
  PROVE  /\ pc' \in Places /\ cur' \in Slot /\ signo' \in Signals \cup {None}
         /\ reg' \in [Slot -> ProcessStatus \cup {None}]
         /\ waiting' \in [Slot -> BOOLEAN] /\ result' \in [Slot -> ProcessStatus \cup {None}]
         /\ fg' \in Slot \cup {NSlots}
<1> USE DEF Base, RuntimeOK
<1>1. pc' \in Places /\ cur' \in Slot /\ signo' \in Signals \cup {None} /\ fg' \in Slot \cup {NSlots}
  BY DEF Places, Moves, OS_process_wait, OS_process_send_signal, subprocess_continue_foreground,
     subprocess_wait, WaiterRuns, MakeFails, give_terminal_to, WaitReturns, WaitInterrupted,
     ForegroundReturns, handle_subprocess_status_change, WaitForIO, safe_poll, UX_ppoll, PollReturns,
     OS_test_select_registry
<1>2. CASE \E s \in Slot : subprocess_wait(s)
  <2>1. PICK s \in Slot : subprocess_wait(s)
    BY <1>2
  <2>2. Immediate(s) \in ProcessStatus \cup {None}
    BY DEF Immediate
  <2>3. QED
    BY <1>1, <2>1, <2>2 DEF subprocess_wait
<1>3. CASE \E s \in Slot : WaiterRuns(s)
  BY <1>1, <1>3, ZenonT(60) DEF WaiterRuns
<1>4. CASE handle_subprocess_status_change
  BY <1>1, <1>4 DEF handle_subprocess_status_change
<1>5. CASE UNCHANGED <<reg, waiting, result>>
  BY <1>1, <1>5
<1>6. QED
  BY <1>2, <1>3, <1>4, <1>5 DEF Moves, OS_process_wait, OS_process_send_signal,
     subprocess_continue_foreground, MakeFails, give_terminal_to, WaitReturns, WaitInterrupted,
     ForegroundReturns, WaitForIO, safe_poll, UX_ppoll, PollReturns, OS_test_select_registry

\* How the Scheme process goes on.
LEMMA MovesStep ==
  ASSUME Base, Moves
  PROVE  Base'
<1>1. UNCHANGED <<child, unreported, sigchld, handling, table, process_tick, sync_tick, subs, todo>>
      /\ ~handling
  BY MovesMeaning
<1>2. RuntimeOK'
  <2>1. \A s \in todo' : s \in Slot /\ subs'[s] # None
    BY <1>1 DEF Base, RuntimeOK
  <2>2. pc' # "hsc" => todo' = {}
    <3>1. pc # "hsc" \/ todo = {}
      BY DEF Moves, OS_process_wait, OS_process_send_signal, subprocess_continue_foreground,
         subprocess_wait, WaiterRuns, MakeFails, give_terminal_to, WaitReturns, WaitInterrupted,
         ForegroundReturns, handle_subprocess_status_change, WaitForIO, safe_poll, UX_ppoll,
         PollReturns, OS_test_select_registry
    <3>2. QED
      BY <1>1, <3>1 DEF Base, RuntimeOK
  <2>3. QED
    BY <1>1, <2>1, <2>2, MovesTypes DEF Base, RuntimeOK
<1>3. \/ pc' = pc /\ cur' = cur /\ signo' = signo
      \/ /\ pc' \in {"scheme", "poll", "polled", "sleep", "ppoll"}
         /\ pc \notin Making \cup {"wait"} \/ (pc = "wait" /\ subs[cur] # None)
      \/ pc = "wait" /\ subs[cur] = None /\ pc' = "object" /\ cur' = cur
      \/ pc \in {"fork", "terminal"} /\ pc' = "abort" /\ cur' = cur
      \/ pc = "terminal" /\ pc' = "wait" /\ cur' = cur
      \/ pc = "scheme" /\ pc' = "wait" /\ cur' \in Slot /\ subs[cur'] # None
      \/ /\ pc = "scheme" /\ pc' = "send" /\ cur' \in Slot /\ subs[cur'] # None
         /\ signo' \in Signals /\ TickLeft
  BY DEF Making, Moves, OS_process_wait, OS_process_send_signal, subprocess_continue_foreground,
     subprocess_wait, WaiterRuns, MakeFails, give_terminal_to, WaitReturns, WaitInterrupted,
     ForegroundReturns, handle_subprocess_status_change, WaitForIO, safe_poll, UX_ppoll,
     PollReturns, OS_test_select_registry
<1>4. PcInv'
  <2>1. \A s \in Slot : subs[s] # None => table[s].raw \in ProcessStatus
    BY DEF Base, SlotsInv
  <2>2. cur \in Slot /\ PcInv
    BY DEF Base, RuntimeOK
  <2>3. QED
    BY <1>1, <1>3, <2>1, <2>2 DEF PcInv, Making
<1>5. Sending' => Sending \/ TickLeft
  BY <1>3 DEF Sending, Making
<1>6. \A s \in Slot : subs[s] = None /\ pc \in Making \cup {"wait"} /\ s = cur =>
        pc' \in Making \cup {"wait"} /\ s = cur'
  BY <1>3 DEF Making
<1>7. pc = "dealloc" => pc' = "dealloc" /\ cur' = cur
  BY <1>3 DEF Making
<1>8. sigchld' \in BOOLEAN /\ handling' \in BOOLEAN /\ (Masked' => ~handling')
  BY <1>1 DEF Base, KernelOK
<1>9. QED
  BY <1>1, <1>2, <1>4, <1>5, <1>6, <1>7, <1>8, MovesKeep

LEMMA SyncsStep ==
  ASSUME Base, Syncs
  PROVE  Base'
<1>1. /\ UNCHANGED <<child, unreported, sigchld, handling, table, process_tick, cur, signo>>
      /\ UNCHANGED <<subs, reg, waiting, result, fg>>
      /\ ~handling /\ pc \in {"scheme", "polled"} /\ pc' = "hsc"
      /\ sync_tick' = process_tick /\ todo' = {s \in Slot : subs[s] # None}
  BY DEF Syncs, TimerPoll, OS_test_select_registry, StartSync
<1>2. KernelOK'
  BY <1>1 DEF Base, KernelOK, Masked
<1>3. TicksOK'
  <2>1. Due' = Due /\ process_tick \in Nat
    BY <1>1 DEF Base, TicksOK, Due, Sending
  <2>2. QED
    BY <1>1, <2>1 DEF Base, TicksOK
<1>4. TableOK' /\ RuntimeOK'
  BY <1>1 DEF Base, TableOK, RuntimeOK, Places
<1>5. SlotsInv' /\ PcInv'
  BY <1>1 DEF Base, SlotsInv, PcInv, Making
<1>6. QED
  BY <1>2, <1>3, <1>4, <1>5 DEF Base

\* The handler is entered and left.
LEMMA HandlerSteps ==
  ASSUME Base, sighnd_dead_subprocess \/ HandlerReturns
  PROVE  Base'
<1>1. /\ UNCHANGED <<child, unreported, table, process_tick, sync_tick, cur, signo, todo>>
      /\ UNCHANGED <<subs, reg, waiting, result, fg>>
      /\ pc' = pc \/ (pc = "ppoll" /\ pc' = "polled")
      /\ sigchld' \in BOOLEAN /\ handling' \in BOOLEAN /\ (Masked' => ~handling')
  BY DEF sighnd_dead_subprocess, HandlerReturns, Masked, Base, KernelOK
<1>2. RuntimeOK' /\ PcInv'
  BY <1>1 DEF Base, RuntimeOK, PcInv, Places, Making
<1>3. Sending' => Sending
  BY <1>1 DEF Sending
<1>4. /\ \A s \in Slot : subs[s] = None /\ pc \in Making \cup {"wait"} /\ s = cur =>
           pc' \in Making \cup {"wait"} /\ s = cur'
      /\ pc = "dealloc" => pc' = "dealloc" /\ cur' = cur
  BY <1>1 DEF Making
<1>5. UNCHANGED <<child, unreported, table, process_tick, sync_tick, subs>>
  BY <1>1
<1>6. QED
  BY <1>1, <1>2, <1>3, <1>4, <1>5, MovesKeep

-----------------------------------------------------------------------------
(* Steps that change the children.                                          *)

\* A step that writes neither the table nor the objects, and counts what waitpid will
\* report against the bound.
LEMMA KernelStep ==
  ASSUME Base, UNCHANGED <<table, process_tick, sync_tick, cur, todo, subs, reg, waiting, result, fg>>,
         child' \in [Pid -> ChildStatus],
         unreported' \subseteq Pid, IsFiniteSet(unreported'),
         \A q \in unreported' : child'[q] \in Reportable,
         sigchld' \in BOOLEAN, handling' = handling,
         process_tick + Due' <= MaxTick,
         \/ UNCHANGED <<pc, signo>>
         \/ pc = "send" /\ pc' = "scheme" /\ signo' = None /\ ~handling
  PROVE  Base'
<1>1. KernelOK'
  <2>1. Masked' => ~handling'
    BY DEF Base, KernelOK, Masked
  <2>2. QED
    BY <2>1 DEF Base, KernelOK
<1>2. TicksOK' /\ TableOK'
  BY DEF Base, TicksOK, TableOK
<1>3. RuntimeOK'
  BY DEF Base, RuntimeOK, Places
<1>4. SlotsInv' /\ PcInv'
  BY DEF Base, SlotsInv, PcInv, Making
<1>5. QED
  BY <1>1, <1>2, <1>3, <1>4 DEF Base

LEMMA ChildStep ==
  ASSUME Base, NEW p \in Pid, ChildChanges(p)
  PROVE  Base'
<1>1. /\ UNCHANGED <<table, process_tick, sync_tick, cur, todo, subs, reg, waiting, result, fg>>
      /\ UNCHANGED <<pc, signo>>
  BY DEF ChildChanges
<1>2. /\ child' \in [Pid -> ChildStatus]
      /\ unreported' \subseteq Pid /\ IsFiniteSet(unreported')
      /\ \A q \in unreported' : child'[q] \in Reportable
      /\ sigchld' \in BOOLEAN /\ handling' = handling
      /\ \/ TickLeft /\ Cardinality(unreported') <= Cardinality(unreported) + 1
         \/ Cardinality(unreported') <= Cardinality(unreported)
  <2>1. (TickLeft /\ \E state \in Reportable : Changes(p, state)) \/ GoesOn(p)
    BY DEF ChildChanges, Reportable, Dead
  <2>2. CASE TickLeft /\ \E state \in Reportable : Changes(p, state)
    BY <2>2, ChangesMeaning DEF Base
  <2>3. CASE GoesOn(p)
    <3>1. "resumed" \in Running
      BY Distinct
    <3>2. QED
      BY <2>3, <3>1, ResumedMeaning DEF GoesOn, Base
  <2>4. QED
    BY <2>1, <2>2, <2>3
<1>3. process_tick + Due' <= MaxTick
  <2>1. /\ Cardinality(unreported) \in Nat /\ process_tick \in Nat /\ MaxTick \in Nat
        /\ Cardinality(unreported') \in Nat
    BY <1>2, CountType, Constants, FS_CardinalityType DEF Base, TicksOK
  <2>2. Sending' <=> Sending
    BY <1>1 DEF Sending
  <2>3. QED
    BY <1>1, <1>2, <2>1, <2>2 DEF Due, TickLeft, Base, TicksOK
<1>4. QED
  BY <1>1, <1>2, <1>3, KernelStep

LEMMA SendStep ==
  ASSUME Base, process_send_signal
  PROVE  Base'
<1>1. /\ pc = "send" /\ pc' = "scheme" /\ signo' = None /\ ~handling /\ cur \in Slot
      /\ UNCHANGED <<table, process_tick, sync_tick, cur, todo, subs, reg, waiting, result, fg>>
      /\ UX_kill(table[cur].id, signo)
  BY DEF process_send_signal, Base, RuntimeOK
<1>2. table[cur].id \in Pid
  BY <1>1 DEF Base, PcInv, SlotsInv
<1>3. /\ child' \in [Pid -> ChildStatus]
      /\ unreported' \subseteq Pid /\ IsFiniteSet(unreported')
      /\ \A q \in unreported' : child'[q] \in Reportable
      /\ sigchld' \in BOOLEAN /\ handling' = handling
      /\ Cardinality(unreported') <= Cardinality(unreported) + 1
  BY <1>1, <1>2, KillMeaning DEF Base
<1>4. process_tick + Due' <= MaxTick
  <2>1. /\ Cardinality(unreported) \in Nat /\ process_tick \in Nat /\ MaxTick \in Nat
        /\ Cardinality(unreported') \in Nat
    BY <1>3, CountType, Constants, FS_CardinalityType DEF Base, TicksOK
  <2>2. Sending /\ ~Sending'
    BY <1>1 DEF Sending
  <2>3. QED
    BY <1>3, <2>1, <2>2 DEF Base, TicksOK, Due
<1>5. QED
  BY <1>1, <1>3, <1>4, KernelStep

-----------------------------------------------------------------------------
(* Steps that write an entry of the table.                                  *)

\* What SlotsInv says of one slot.
SlotOK(t, sub, here, place) ==
  /\ t.raw \in {"free", "allocated"} => t.id = 0
  /\ t.raw \in ProcessStatus => t.id \in Pid \/ (place = "dealloc" /\ here)
  /\ t.raw \in ProcessStatus /\ t.tick = t.sync => t.status = t.raw
  /\ sub # None => t.raw \in ProcessStatus
  /\ sub = None => t.raw = "free" \/ (place \in Making \cup {"wait"} /\ here)

LEMMA SlotsMeaning == SlotsInv <=> \A s \in Slot : SlotOK(table[s], subs[s], s = cur, pc)
  BY DEF SlotsInv, SlotOK

LEMMA WriteKeeps ==
  ASSUME Base, NEW s \in Slot, NEW t \in Entry, table' = [table EXCEPT ![s] = t],
         KernelOK', TicksOK', RuntimeOK', PcInv',
         process_tick <= process_tick', t.tick <= process_tick', t.sync <= t.tick,
         SlotOK(t, subs'[s], s = cur', pc'),
         \A r \in Slot \ {s} : subs'[r] = subs[r],
         \A r \in Slot \ {s} : r = cur /\ pc \in Making \cup {"wait"} => pc' = pc /\ cur' = cur
  PROVE  Base'
<1>1. table' \in [Slot -> Entry] /\ table'[s] = t /\ \A r \in Slot \ {s} : table'[r] = table[r]
  BY Written DEF Base
<1>2. TableOK'
  <2>1. ASSUME NEW r \in Slot
        PROVE  table'[r].tick <= process_tick' /\ table'[r].sync <= table'[r].tick
    <3>1. CASE r = s
      BY <1>1, <3>1
    <3>2. CASE r # s
      <4>1. table'[r] = table[r] /\ table[r] \in Entry
        BY <1>1, <3>2 DEF Base, TableOK
      <4>2. table[r].tick \in Nat /\ table[r].tick <= process_tick /\ table[r].sync <= table[r].tick
        BY <4>1, EntryType DEF Base, TableOK
      <4>3. process_tick \in Nat /\ process_tick' \in Nat
        BY DEF Base, TicksOK
      <4>4. QED
        BY <4>1, <4>2, <4>3
    <3>3. QED
      BY <3>1, <3>2
  <2>2. QED
    BY <1>1, <2>1 DEF TableOK
<1>3. ASSUME NEW r \in Slot PROVE SlotOK(table'[r], subs'[r], r = cur', pc')
  <2>1. CASE r = s
    BY <1>1, <2>1
  <2>2. CASE r # s
    <3>1. SlotOK(table[r], subs[r], r = cur, pc) /\ table'[r] = table[r] /\ subs'[r] = subs[r]
      BY <1>1, <2>2, SlotsMeaning DEF Base
    <3>2. r = cur /\ pc \in Making \cup {"wait"} => pc' = pc /\ cur' = cur
      BY <2>2
    <3>3. "dealloc" \in Making
      BY DEF Making
    <3>4. QED
      BY <3>1, <3>2, <3>3 DEF SlotOK
  <2>3. QED
    BY <2>1, <2>2
<1>4. SlotsInv'
  BY <1>3 DEF SlotsInv, SlotOK
<1>5. QED
  BY <1>2, <1>4 DEF Base

LEMMA AllocateStep ==
  ASSUME Base, NEW s \in Slot, process_allocate(s)
  PROVE  Base'
<1> DEFINE t == [table[s] EXCEPT !.raw = "allocated"]
<1>1. /\ pc = "scheme" /\ ~handling /\ TickLeft /\ table[s].raw = "free"
      /\ table' = [table EXCEPT ![s] = t] /\ pc' = "fork" /\ cur' = s
      /\ UNCHANGED <<child, unreported, sigchld, handling, process_tick, sync_tick, signo, todo>>
      /\ UNCHANGED <<subs, reg, waiting, result, fg>>
  BY DEF process_allocate
<1>2. table[s] \in Entry /\ table[s].tick <= process_tick /\ table[s].sync <= table[s].tick
  BY DEF Base, TableOK
<1>3. /\ t \in Entry /\ t.raw = "allocated" /\ t.id = table[s].id /\ t.tick = table[s].tick
      /\ t.sync = table[s].sync /\ t.status = table[s].status
  BY <1>2 DEF Entry, RawStatus
<1>4. subs[s] = None /\ t.id = 0
  BY <1>1, <1>3, Distinct DEF Base, SlotsInv
<1> HIDE DEF t
<1>5. KernelOK'
  BY <1>1 DEF Base, KernelOK
<1>6. TicksOK'
  <2>1. Cardinality(unreported) \in Nat /\ process_tick \in Nat /\ MaxTick \in Nat
    BY CountType, Constants DEF Base, TicksOK
  <2>2. ~Sending /\ Sending'
    BY <1>1 DEF Sending
  <2>3. process_tick' + Due' <= MaxTick
    BY <1>1, <2>1, <2>2 DEF TickLeft, Due
  <2>4. QED
    BY <1>1, <2>3 DEF Base, TicksOK
<1>7. RuntimeOK'
  BY <1>1 DEF Base, RuntimeOK, Places
<1>8. table'[s] = t
  BY <1>1, <1>3, Written DEF Base
<1>9. PcInv'
  BY <1>1, <1>3, <1>4, <1>8 DEF PcInv
<1>10. SlotOK(t, subs'[s], s = cur', pc')
  BY <1>1, <1>3, <1>4, Distinct DEF SlotOK, Making
<1>11. process_tick <= process_tick' /\ t.tick <= process_tick' /\ t.sync <= t.tick
  BY <1>1, <1>2, <1>3 DEF Base, TicksOK
<1>12. pc \notin Making \cup {"wait"}
  BY <1>1 DEF Making
<1>13. QED
  BY <1>1, <1>3, <1>5, <1>6, <1>7, <1>9, <1>10, <1>11, <1>12, WriteKeeps

\* The entry of a child: no two slots before it have the same pid.
LEMMA Found ==
  ASSUME NEW p \in Pid, NEW s \in find_process(p)
  PROVE  s \in Slot /\ table[s].id = p
  BY DEF find_process

\* The entry that NEW_RAW_STATUS makes.
LEMMA RawStatusEntry ==
  ASSUME NEW s \in Slot, NEW status \in RawStatus, table \in [Slot -> Entry], process_tick \in Nat,
         table' = NewRawStatus(table, s, status)
  PROVE  table'[s] = [id |-> table[s].id, raw |-> status, status |-> table[s].status,
                      tick |-> process_tick + 1, sync |-> table[s].sync]
  BY DEF Entry, NewRawStatus

\* NEW_RAW_STATUS, in a step that leaves the objects alone.
LEMMA RawStatusKeeps ==
  ASSUME Base, NEW s \in Slot, NEW status \in ProcessStatus, table[s].raw \in ProcessStatus,
         table' = NewRawStatus(table, s, status), process_tick' = process_tick + 1,
         sync_tick' = sync_tick, process_tick' + Due' <= MaxTick, KernelOK', RuntimeOK',
         UNCHANGED <<subs, signo>>,
         \/ UNCHANGED <<pc, cur>>
         \/ pc = "scheme" /\ pc' = "wait" /\ cur' = s
  PROVE  Base'
<1>1. PICK t : table' = [table EXCEPT ![s] = t]
  BY DEF NewRawStatus
<1>2. /\ table[s] \in Entry /\ table[s].tick <= process_tick /\ table[s].sync <= table[s].tick
      /\ table[s].tick \in Nat /\ table[s].sync \in Nat /\ process_tick \in Nat
  BY EntryType DEF Base, TableOK, TicksOK
<1>3. /\ t \in Entry /\ t.raw = status /\ t.id = table[s].id /\ t.tick = process_tick + 1
      /\ t.sync = table[s].sync /\ t.status = table[s].status
  <2>1. table \in [Slot -> Entry] /\ status \in RawStatus
    BY Distinct DEF Base, TableOK
  <2>2. table'[s] = t
    BY <1>1, <2>1
  <2>3. t = [id |-> table[s].id, raw |-> status, status |-> table[s].status,
             tick |-> process_tick + 1, sync |-> table[s].sync]
    BY <1>2, <2>1, <2>2, RawStatusEntry
  <2>4. t \in Entry
    <3>1. table[s].id \in Pid \cup {0} /\ table[s].status \in ProcessStatus \cup {"free"}
      BY <1>2, EntryType
    <3>2. QED
      BY <1>2, <2>1, <2>3, <3>1 DEF Entry
  <2>5. QED
    BY <2>3, <2>4
<1>4. TicksOK'
  <2>1. process_tick' \in Nat /\ sync_tick' \in 0 .. process_tick'
    BY <1>2 DEF Base, TicksOK
  <2>2. QED
    BY <2>1 DEF TicksOK
<1>5. process_tick <= process_tick' /\ t.tick <= process_tick' /\ t.sync <= t.tick /\ t.tick # t.sync
  BY <1>2, <1>3
<1>6. table'[s] = t /\ \A r \in Slot \ {s} : table'[r] = table[r]
  BY <1>1, <1>3, Written DEF Base
<1>7. cur \in Slot /\ cur' \in Slot
  BY DEF Base, RuntimeOK
<1>8. PcInv'
  <2>1. CASE UNCHANGED <<pc, cur>>
    <3>1. table'[cur].id = table[cur].id
      BY <1>3, <1>6, <1>7
    <3>2. table'[cur].raw = table[cur].raw \/ (table'[cur].raw \in ProcessStatus /\ cur = s)
      BY <1>3, <1>6, <1>7
    <3>3. QED
      BY <2>1, <3>1, <3>2, Distinct DEF Base, PcInv
  <2>2. CASE pc = "scheme" /\ pc' = "wait" /\ cur' = s
    BY <1>3, <1>6, <2>2 DEF PcInv, Making
  <2>3. QED
    BY <2>1, <2>2
<1>9. SlotOK(t, subs'[s], s = cur', pc')
  <2>1. SlotOK(table[s], subs[s], s = cur, pc)
    BY SlotsMeaning DEF Base
  <2>2. QED
    BY <1>3, <1>5, <2>1, Distinct DEF SlotOK, Making
<1>10. \A r \in Slot \ {s} : r = cur /\ pc \in Making \cup {"wait"} => pc' = pc /\ cur' = cur
  BY DEF Making
<1>11. QED
  <2>1. \A r \in Slot \ {s} : subs'[r] = subs[r]
    OBVIOUS
  <2>2. QED
    BY <1>1, <1>3, <1>4, <1>5, <1>8, <1>9, <1>10, <2>1, WriteKeeps

\* waitpid reports a child, and frees its pid when it is dead.
LEMMA WaitpidKernel ==
  ASSUME Base, NEW p \in Pid, Waitpid(p)
  PROVE  /\ KernelOK' /\ Cardinality(unreported') = Cardinality(unreported) - 1
         /\ child[p] \in Reportable
<1>1. /\ p \in unreported /\ handling /\ unreported' = unreported \ {p} /\ UNCHANGED <<sigchld, handling, pc>>
      /\ child' = [child EXCEPT ![p] = IF @ \in Dead THEN "free" ELSE @]
  BY DEF Waitpid
<1>2. IsFiniteSet(unreported) /\ Cardinality(unreported) \in Nat
  BY CountType DEF Base, KernelOK
<1>3. IsFiniteSet(unreported \ {p}) /\ Cardinality(unreported \ {p}) = Cardinality(unreported) - 1
  BY <1>1, <1>2, FS_RemoveElement
<1>4. child' \in [Pid -> ChildStatus] /\ \A q \in Pid \ {p} : child'[q] = child[q]
  BY <1>1, Distinct DEF Base, KernelOK
<1>5. QED
  BY <1>1, <1>3, <1>4 DEF Base, KernelOK, Masked

LEMMA WaitpidStep ==
  ASSUME Base, NEW p \in Pid, Waitpid(p)
  PROVE  Base'
<1>1. /\ KernelOK' /\ Cardinality(unreported') = Cardinality(unreported) - 1
      /\ child[p] \in Reportable
  BY WaitpidKernel
<1>2. /\ UNCHANGED <<sync_tick, pc, cur, signo, todo, subs, reg, waiting, result, fg>>
      /\ subprocess_death(p)
  BY DEF Waitpid
<1>3. /\ Cardinality(unreported) \in Nat /\ process_tick \in Nat /\ MaxTick \in Nat
      /\ (Sending' <=> Sending)
  BY <1>2, CountType, Constants DEF Base, TicksOK, Sending
<1>4. RuntimeOK'
  BY <1>2 DEF Base, RuntimeOK
<1>5. CASE find_process(p) = {}
  <2>1. UNCHANGED <<table, process_tick>>
    BY <1>2, <1>5 DEF subprocess_death
  <2>2. TicksOK'
    BY <1>1, <1>2, <1>3, <2>1 DEF Base, TicksOK, Due
  <2>3. TableOK' /\ SlotsInv' /\ PcInv'
    BY <1>2, <2>1 DEF Base, TableOK, SlotsInv, PcInv
  <2>4. QED
    BY <1>1, <1>4, <2>2, <2>3 DEF Base
<1>6. CASE find_process(p) # {}
  <2>1. PICK s \in find_process(p) : table' = NewRawStatus(table, s, child[p])
    BY <1>2, <1>6 DEF subprocess_death
  <2>2. s \in Slot /\ table[s].id = p
    BY Found
  <2>3. table[s].raw \in ProcessStatus
    <3>1. table[s].raw \in RawStatus
      BY <2>2, EntryType DEF Base, TableOK
    <3>2. table[s].raw \notin {"free", "allocated"}
      BY <2>2, Constants DEF Base, SlotsInv
    <3>3. QED
      BY <3>1, <3>2 DEF RawStatus, ProcessStatus
  <2>4. process_tick' = process_tick + 1
    BY <1>2, <1>6 DEF subprocess_death
  <2>5. process_tick' + Due' <= MaxTick
    BY <1>1, <1>3, <2>4 DEF Base, TicksOK, Due
  <2>6. sync_tick' = sync_tick /\ child[p] \in ProcessStatus
    BY <1>1, <1>2, Distinct
  <2>7. UNCHANGED <<subs, signo>> /\ UNCHANGED <<pc, cur>>
    BY <1>2
  <2>8. QED
    BY <1>1, <1>4, <2>1, <2>2, <2>3, <2>4, <2>5, <2>6, <2>7, RawStatusKeeps
<1>7. QED
  BY <1>5, <1>6

\* OS_process_continue_background and _foreground.
LEMMA ContinuesStep ==
  ASSUME Base, Continues
  PROVE  Base'
<1>1. PICK s \in Slot :
        /\ TickLeft /\ table[s].raw \in Live /\ Continue(s) /\ pc = "scheme" /\ ~handling
        /\ subs[s] # None
        /\ UNCHANGED <<sync_tick, signo, todo, subs, reg, waiting, result, fg>>
        /\ UNCHANGED <<pc, cur>> \/ (pc' = "wait" /\ cur' = s)
  <2>1. CASE \E s \in Slot : OS_process_continue_background(s)
    BY <2>1 DEF OS_process_continue_background
  <2>2. CASE OS_process_continue_foreground
    <3>1. fg \in Slot /\ pc = "scheme" /\ table[fg].raw \in Live
      BY <2>2 DEF OS_process_continue_foreground, Base, RuntimeOK
    <3>2. subs[fg] # None
      BY <3>1, Distinct DEF Base, SlotsInv, Making
    <3>3. QED
      BY <2>2, <3>1, <3>2 DEF OS_process_continue_foreground
  <2>3. QED
    BY <2>1, <2>2 DEF Continues
<1>2. table[s].raw \in ProcessStatus /\ table[s].id \in Pid /\ ~Sending /\ ~Sending'
  BY <1>1, Distinct DEF Base, SlotsInv, Sending
<1>3. RuntimeOK'
  BY <1>1 DEF Base, RuntimeOK, Places
<1>4. CASE table[s].raw = "stopped"
  <2>1. /\ table' = NewRawStatus(table, s, "running") /\ process_tick' = process_tick + 1
        /\ SendContinue(table[s].id)
    BY <1>1, <1>4 DEF Continue
  <2>2. /\ child' \in [Pid -> ChildStatus]
        /\ unreported' \subseteq Pid /\ IsFiniteSet(unreported')
        /\ \A q \in unreported' : child'[q] \in Reportable
        /\ sigchld' \in BOOLEAN /\ handling' = handling
        /\ Cardinality(unreported') <= Cardinality(unreported)
    BY <1>2, <2>1, ContinueMeaning DEF Base
  <2>3. KernelOK'
    BY <1>1, <2>2 DEF Base, KernelOK
  <2>4. process_tick' + Due' <= MaxTick
    <3>1. /\ Cardinality(unreported) \in Nat /\ process_tick \in Nat /\ MaxTick \in Nat
          /\ Cardinality(unreported') \in Nat
      BY <2>2, CountType, Constants, FS_CardinalityType DEF Base, TicksOK
    <3>2. QED
      BY <1>1, <1>2, <2>1, <2>2, <3>1 DEF TickLeft, Due
  <2>5. sync_tick' = sync_tick /\ "running" \in ProcessStatus /\ UNCHANGED <<subs, signo>>
    BY <1>1, Distinct
  <2>6. UNCHANGED <<pc, cur>> \/ (pc = "scheme" /\ pc' = "wait" /\ cur' = s)
    BY <1>1
  <2>7. QED
    BY <1>2, <1>3, <2>1, <2>3, <2>4, <2>5, <2>6, RawStatusKeeps
<1>5. CASE table[s].raw # "stopped"
  <2>1. UNCHANGED <<child, unreported, sigchld, handling, table, process_tick, sync_tick, subs>>
    BY <1>1, <1>5 DEF Continue
  <2>2. PcInv'
    BY <1>1, <1>2, <2>1 DEF Base, PcInv, Making
  <2>3. /\ \A r \in Slot : subs[r] = None /\ pc \in Making \cup {"wait"} /\ r = cur =>
             pc' \in Making \cup {"wait"} /\ r = cur'
        /\ pc = "dealloc" => pc' = "dealloc" /\ cur' = cur
    BY <1>1 DEF Making
  <2>4. sigchld' \in BOOLEAN /\ handling' \in BOOLEAN /\ (Masked' => ~handling')
    BY <1>1, <2>1 DEF Base, KernelOK
  <2>5. UNCHANGED <<child, unreported, table, process_tick, sync_tick, subs>>
    BY <2>1
  <2>6. QED
    BY <1>2, <1>3, <2>2, <2>3, <2>4, <2>5, MovesKeep
<1>6. QED
  BY <1>4, <1>5

\* vfork.
LEMMA MakeStep ==
  ASSUME Base, NEW p \in Pid, OS_make_subprocess(p)
  PROVE  Base'
<1> DEFINE t == NewProcess(cur, p)
<1>1. /\ pc = "fork" /\ ~handling /\ child[p] = "free" /\ child' = [child EXCEPT ![p] = "running"]
      /\ table' = [table EXCEPT ![cur] = t] /\ pc' \in {"object", "terminal"} /\ cur' = cur
      /\ UNCHANGED <<unreported, sigchld, handling, process_tick, sync_tick, signo, todo>>
      /\ UNCHANGED <<subs, reg, waiting, result, fg>>
  BY DEF OS_make_subprocess
<1>2. process_tick \in Nat /\ cur \in Slot /\ subs[cur] = None
  BY <1>1 DEF Base, TicksOK, RuntimeOK, PcInv, Making
<1>3. /\ t \in Entry /\ t.raw = "running" /\ t.id = p /\ t.tick = process_tick
      /\ t.sync = process_tick /\ t.status = "running"
  BY <1>2, Distinct DEF NewProcess, Entry
<1> HIDE DEF t
<1>4. KernelOK'
  <2>1. p \notin unreported
    BY <1>1, Distinct DEF Base, KernelOK
  <2>2. child' \in [Pid -> ChildStatus] /\ \A q \in unreported : child'[q] = child[q]
    BY <1>1, <2>1, Distinct DEF Base, KernelOK
  <2>3. QED
    BY <1>1, <2>2 DEF Base, KernelOK
<1>5. TicksOK'
  <2>1. Cardinality(unreported) \in Nat /\ process_tick \in Nat /\ MaxTick \in Nat
    BY CountType, Constants DEF Base, TicksOK
  <2>2. Sending
    BY <1>1 DEF Sending
  <2>3. QED
    BY <1>1, <2>1, <2>2 DEF Base, TicksOK, Due
<1>6. RuntimeOK'
  BY <1>1 DEF Base, RuntimeOK, Places
<1>7. table'[cur] = t
  BY <1>1, <1>2, <1>3, Written DEF Base
<1>8. PcInv'
  BY <1>1, <1>2, <1>3, <1>7, Distinct DEF PcInv
<1>9. SlotOK(t, subs'[cur], cur = cur', pc')
  BY <1>1, <1>2, <1>3, Distinct DEF SlotOK, Making
<1>10. /\ process_tick <= process_tick' /\ t.tick <= process_tick' /\ t.sync <= t.tick
       /\ \A r \in Slot \ {cur} : subs'[r] = subs[r]
       /\ \A r \in Slot \ {cur} : r = cur /\ pc \in Making \cup {"wait"} => pc' = pc /\ cur' = cur
  BY <1>1, <1>2, <1>3
<1>11. QED
  BY <1>1, <1>2, <1>3, <1>4, <1>5, <1>6, <1>8, <1>9, <1>10, WriteKeeps

\* The first step of OS_process_deallocate.
LEMMA ForgetEntry ==
  ASSUME TableOK, NEW s \in Slot, table' = Deallocated(table, s, 1)
  PROVE  \E t \in Entry :
           /\ table' = [table EXCEPT ![s] = t] /\ t.id = 0 /\ t.raw = table[s].raw
           /\ t.status = table[s].status /\ t.tick = table[s].tick /\ t.sync = table[s].sync
<1> DEFINE t == [table[s] EXCEPT !.id = 0]
<1>1. table[s] \in Entry
  BY DEF TableOK
<1>2. /\ t \in Entry /\ t.id = 0 /\ t.raw = table[s].raw
      /\ t.status = table[s].status /\ t.tick = table[s].tick /\ t.sync = table[s].sync
  BY <1>1 DEF Entry
<1>3. table' = [table EXCEPT ![s] = t]
  BY DEF Deallocated
<1> HIDE DEF t
<1>4. QED
  BY <1>2, <1>3

\* A step that forgets a pid and goes on to free the slot.
LEMMA ForgetKeeps ==
  ASSUME Base, NEW s \in Slot, table' = Deallocated(table, s, 1), pc' = "dealloc", cur' = s,
         pc = "scheme" \/ (pc \in {"abort", "abort-kill"} /\ s = cur),
         UNCHANGED <<process_tick, sync_tick>>, KernelOK', RuntimeOK', process_tick + Due' <= MaxTick,
         subs'[s] = None, \A r \in Slot \ {s} : subs'[r] = subs[r]
  PROVE  Base'
<1>1. PICK t \in Entry :
        /\ table' = [table EXCEPT ![s] = t] /\ t.id = 0 /\ t.raw = table[s].raw
        /\ t.status = table[s].status /\ t.tick = table[s].tick /\ t.sync = table[s].sync
  BY ForgetEntry DEF Base
<1>2. /\ table[s].tick <= process_tick /\ table[s].sync <= table[s].tick /\ process_tick \in Nat
      /\ SlotOK(table[s], subs[s], s = cur, pc)
  BY SlotsMeaning DEF Base, TableOK, TicksOK
<1>3. table'[s] = t
  BY <1>1, Written DEF Base
<1>4. PcInv'
  BY <1>1, <1>3 DEF PcInv, Making
<1>5. SlotOK(t, subs'[s], s = cur', pc')
  BY <1>1, <1>2 DEF SlotOK, Making
<1>6. TicksOK'
  BY DEF Base, TicksOK
<1>7. process_tick <= process_tick' /\ t.tick <= process_tick' /\ t.sync <= t.tick
  BY <1>1, <1>2
<1>8. \A r \in Slot \ {s} : r = cur /\ pc \in Making \cup {"wait"} => pc' = pc /\ cur' = cur
  BY DEF Making
<1>9. QED
  BY <1>1, <1>4, <1>5, <1>6, <1>7, <1>8, WriteKeeps

\* process_allocate_abort, and the kill that it begins with.
LEMMA AbortStep ==
  ASSUME Base, process_allocate_abort
  PROVE  Base'
<1>1. /\ pc = "abort" /\ ~handling /\ cur' = cur /\ cur \in Slot /\ subs[cur] = None
      /\ UNCHANGED <<child, unreported, sigchld, handling, process_tick, sync_tick, signo, todo>>
      /\ UNCHANGED <<subs, reg, waiting, result, fg>>
  BY DEF process_allocate_abort, Base, RuntimeOK, PcInv, Making
<1>2. CASE table[cur].raw \in Live
  <2>1. pc' = "abort-kill" /\ UNCHANGED table
    BY <1>2 DEF process_allocate_abort
  <2>2. RuntimeOK' /\ PcInv'
    BY <1>1, <1>2, <2>1, Distinct DEF Base, RuntimeOK, PcInv, Places, Making
  <2>3. (Sending' => Sending) /\ sigchld' \in BOOLEAN /\ handling' \in BOOLEAN /\ (Masked' => ~handling')
    BY <1>1, <2>1 DEF Sending, Base, KernelOK
  <2>4. /\ \A s \in Slot : subs[s] = None /\ pc \in Making \cup {"wait"} /\ s = cur =>
             pc' \in Making \cup {"wait"} /\ s = cur'
        /\ pc = "dealloc" => pc' = "dealloc" /\ cur' = cur
    BY <1>1, <2>1 DEF Making
  <2>5. UNCHANGED <<child, unreported, table, process_tick, sync_tick, subs>>
    BY <1>1, <2>1
  <2>6. QED
    BY <2>2, <2>3, <2>4, <2>5, MovesKeep
<1>3. CASE table[cur].raw \notin Live
  <2>1. table' = Deallocated(table, cur, 1) /\ pc' = "dealloc"
    BY <1>3 DEF process_allocate_abort
  <2>2. KernelOK' /\ RuntimeOK'
    BY <1>1, <2>1 DEF Base, KernelOK, RuntimeOK, Places
  <2>3. process_tick + Due' <= MaxTick
    <3>1. Cardinality(unreported) \in Nat /\ process_tick \in Nat /\ MaxTick \in Nat
      BY CountType, Constants DEF Base, TicksOK
    <3>2. ~Sending' /\ Sending
      BY <1>1, <2>1 DEF Sending
    <3>3. QED
      BY <1>1, <3>1, <3>2 DEF Base, TicksOK, Due
  <2>4. UNCHANGED <<process_tick, sync_tick>> /\ subs'[cur] = None
        /\ \A r \in Slot \ {cur} : subs'[r] = subs[r]
    BY <1>1
  <2>5. QED
    BY <1>1, <2>1, <2>2, <2>3, <2>4, ForgetKeeps
<1>4. QED
  BY <1>2, <1>3

LEMMA AbortKillStep ==
  ASSUME Base, AbortKill
  PROVE  Base'
<1>1. /\ pc = "abort-kill" /\ ~handling /\ cur' = cur /\ cur \in Slot /\ subs[cur] = None
      /\ pc' = "dealloc" /\ table' = Deallocated(table, cur, 1)
      /\ UNCHANGED <<process_tick, sync_tick, signo, todo, subs, reg, waiting, result, fg>>
  BY DEF AbortKill, Base, RuntimeOK, PcInv, Making
<1>2. /\ child' \in [Pid -> ChildStatus]
      /\ unreported' \subseteq Pid /\ IsFiniteSet(unreported')
      /\ \A q \in unreported' : child'[q] \in Reportable
      /\ sigchld' \in BOOLEAN /\ handling' = handling
      /\ Cardinality(unreported') <= Cardinality(unreported) + 1
  <2>1. CASE table[cur].id = 0
    <3>1. UNCHANGED <<child, unreported, sigchld, handling>>
      BY <2>1 DEF AbortKill
    <3>2. QED
      BY <3>1, CountType DEF Base, KernelOK
  <2>2. CASE table[cur].id # 0
    <3>1. table[cur].id \in Pid
      BY <1>1, <2>2, EntryType DEF Base, TableOK
    <3>2. UX_kill(table[cur].id, "SIGKILL")
      BY <2>2 DEF AbortKill
    <3>3. QED
      BY <3>1, <3>2, KillMeaning DEF Base
  <2>3. QED
    BY <2>1, <2>2
<1>3. KernelOK' /\ RuntimeOK'
  BY <1>1, <1>2 DEF Base, KernelOK, RuntimeOK, Places
<1>4. process_tick + Due' <= MaxTick
  <2>1. /\ Cardinality(unreported) \in Nat /\ process_tick \in Nat /\ MaxTick \in Nat
        /\ Cardinality(unreported') \in Nat
    BY <1>2, CountType, Constants, FS_CardinalityType DEF Base, TicksOK
  <2>2. ~Sending' /\ Sending
    BY <1>1 DEF Sending
  <2>3. QED
    BY <1>2, <2>1, <2>2 DEF Base, TicksOK, Due
<1>5. UNCHANGED <<process_tick, sync_tick>> /\ subs'[cur] = None
      /\ \A r \in Slot \ {cur} : subs'[r] = subs[r]
  BY <1>1
<1>6. QED
  BY <1>1, <1>3, <1>4, <1>5, ForgetKeeps

LEMMA DeleteStep ==
  ASSUME Base, NEW s \in Slot, subprocess_delete(s)
  PROVE  Base'
<1>1. /\ pc = "scheme" /\ ~handling /\ cur' = s /\ pc' = "dealloc"
      /\ table' = Deallocated(table, s, 1) /\ subs' = [subs EXCEPT ![s] = None]
      /\ reg' = [reg EXCEPT ![s] = None] /\ waiting' = [waiting EXCEPT ![s] = FALSE]
      /\ result' = [result EXCEPT ![s] = None]
      /\ UNCHANGED <<child, unreported, sigchld, handling, process_tick, sync_tick, signo, todo>>
      /\ fg' \in Slot \cup {NSlots}
  BY DEF subprocess_delete, Base, RuntimeOK
<1>2. KernelOK'
  BY <1>1 DEF Base, KernelOK
<1>3. RuntimeOK'
  <2>1. todo' = {}
    BY <1>1 DEF Base, RuntimeOK
  <2>2. QED
    BY <1>1, <2>1 DEF Base, RuntimeOK, Places
<1>4. process_tick + Due' <= MaxTick
  <2>1. (Sending' <=> Sending)
    BY <1>1 DEF Sending
  <2>2. QED
    BY <1>1, <2>1 DEF Base, TicksOK, Due
<1>5. UNCHANGED <<process_tick, sync_tick>> /\ subs'[s] = None
      /\ \A r \in Slot \ {s} : subs'[r] = subs[r]
  BY <1>1 DEF Base, RuntimeOK
<1>6. QED
  BY <1>1, <1>2, <1>3, <1>4, <1>5, ForgetKeeps

\* PROCESS_STATUS_SYNC: the status is the raw one, whether it was copied before or is
\* copied now.
LEMMA SyncedEntry ==
  ASSUME Base, NEW s \in Slot, table[s].raw \in ProcessStatus,
         table' = [table EXCEPT ![s] = Synced(@)]
  PROVE  \E t \in Entry :
           /\ table' = [table EXCEPT ![s] = t] /\ t.id = table[s].id /\ t.raw = table[s].raw
           /\ t.status = table[s].raw /\ t.tick = table[s].tick /\ t.sync = table[s].tick
           /\ t = Synced(table[s])
<1> DEFINE t == Synced(table[s])
<1>1. table[s] \in Entry /\ table \in [Slot -> Entry]
  BY DEF Base, TableOK
<1>2. table' = [table EXCEPT ![s] = t]
  OBVIOUS
<1>3. CASE table[s].tick = table[s].sync
  <2>1. t = table[s]
    BY <1>3 DEF Synced
  <2>2. table[s].status = table[s].raw
    BY <1>3 DEF Base, SlotsInv
  <2>3. QED
    BY <1>1, <1>2, <1>3, <2>1, <2>2
<1>4. CASE table[s].tick # table[s].sync
  <2>1. t = [id |-> table[s].id, raw |-> table[s].raw, status |-> table[s].raw,
             tick |-> table[s].tick, sync |-> table[s].tick]
    BY <1>1, <1>4 DEF Synced, Entry
  <2>2. table[s].id \in Pid \cup {0} /\ table[s].tick \in Nat /\ table[s].raw \in RawStatus
    BY <1>1, EntryType
  <2>3. t \in Entry
    BY <2>1, <2>2 DEF Entry
  <2>4. /\ t.id = table[s].id /\ t.raw = table[s].raw
        /\ t.status = table[s].raw /\ t.tick = table[s].tick /\ t.sync = table[s].tick
    BY <2>1
  <2>5. QED
    BY <1>2, <2>3, <2>4
<1>5. QED
  BY <1>3, <1>4

\* A step that copies the status of a slot to its object.
LEMMA SyncKeeps ==
  ASSUME Base, NEW s \in Slot, table[s].raw \in ProcessStatus, table[s].id \in Pid,
         table' = [table EXCEPT ![s] = Synced(@)], subs' = [subs EXCEPT ![s] = table[s].raw],
         UNCHANGED <<child, unreported, sigchld, handling, process_tick, sync_tick, cur, signo, reg, waiting, result, fg>>,
         \/ pc = "object" /\ s = cur /\ pc' = "scheme" /\ todo' = todo
         \/ pc = "hsc" /\ pc' = "hsc" /\ todo' = todo \ {s},
         ~handling
  PROVE  Base'
<1>1. PICK t \in Entry :
        /\ table' = [table EXCEPT ![s] = t] /\ t.id = table[s].id /\ t.raw = table[s].raw
        /\ t.status = table[s].raw /\ t.tick = table[s].tick /\ t.sync = table[s].tick
  BY SyncedEntry
<1>2. KernelOK'
  BY DEF Base, KernelOK
<1>3. TicksOK'
  <2>1. Sending' <=> Sending
    BY DEF Sending
  <2>2. QED
    BY <2>1 DEF Base, TicksOK, Due
<1>4. RuntimeOK'
  BY Distinct DEF Base, RuntimeOK, Places
<1>5. subs'[s] = table[s].raw /\ \A r \in Slot \ {s} : subs'[r] = subs[r]
  BY DEF Base, RuntimeOK
<1>6. PcInv'
  BY DEF PcInv, Making
<1>7. SlotOK(t, subs'[s], s = cur', pc')
  BY <1>1, <1>5, Distinct DEF SlotOK
<1>8. process_tick <= process_tick' /\ t.tick <= process_tick' /\ t.sync <= t.tick
  <2>1. process_tick \in Nat /\ table[s].tick \in Nat /\ table[s].tick <= process_tick
    BY EntryType DEF Base, TicksOK, TableOK
  <2>2. QED
    BY <1>1, <2>1
<1>9. \A r \in Slot \ {s} : r = cur /\ pc \in Making \cup {"wait"} => pc' = pc /\ cur' = cur
  BY DEF Making
<1>10. QED
  BY <1>1, <1>2, <1>3, <1>4, <1>5, <1>6, <1>7, <1>8, <1>9, WriteKeeps

LEMMA ObjectMeaning ==
  ASSUME Base, make_subprocess
  PROVE  /\ cur \in Slot /\ table[cur].raw \in ProcessStatus /\ table[cur].id \in Pid
         /\ subs[cur] = None /\ ~handling /\ pc = "object" /\ pc' = "scheme"
         /\ table' = [table EXCEPT ![cur] = Synced(@)] /\ subs' = [subs EXCEPT ![cur] = table[cur].raw]
         /\ UNCHANGED <<child, unreported, sigchld, handling, process_tick, sync_tick, cur, signo, reg, waiting, result, fg>>
         /\ UNCHANGED todo
<1>1. pc = "object" /\ cur \in Slot
  BY DEF make_subprocess, Base, RuntimeOK
<1>2. table[cur].raw \in ProcessStatus /\ table[cur].id \in Pid /\ subs[cur] = None
  BY <1>1 DEF Base, PcInv, SlotsInv, Making
<1>3. QED
  BY <1>1, <1>2 DEF make_subprocess

LEMMA PollMeaning ==
  ASSUME Base, NEW s \in Slot, poll_subprocess_status(s)
  PROVE  /\ table[s].raw \in ProcessStatus /\ table[s].id \in Pid /\ subs[s] # None
         /\ ~handling /\ pc = "hsc" /\ pc' = "hsc" /\ s \in todo /\ todo' = todo \ {s}
         /\ table' = [table EXCEPT ![s] = Synced(@)] /\ subs' = [subs EXCEPT ![s] = table[s].raw]
         /\ UNCHANGED <<child, unreported, sigchld, handling, process_tick, sync_tick, cur, signo, reg, waiting, result, fg>>
<1>1. /\ pc = "hsc" /\ pc' = "hsc" /\ ~handling /\ s \in todo /\ todo' = todo \ {s}
      /\ table' = [table EXCEPT ![s] = Synced(@)] /\ subs' = [subs EXCEPT ![s] = Synced(table[s]).status]
      /\ UNCHANGED <<child, unreported, sigchld, handling, process_tick, sync_tick, cur, signo, reg, waiting, result, fg>>
  BY DEF poll_subprocess_status
<1>2. subs[s] # None
  BY <1>1 DEF Base, RuntimeOK
<1>3. table[s].raw \in ProcessStatus /\ table[s].id \in Pid
  BY <1>1, <1>2 DEF Base, SlotsInv
<1>4. Synced(table[s]).status = table[s].raw
  BY <1>1, <1>3, SyncedEntry
<1>5. QED
  BY <1>1, <1>2, <1>3, <1>4

LEMMA ObjectStep ==
  ASSUME Base, make_subprocess
  PROVE  Base'
  BY ObjectMeaning, SyncKeeps

LEMMA PollStep ==
  ASSUME Base, NEW s \in Slot, poll_subprocess_status(s)
  PROVE  Base'
  BY PollMeaning, SyncKeeps

\* The last step of OS_process_deallocate.
LEMMA FreeStep ==
  ASSUME Base, OS_process_deallocate
  PROVE  Base'
<1> DEFINE t == [table[cur] EXCEPT !.raw = "free"]
<1>1. /\ pc = "dealloc" /\ ~handling /\ pc' = "scheme" /\ cur' = cur /\ cur \in Slot
      /\ table' = [table EXCEPT ![cur] = t]
      /\ UNCHANGED <<child, unreported, sigchld, handling, process_tick, sync_tick, signo, todo>>
      /\ UNCHANGED <<subs, reg, waiting, result, fg>>
  BY DEF OS_process_deallocate, Deallocated, Base, RuntimeOK
<1>2. table[cur] \in Entry /\ table[cur].id = 0 /\ subs[cur] = None
      /\ table[cur].tick <= process_tick /\ table[cur].sync <= table[cur].tick
  BY <1>1 DEF Base, TableOK, PcInv, Making
<1>3. /\ t \in Entry /\ t.raw = "free" /\ t.id = 0 /\ t.tick = table[cur].tick
      /\ t.sync = table[cur].sync
  BY <1>2 DEF Entry, RawStatus
<1> HIDE DEF t
<1>4. KernelOK' /\ RuntimeOK'
  BY <1>1 DEF Base, KernelOK, RuntimeOK, Places
<1>5. TicksOK'
  <2>1. ~Sending /\ ~Sending'
    BY <1>1 DEF Sending
  <2>2. QED
    BY <1>1, <2>1 DEF Base, TicksOK, Due
<1>6. PcInv'
  BY <1>1 DEF PcInv, Making
<1>7. SlotOK(t, subs'[cur], cur = cur', pc')
  BY <1>1, <1>2, <1>3, Distinct DEF SlotOK
<1>8. process_tick <= process_tick' /\ t.tick <= process_tick' /\ t.sync <= t.tick
  BY <1>1, <1>2, <1>3 DEF Base, TicksOK
<1>9. /\ \A r \in Slot \ {cur} : subs'[r] = subs[r]
      /\ \A r \in Slot \ {cur} : r = cur /\ pc \in Making \cup {"wait"} => pc' = pc /\ cur' = cur
  BY <1>1
<1>10. QED
  BY <1>1, <1>3, <1>4, <1>5, <1>6, <1>7, <1>8, <1>9, WriteKeeps

LEMMA BaseInit ==
  ASSUME Init
  PROVE  Base
<1>1. KernelOK
  <2>1. IsFiniteSet(unreported)
    BY FS_EmptySet DEF Init
  <2>2. QED
    BY <2>1, Distinct DEF Init, KernelOK, Masked
<1>2. TicksOK
  <2>1. Cardinality(unreported) = 0 /\ ~Sending /\ MaxTick \in Nat
    BY FS_EmptySet, Constants DEF Init, Sending
  <2>2. QED
    BY <2>1 DEF Init, TicksOK, Due
<1>3. TableOK
  BY DEF Init, TableOK, Entry, RawStatus
<1>4. RuntimeOK /\ SlotsInv /\ PcInv
  BY Constants, Distinct DEF Init, RuntimeOK, SlotsInv, PcInv, Places, Making
<1>5. QED
  BY <1>1, <1>2, <1>3, <1>4 DEF Base

LEMMA BaseNext ==
  ASSUME Base, [Next]_vars
  PROVE  Base'
<1>1. ASSUME Next PROVE Base'
  BY <1>1, Groups, MovesStep, SyncsStep, ContinuesStep, HandlerSteps, ChildStep, WaitpidStep,
     MakeStep, AllocateStep, DeleteStep, PollStep, AbortStep, AbortKillStep, SendStep, ObjectStep,
     FreeStep
<1>2. ASSUME UNCHANGED vars PROVE Base'
  BY <1>2 DEF vars, Base, KernelOK, TicksOK, TableOK, RuntimeOK, SlotsInv, PcInv, Masked, Due, Sending
<1>3. QED
  BY <1>1, <1>2

LEMMA BaseHolds == Spec => []Base
  BY BaseInit, BaseNext, PTL DEF Spec

\* The bounds and the slots, from the inductive invariant.
LEMMA BaseGivesTable ==
  ASSUME Base
  PROVE  TableInv
<1>1. process_tick \in 0 .. MaxTick
  <2>1. Cardinality(unreported) \in Nat /\ process_tick \in Nat /\ MaxTick \in Nat
    BY CountType, Constants DEF Base, TicksOK
  <2>2. QED
    BY <2>1 DEF Base, TicksOK, Due
<1>2. table \in [Slot -> [id : Pid \cup {0}, raw : RawStatus, status : ProcessStatus \cup {"free"},
                          tick : 0 .. MaxTick, sync : 0 .. MaxTick]]
  <2>1. ASSUME NEW s \in Slot
        PROVE  table[s] \in [id : Pid \cup {0}, raw : RawStatus, status : ProcessStatus \cup {"free"},
                             tick : 0 .. MaxTick, sync : 0 .. MaxTick]
    <3>1. /\ table[s] \in Entry /\ table[s].tick <= process_tick /\ table[s].sync <= table[s].tick
          /\ table[s].tick \in Nat /\ table[s].sync \in Nat
      BY EntryType DEF Base, TableOK
    <3>2. table[s].tick \in 0 .. MaxTick /\ table[s].sync \in 0 .. MaxTick
      BY <1>1, <3>1, Constants
    <3>3. QED
      BY <3>1, <3>2 DEF Entry
  <2>2. QED
    BY <2>1 DEF Base, TableOK
<1>3. TypeOK
  BY <1>1, <1>2 DEF Base, KernelOK, TicksOK, RuntimeOK, TypeOK
<1>4. NoSlotLeaks
  BY Distinct DEF NoSlotLeaks, Base, SlotsInv, Making
<1>5. QED
  BY <1>3, <1>4 DEF TableInv

\* The process table stays well formed, with the ticks within their bound, no slot lost
\* and none given away twice, whatever the children do and wherever the handler of
\* SIGCHLD runs between the assignments of process_allocate and OS_process_deallocate,
\* even if a new child gets the pid of one that is still in the table.
THEOREM TableCorrect == Spec => []TableInv
  BY BaseHolds, BaseGivesTable, PTL

-----------------------------------------------------------------------------
(* What a step does to the children, the table and the objects.            *)

\* No pid is freed and none is taken.
NoneFreed == \A p \in Pid : child'[p] = "free" <=> child[p] = "free"

\* No child is continued by the program, and none is started.
NoneStarted == \A p \in Pid : child'[p] = "running" => child[p] = "running"

\* Only the entry and the object of slot s are written.
OnlySlot(s) == \A r \in Slot \ {s} : table'[r] = table[r] /\ subs'[r] = subs[r]

\* Neither the table nor the objects are written, or nothing but the kernel's state is.
TableKept ==
  /\ UNCHANGED <<table, subs, process_tick>> /\ NoneFreed /\ NoneStarted
  /\ UNCHANGED <<todo, sync_tick>> \/ todo' = {s \in Slot : subs[s] # None}

\* A slot without an object is allocated, or given up.
SlotEmptied(s) ==
  /\ OnlySlot(s) /\ table'[s].id = 0 /\ subs'[s] = None /\ NoneFreed /\ NoneStarted
  /\ UNCHANGED <<process_tick, sync_tick, todo>>

\* A child is made.
SlotFilled(s, p) ==
  /\ OnlySlot(s) /\ table'[s].id = p /\ table'[s].raw = "running" /\ subs'[s] = None
  /\ child' = [child EXCEPT ![p] = "running"]
  /\ ~Recycle => \A r \in Slot : table[r].id # p
  /\ UNCHANGED <<process_tick, sync_tick, todo>>

\* The status of a slot is copied to its object.
SlotCopied(s) ==
  /\ OnlySlot(s) /\ table'[s].id = table[s].id /\ table'[s].raw = table[s].raw
  /\ subs'[s] = table'[s].raw
  /\ UNCHANGED <<child, process_tick, sync_tick>> /\ todo \ {s} \subseteq todo'

\* The raw status of a slot changes, which counts.
SlotChanged(s, status) ==
  /\ OnlySlot(s) /\ table'[s].id = table[s].id /\ table'[s].raw = status /\ subs'[s] = subs[s]
  /\ table'[s].tick # table'[s].sync /\ process_tick' # sync_tick' /\ todo' = todo

\* A stopped child is continued.
SlotContinued(s) ==
  /\ SlotChanged(s, "running") /\ table[s].raw = "stopped" /\ table[s].id \in Pid /\ NoneFreed
  /\ \A p \in Pid \ {table[s].id} : child'[p] = child[p]

\* waitpid reports child p.
Reported(p) ==
  /\ child' = [child EXCEPT ![p] = IF @ \in Dead THEN "free" ELSE @] /\ child[p] \in Reportable
  /\ \/ find_process(p) = {} /\ UNCHANGED <<table, process_tick, sync_tick, todo, subs>>
     \/ \E s \in find_process(p) : SlotChanged(s, child[p])

LEMMA KillKeeps ==
  ASSUME Base, NEW p \in Pid, NEW sig, UX_kill(p, sig)
  PROVE  NoneFreed /\ NoneStarted
<1>1. /\ \A q \in Pid \ {p} : child'[q] = child[q]
      /\ child'[p] = "free" <=> child[p] = "free"
      /\ child'[p] = "running" => child[p] = "running"
  BY KillMeaning DEF Base
<1>2. QED
  BY <1>1 DEF NoneFreed, NoneStarted

LEMMA ChildKeeps ==
  ASSUME Base, NEW p \in Pid, ChildChanges(p)
  PROVE  TableKept
<1>1. NoneFreed /\ NoneStarted
  <2>1. CASE \E state \in Reportable : Changes(p, state) /\ child[p] \in Running \cup {"stopped"}
    <3>1. PICK state \in Reportable : Changes(p, state) /\ child[p] \in Running \cup {"stopped"}
      BY <2>1
    <3>2. child' = [child EXCEPT ![p] = state]
      BY <3>1, ChangesMeaning DEF Base
    <3>3. QED
      BY <3>1, <3>2, Distinct DEF NoneFreed, NoneStarted, Base, KernelOK
  <2>2. CASE GoesOn(p) /\ child[p] = "stopped"
    BY <2>2, Distinct DEF GoesOn, NoneFreed, NoneStarted, Base, KernelOK
  <2>3. QED
    BY <2>1, <2>2 DEF ChildChanges, Reportable, Dead
<1>2. QED
  BY <1>1 DEF TableKept, ChildChanges

LEMMA SendKeeps ==
  ASSUME Base, process_send_signal
  PROVE  TableKept
<1>1. /\ pc = "send" /\ cur \in Slot /\ UX_kill(table[cur].id, signo)
      /\ UNCHANGED <<table, process_tick, sync_tick, todo, subs>>
  BY DEF process_send_signal, Base, RuntimeOK
<1>2. table[cur].id \in Pid /\ signo \in Signals
  BY <1>1 DEF Base, PcInv, SlotsInv
<1>3. QED
  BY <1>1, <1>2, KillKeeps DEF TableKept

\* NEW_RAW_STATUS leaves the ticks of the slot, and the global ones, different.
LEMMA ChangedStep ==
  ASSUME Base, NEW s \in Slot, NEW status \in ProcessStatus,
         table' = NewRawStatus(table, s, status), process_tick' = process_tick + 1,
         UNCHANGED <<sync_tick, subs, todo>>
  PROVE  SlotChanged(s, status)
<1>1. /\ table \in [Slot -> Entry] /\ process_tick \in Nat /\ status \in RawStatus
      /\ table[s].tick <= process_tick /\ table[s].sync <= table[s].tick
      /\ table[s].tick \in Nat /\ table[s].sync \in Nat /\ sync_tick \in Nat /\ sync_tick <= process_tick
  BY Distinct, EntryType DEF Base, TableOK, TicksOK
<1>2. table'[s] = [id |-> table[s].id, raw |-> status, status |-> table[s].status,
                   tick |-> process_tick + 1, sync |-> table[s].sync]
  BY <1>1, RawStatusEntry
<1>3. \A r \in Slot \ {s} : table'[r] = table[r]
  BY <1>1 DEF NewRawStatus
<1>4. table'[s].id = table[s].id /\ table'[s].raw = status /\ table'[s].tick = process_tick + 1
      /\ table'[s].sync = table[s].sync
  BY <1>2
<1>5. table'[s].tick # table'[s].sync /\ process_tick' # sync_tick'
  BY <1>1, <1>4
<1>6. QED
  BY <1>3, <1>4, <1>5 DEF SlotChanged, OnlySlot

LEMMA WaitpidReports ==
  ASSUME Base, NEW p \in Pid, Waitpid(p)
  PROVE  Reported(p)
<1>1. /\ child[p] \in Reportable /\ child[p] \in ProcessStatus /\ subprocess_death(p)
      /\ child' = [child EXCEPT ![p] = IF @ \in Dead THEN "free" ELSE @]
      /\ UNCHANGED <<sync_tick, subs, todo>>
  BY WaitpidKernel, Distinct DEF Waitpid
<1>2. CASE find_process(p) = {}
  BY <1>1, <1>2 DEF Reported, subprocess_death
<1>3. CASE find_process(p) # {}
  <2>1. PICK s \in find_process(p) : table' = NewRawStatus(table, s, child[p])
    BY <1>1, <1>3 DEF subprocess_death
  <2>2. s \in Slot /\ process_tick' = process_tick + 1
    BY <1>1, <1>3, Found DEF subprocess_death
  <2>3. SlotChanged(s, child[p])
    BY <1>1, <2>1, <2>2, ChangedStep
  <2>4. QED
    BY <1>1, <2>3 DEF Reported
<1>4. QED
  BY <1>2, <1>3

LEMMA ContinueEffect ==
  ASSUME Base, Continues
  PROVE  TableKept \/ \E s \in Slot : SlotContinued(s)
<1>1. PICK s \in Slot :
        table[s].raw \in Live /\ Continue(s) /\ pc = "scheme" /\ UNCHANGED <<sync_tick, todo, subs>>
  BY DEF Continues, OS_process_continue_background, OS_process_continue_foreground, Base, RuntimeOK
<1>2. table[s].id \in Pid
  BY <1>1, Distinct DEF Base, SlotsInv
<1>3. CASE table[s].raw = "stopped"
  <2>1. /\ table' = NewRawStatus(table, s, "running") /\ process_tick' = process_tick + 1
        /\ SendContinue(table[s].id)
    BY <1>1, <1>3 DEF Continue
  <2>2. NoneFreed /\ \A q \in Pid \ {table[s].id} : child'[q] = child[q]
    BY <1>2, <2>1, ContinueMeaning DEF Base, NoneFreed
  <2>3. "running" \in ProcessStatus
    BY Distinct
  <2>4. SlotChanged(s, "running")
    BY <1>1, <2>1, <2>3, ChangedStep
  <2>5. QED
    BY <1>2, <1>3, <2>2, <2>4 DEF SlotContinued
<1>4. CASE table[s].raw # "stopped"
  BY <1>1, <1>4 DEF Continue, TableKept, NoneFreed, NoneStarted
<1>5. QED
  BY <1>3, <1>4

LEMMA ForgetEffect ==
  ASSUME Base, NEW s \in Slot, table' = Deallocated(table, s, 1), subs'[s] = None,
         \A r \in Slot \ {s} : subs'[r] = subs[r],
         NoneFreed, NoneStarted, UNCHANGED <<process_tick, sync_tick, todo>>
  PROVE  SlotEmptied(s)
<1>1. PICK t \in Entry : table' = [table EXCEPT ![s] = t] /\ t.id = 0
  BY ForgetEntry DEF Base
<1>2. table'[s] = t /\ \A r \in Slot \ {s} : table'[r] = table[r]
  BY <1>1, Written DEF Base
<1>3. QED
  BY <1>1, <1>2 DEF SlotEmptied, OnlySlot

LEMMA EmptiedEffect ==
  ASSUME Base,
         \/ \E s \in Slot : process_allocate(s) \/ subprocess_delete(s)
         \/ process_allocate_abort \/ AbortKill \/ OS_process_deallocate
  PROVE  TableKept \/ \E s \in Slot : SlotEmptied(s)
<1> USE DEF NoneFreed, NoneStarted
<1>1. ASSUME NEW s \in Slot, process_allocate(s) PROVE SlotEmptied(s)
  <2>1. table[s].raw = "free" /\ table \in [Slot -> Entry]
    BY <1>1 DEF process_allocate, Base, TableOK
  <2>2. table[s].id = 0 /\ subs[s] = None
    BY <2>1, Distinct DEF Base, SlotsInv
  <2>3. table'[s].id = table[s].id /\ \A r \in Slot \ {s} : table'[r] = table[r]
    BY <1>1, <2>1 DEF process_allocate, Entry
  <2>4. QED
    BY <1>1, <2>2, <2>3 DEF process_allocate, SlotEmptied, OnlySlot
<1>2. ASSUME NEW s \in Slot, subprocess_delete(s) PROVE SlotEmptied(s)
  <2>1. subs' = [subs EXCEPT ![s] = None] /\ table' = Deallocated(table, s, 1)
        /\ UNCHANGED <<child, process_tick, sync_tick, todo>>
    BY <1>2 DEF subprocess_delete
  <2>2. subs'[s] = None /\ \A r \in Slot \ {s} : subs'[r] = subs[r]
    BY <2>1 DEF Base, RuntimeOK
  <2>3. QED
    BY <2>1, <2>2, ForgetEffect
<1>3. ASSUME process_allocate_abort PROVE TableKept \/ SlotEmptied(cur)
  <2>1. /\ cur \in Slot /\ subs[cur] = None /\ UNCHANGED <<child, process_tick, sync_tick, todo, subs>>
        /\ UNCHANGED table \/ table' = Deallocated(table, cur, 1)
    BY <1>3 DEF process_allocate_abort, Base, RuntimeOK, PcInv, Making
  <2>2. CASE UNCHANGED table
    BY <2>1, <2>2 DEF TableKept
  <2>3. CASE table' = Deallocated(table, cur, 1)
    BY <2>1, <2>3, ForgetEffect
  <2>4. QED
    BY <2>1, <2>2, <2>3
<1>4. ASSUME AbortKill PROVE SlotEmptied(cur)
  <2>1. /\ cur \in Slot /\ subs[cur] = None /\ UNCHANGED <<process_tick, sync_tick, todo, subs>>
        /\ table' = Deallocated(table, cur, 1)
    BY <1>4 DEF AbortKill, Base, RuntimeOK, PcInv, Making
  <2>2. NoneFreed /\ NoneStarted
    <3>1. CASE table[cur].id = 0
      BY <1>4, <3>1 DEF AbortKill
    <3>2. CASE table[cur].id # 0
      <4>1. table[cur].id \in Pid /\ UX_kill(table[cur].id, "SIGKILL")
        BY <1>4, <2>1, <3>2, EntryType DEF AbortKill, Base, TableOK
      <4>2. QED
        BY <4>1, KillKeeps
    <3>3. QED
      BY <3>1, <3>2
  <2>3. QED
    BY <2>1, <2>2, ForgetEffect
<1>5. ASSUME OS_process_deallocate PROVE SlotEmptied(cur)
  <2>1. /\ cur \in Slot /\ subs[cur] = None /\ table[cur].id = 0 /\ table \in [Slot -> Entry]
        /\ UNCHANGED <<child, process_tick, sync_tick, todo, subs>>
        /\ table' = [table EXCEPT ![cur] = [@ EXCEPT !.raw = "free"]]
    BY <1>5 DEF OS_process_deallocate, Deallocated, Base, RuntimeOK, PcInv, Making, TableOK
  <2>2. table'[cur].id = table[cur].id /\ \A r \in Slot \ {cur} : table'[r] = table[r]
    BY <2>1 DEF Entry
  <2>3. QED
    BY <2>1, <2>2 DEF SlotEmptied, OnlySlot
<1>6. cur \in Slot
  BY DEF Base, RuntimeOK
<1>7. QED
  BY <1>1, <1>2, <1>3, <1>4, <1>5, <1>6

LEMMA CopyEffect ==
  ASSUME Base, make_subprocess \/ \E s \in Slot : poll_subprocess_status(s)
  PROVE  \E s \in Slot : SlotCopied(s)
<1>1. PICK s \in Slot :
        /\ table[s].raw \in ProcessStatus /\ todo \ {s} \subseteq todo'
        /\ table' = [table EXCEPT ![s] = Synced(@)] /\ subs' = [subs EXCEPT ![s] = table[s].raw]
        /\ UNCHANGED <<child, process_tick, sync_tick>>
  BY ObjectMeaning, PollMeaning
<1>2. PICK t \in Entry :
        table' = [table EXCEPT ![s] = t] /\ t.id = table[s].id /\ t.raw = table[s].raw
  BY <1>1, SyncedEntry
<1>3. table'[s] = t /\ \A r \in Slot \ {s} : table'[r] = table[r]
  BY <1>2, Written DEF Base
<1>4. subs'[s] = table[s].raw /\ \A r \in Slot \ {s} : subs'[r] = subs[r]
  BY <1>1 DEF Base, RuntimeOK
<1>5. QED
  BY <1>1, <1>2, <1>3, <1>4 DEF SlotCopied, OnlySlot

LEMMA MakeEffect ==
  ASSUME Base, NEW p \in Pid, OS_make_subprocess(p)
  PROVE  SlotFilled(cur, p)
<1>1. /\ cur \in Slot /\ subs[cur] = None /\ table \in [Slot -> Entry]
      /\ table' = [table EXCEPT ![cur] = NewProcess(cur, p)]
      /\ UNCHANGED <<process_tick, sync_tick, todo, subs>> /\ child' = [child EXCEPT ![p] = "running"]
      /\ ~Recycle => \A s \in Slot : table[s].id # p
  BY DEF OS_make_subprocess, Base, RuntimeOK, PcInv, Making, TableOK
<1>2. table'[cur] = NewProcess(cur, p) /\ \A r \in Slot \ {cur} : table'[r] = table[r]
  BY <1>1
<1>3. table'[cur].id = p /\ table'[cur].raw = "running"
  BY <1>2 DEF NewProcess
<1>4. QED
  BY <1>1, <1>2, <1>3 DEF SlotFilled, OnlySlot

LEMMA Effects ==
  ASSUME Base, [Next]_vars
  PROVE  \/ TableKept
         \/ \E s \in Slot : SlotEmptied(s) \/ SlotCopied(s) \/ SlotContinued(s)
         \/ \E s \in Slot, p \in Pid : SlotFilled(s, p)
         \/ \E p \in Pid : Reported(p)
<1>1. ASSUME \/ Moves \/ Syncs \/ sighnd_dead_subprocess \/ HandlerReturns \/ UNCHANGED vars
      PROVE  TableKept
  <2>1. UNCHANGED <<child, table, subs, process_tick>>
        /\ (UNCHANGED <<todo, sync_tick>> \/ todo' = {s \in Slot : subs[s] # None})
    BY <1>1, MovesMeaning DEF Syncs, TimerPoll, OS_test_select_registry, StartSync,
       sighnd_dead_subprocess, HandlerReturns, vars
  <2>2. QED
    BY <2>1 DEF TableKept, NoneFreed, NoneStarted
<1>2. cur \in Slot
  BY DEF Base, RuntimeOK
<1>3. QED
  BY <1>1, <1>2, Groups, ChildKeeps, SendKeeps, WaitpidReports, ContinueEffect, EmptiedEffect,
     CopyEffect, MakeEffect

-----------------------------------------------------------------------------
(* A change of status stays visible.                                        *)

\* What NoChangeMissed says of one slot.
Visible(s) ==
  subs[s] # None /\ subs[s] # table[s].raw =>
    table[s].tick # table[s].sync /\ (StatusChanged \/ s \in todo)

LEMMA ChangeNoMiss ==
  ASSUME NoChangeMissed, NEW s \in Slot, NEW status, SlotChanged(s, status)
  PROVE  NoChangeMissed'
<1>1. \A r \in Slot : Visible(r)
  BY DEF NoChangeMissed, Visible
<1>2. ASSUME NEW r \in Slot PROVE Visible(r)'
  <2>1. CASE r = s
    BY <2>1 DEF SlotChanged, Visible, StatusChanged
  <2>2. CASE r # s
    BY <1>1, <2>2 DEF SlotChanged, OnlySlot, Visible, StatusChanged
  <2>3. QED
    BY <2>1, <2>2
<1>3. QED
  BY <1>2 DEF NoChangeMissed, Visible

LEMMA MissNext ==
  ASSUME Base, NoChangeMissed, [Next]_vars
  PROVE  NoChangeMissed'
<1> USE DEF NoChangeMissed, StatusChanged
<1>1. CASE TableKept
  BY <1>1 DEF TableKept
<1>2. ASSUME NEW s \in Slot, SlotEmptied(s) PROVE NoChangeMissed'
  BY <1>2 DEF SlotEmptied, OnlySlot
<1>3. ASSUME NEW s \in Slot, SlotCopied(s) PROVE NoChangeMissed'
  BY <1>3 DEF SlotCopied, OnlySlot
<1>4. ASSUME NEW s \in Slot, SlotContinued(s) PROVE NoChangeMissed'
  BY <1>4, ChangeNoMiss DEF SlotContinued
<1>5. ASSUME NEW s \in Slot, NEW p \in Pid, SlotFilled(s, p) PROVE NoChangeMissed'
  BY <1>5 DEF SlotFilled, OnlySlot
<1>6. ASSUME NEW p \in Pid, Reported(p) PROVE NoChangeMissed'
  BY <1>6, ChangeNoMiss, Found DEF Reported
<1>7. QED
  BY <1>1, <1>2, <1>3, <1>4, <1>5, <1>6, Effects

\* A change of status that the object does not show yet leaves both the ticks of the slot
\* and the global ones different, or the slot is among those that are going to be polled:
\* whenever the handler of SIGCHLD has run, safe_poll does not sleep through it.
THEOREM NoChangeIsMissed == Spec => []NoChangeMissed
<1>1. Init => NoChangeMissed
  BY DEF Init, NoChangeMissed
<1>2. QED
  BY <1>1, BaseHolds, MissNext, PTL DEF Spec

-----------------------------------------------------------------------------
(* Pids that are not given out again while they are in the table.           *)

\* A pid is in one slot only, and has been freed exactly if that slot says that the
\* child is dead.
PidsInv ==
  /\ \A r, s \in Slot : table[r].id = table[s].id /\ table[r].id # 0 => r = s
  /\ \A s \in Slot : table[s].id # 0 => (child[table[s].id] = "free" <=> table[s].raw \in Dead)

\* find_process finds the slot of a pid.
LEMMA Finds ==
  ASSUME PidsInv, NEW p \in Pid, NEW s \in Slot, table[s].id = p
  PROVE  find_process(p) = {s}
<1>1. \A r \in Slot : table[r].id = p => r = s
  BY Constants DEF PidsInv
<1>2. \A r \in 0 .. s - 1 : r \in Slot /\ r # s
  BY Constants DEF Slot
<1>3. QED
  BY <1>1, <1>2 DEF find_process

LEMMA PidsNext ==
  ASSUME ~Recycle, Base, PidsInv, [Next]_vars
  PROVE  PidsInv'
<1>1. \A s \in Slot : table[s].id # 0 => table[s].id \in Pid
  BY EntryType DEF Base, TableOK
<1>2. child \in [Pid -> ChildStatus]
  BY DEF Base, KernelOK
<1>3. CASE TableKept
  BY <1>1, <1>3 DEF TableKept, NoneFreed, PidsInv
<1>4. ASSUME NEW s \in Slot, SlotEmptied(s) PROVE PidsInv'
  BY <1>1, <1>4 DEF SlotEmptied, OnlySlot, NoneFreed, PidsInv
<1>5. ASSUME NEW s \in Slot, SlotCopied(s) PROVE PidsInv'
  BY <1>1, <1>5 DEF SlotCopied, OnlySlot, PidsInv
<1>6. ASSUME NEW s \in Slot, SlotContinued(s) PROVE PidsInv'
  BY <1>1, <1>6, Distinct DEF SlotContinued, SlotChanged, OnlySlot, NoneFreed, PidsInv
<1>7. ASSUME NEW s \in Slot, NEW p \in Pid, SlotFilled(s, p) PROVE PidsInv'
  <2>1. \A q \in Pid \ {p} : child'[q] = child[q]
    BY <1>2, <1>7 DEF SlotFilled
  <2>2. child'[p] = "running" /\ p # 0
    BY <1>2, <1>7, Constants DEF SlotFilled
  <2>3. \A r \in Slot : table[r].id # p
    BY <1>7 DEF SlotFilled
  <2>4. QED
    BY <1>1, <1>7, <2>1, <2>2, <2>3, Distinct DEF SlotFilled, OnlySlot, PidsInv
<1>8. ASSUME NEW p \in Pid, Reported(p) PROVE PidsInv'
  <2>1. \A q \in Pid \ {p} : child'[q] = child[q]
    BY <1>2, <1>8 DEF Reported
  <2>2. child'[p] = "free" <=> child[p] \in Dead
    BY <1>2, <1>8, Distinct DEF Reported
  <2>3. CASE find_process(p) = {}
    <3>1. \A s \in Slot : table[s].id # p
      BY <2>3, Finds
    <3>2. UNCHANGED table
      BY <1>8, <2>3 DEF Reported
    <3>3. QED
      BY <1>1, <2>1, <3>1, <3>2 DEF PidsInv
  <2>4. CASE find_process(p) # {}
    <3>1. PICK s \in find_process(p) : SlotChanged(s, child[p])
      BY <1>8, <2>4 DEF Reported
    <3>2. s \in Slot /\ table[s].id = p
      BY Found
    <3>3. \A r \in Slot \ {s} : table[r].id # p
      BY <3>2, Constants DEF PidsInv
    <3>4. QED
      BY <1>1, <2>1, <2>2, <3>1, <3>2, <3>3 DEF SlotChanged, OnlySlot, PidsInv
  <2>5. QED
    BY <2>3, <2>4
<1>9. QED
  BY <1>3, <1>4, <1>5, <1>6, <1>7, <1>8, Effects

LEMMA PidsHold ==
  ASSUME ~Recycle
  PROVE  Spec => []PidsInv
<1>1. Init => PidsInv
  BY DEF Init, PidsInv
<1>2. QED
  BY <1>1, BaseHolds, PidsNext, PTL DEF Spec

\* Between the test of the status and kill(2) the handler does not run.
SendInv == pc = "send" => table[cur].raw \in Live

LEMMA SendNext ==
  ASSUME Base, SendInv, [Next]_vars
  PROVE  SendInv'
<1>1. SUFFICES ASSUME pc' = "send" PROVE table'[cur'].raw \in Live
  BY DEF SendInv
<1>2. CASE pc = "send"
  <2>1. ~handling
    BY <1>2 DEF Base, KernelOK, Masked
  <2>2. UNCHANGED <<table, cur>>
    <3>1. CASE Moves \/ Syncs \/ Continues
      BY <1>2, <3>1 DEF Moves, OS_process_wait, OS_process_send_signal, subprocess_continue_foreground,
         subprocess_wait, WaiterRuns, MakeFails, give_terminal_to, WaitReturns, WaitInterrupted,
         ForegroundReturns, handle_subprocess_status_change, WaitForIO, safe_poll, UX_ppoll,
         PollReturns, OS_test_select_registry, Syncs, TimerPoll, StartSync, Continues,
         OS_process_continue_background, OS_process_continue_foreground
    <3>2. CASE \E p \in Pid : ChildChanges(p) \/ Waitpid(p) \/ OS_make_subprocess(p)
      BY <1>2, <2>1, <3>2 DEF ChildChanges, Waitpid, OS_make_subprocess
    <3>3. CASE \E s \in Slot : process_allocate(s) \/ subprocess_delete(s) \/ poll_subprocess_status(s)
      BY <1>2, <3>3 DEF process_allocate, subprocess_delete, poll_subprocess_status
    <3>4. CASE \/ sighnd_dead_subprocess \/ HandlerReturns \/ process_allocate_abort \/ AbortKill
               \/ process_send_signal \/ make_subprocess \/ OS_process_deallocate
      BY <1>1, <1>2, <2>1, <3>4 DEF sighnd_dead_subprocess, HandlerReturns, process_allocate_abort,
         AbortKill, process_send_signal, make_subprocess, OS_process_deallocate
    <3>5. CASE UNCHANGED vars
      BY <3>5 DEF vars
    <3>6. QED
      BY <3>1, <3>2, <3>3, <3>4, <3>5, Groups
  <2>3. QED
    BY <1>2, <2>2 DEF SendInv
<1>3. CASE pc # "send"
  <2>1. PICK s \in Slot, sig \in Signals : OS_process_send_signal(s, sig)
    <3>1. CASE Moves
      BY <1>1, <1>3, <3>1 DEF Moves, OS_process_wait, subprocess_continue_foreground,
         subprocess_wait, WaiterRuns, MakeFails, give_terminal_to, WaitReturns, WaitInterrupted,
         ForegroundReturns, handle_subprocess_status_change, WaitForIO, safe_poll, UX_ppoll,
         PollReturns, OS_test_select_registry
    <3>2. CASE Syncs \/ Continues
      BY <1>1, <1>3, <3>2 DEF OS_test_select_registry, Syncs, TimerPoll, StartSync, Continues,
         OS_process_continue_background, OS_process_continue_foreground
    <3>3. CASE \E p \in Pid : ChildChanges(p) \/ Waitpid(p) \/ OS_make_subprocess(p)
      BY <1>1, <1>3, <3>3 DEF ChildChanges, Waitpid, OS_make_subprocess
    <3>4. CASE \E s \in Slot : process_allocate(s) \/ subprocess_delete(s) \/ poll_subprocess_status(s)
      BY <1>1, <1>3, <3>4 DEF process_allocate, subprocess_delete, poll_subprocess_status
    <3>5. CASE \/ sighnd_dead_subprocess \/ HandlerReturns \/ process_allocate_abort \/ AbortKill
               \/ process_send_signal \/ make_subprocess \/ OS_process_deallocate
      BY <1>1, <1>3, <3>5 DEF sighnd_dead_subprocess, HandlerReturns, process_allocate_abort,
         AbortKill, process_send_signal, make_subprocess, OS_process_deallocate
    <3>6. CASE UNCHANGED vars
      BY <1>1, <1>3, <3>6 DEF vars
    <3>7. QED
      BY <3>1, <3>2, <3>3, <3>4, <3>5, <3>6, Groups
  <2>2. QED
    BY <2>1 DEF OS_process_send_signal
<1>4. QED
  BY <1>2, <1>3

\* If no child gets the pid of one that is still in the table, OS_process_send_signal
\* never signals a process that waitpid has reported dead.
THEOREM SignalsReachChildren ==
  ASSUME ~Recycle
  PROVE  Spec => []NoSignalToReaped
<1>1. ASSUME Base, PidsInv, SendInv PROVE NoSignalToReaped
  <2>1. SUFFICES ASSUME pc = "send" PROVE ~Reaped(table[cur].id)
    BY DEF NoSignalToReaped
  <2>2. cur \in Slot /\ table[cur].raw \in Live
    BY <1>1, <2>1 DEF Base, RuntimeOK, SendInv
  <2>3. table[cur].id \in Pid /\ table[cur].raw \notin Dead
    BY <1>1, <2>1, <2>2, Distinct DEF Base, SlotsInv
  <2>4. QED
    BY <1>1, <2>2, <2>3, Constants DEF PidsInv, Reaped
<1>2. Init => SendInv
  BY DEF Init, SendInv
<1>3. QED
  BY <1>1, <1>2, BaseHolds, PidsHold, SendNext, PTL DEF Spec

\* A child whose slot says that it is stopped has not been continued by the program,
\* though others may have continued it behind the back of the table.
StoppedInv ==
  \A s \in Slot : table[s].id # 0 /\ table[s].raw = "stopped" => child[table[s].id] # "running"

LEMMA StoppedNext ==
  ASSUME ~Recycle, Base, PidsInv, StoppedInv, [Next]_vars
  PROVE  StoppedInv'
<1>1. \A s \in Slot : table[s].id # 0 => table[s].id \in Pid
  BY EntryType DEF Base, TableOK
<1>2. child \in [Pid -> ChildStatus]
  BY DEF Base, KernelOK
<1>3. CASE TableKept
  BY <1>1, <1>3 DEF TableKept, NoneStarted, StoppedInv
<1>4. ASSUME NEW s \in Slot, SlotEmptied(s) PROVE StoppedInv'
  BY <1>1, <1>4 DEF SlotEmptied, OnlySlot, NoneStarted, StoppedInv
<1>5. ASSUME NEW s \in Slot, SlotCopied(s) PROVE StoppedInv'
  BY <1>1, <1>5 DEF SlotCopied, OnlySlot, StoppedInv
<1>6. ASSUME NEW s \in Slot, SlotContinued(s) PROVE StoppedInv'
  <2>1. \A r \in Slot \ {s} : table[r].id # table[s].id
    BY <1>6, Constants DEF PidsInv, SlotContinued
  <2>2. QED
    BY <1>1, <1>6, <2>1 DEF SlotContinued, SlotChanged, OnlySlot, StoppedInv
<1>7. ASSUME NEW s \in Slot, NEW p \in Pid, SlotFilled(s, p) PROVE StoppedInv'
  <2>1. \A q \in Pid \ {p} : child'[q] = child[q]
    BY <1>2, <1>7 DEF SlotFilled
  <2>2. \A r \in Slot : table[r].id # p
    BY <1>7 DEF SlotFilled
  <2>3. QED
    BY <1>1, <1>7, <2>1, <2>2 DEF SlotFilled, OnlySlot, StoppedInv
<1>8. ASSUME NEW p \in Pid, Reported(p) PROVE StoppedInv'
  <2>1. /\ \A q \in Pid \ {p} : child'[q] = child[q]
        /\ child'[p] # "running"
    BY <1>2, <1>8, Distinct DEF Reported
  <2>2. CASE UNCHANGED table
    BY <1>1, <2>1, <2>2 DEF StoppedInv
  <2>3. CASE \E s \in find_process(p) : SlotChanged(s, child[p])
    <3>1. PICK s \in find_process(p) : SlotChanged(s, child[p])
      BY <2>3
    <3>2. s \in Slot /\ table[s].id = p
      BY Found
    <3>3. QED
      BY <1>1, <2>1, <3>1, <3>2 DEF SlotChanged, OnlySlot, StoppedInv
  <2>4. QED
    BY <1>8, <2>2, <2>3 DEF Reported
<1>9. QED
  BY <1>3, <1>4, <1>5, <1>6, <1>7, <1>8, Effects

\* process_wait returns for the status of a process only if the process has stopped or
\* died since the program last made it run, whoever stops, continues or kills it, with
\* SIGCONT as a plain signal too: no status from before a continue operation is left to
\* end the wait after it.
THEOREM WaitsAreRight ==
  ASSUME ~Recycle
  PROVE  Spec => WaitReturnsWhenNotRunning
<1>1. Init => StoppedInv
  BY DEF Init, StoppedInv
<1>2. ASSUME Base, PidsInv, StoppedInv
      PROVE  WaitReturns /\ table[cur].id # 0 => child[table[cur].id] # "running"
  <2>1. SUFFICES ASSUME WaitReturns, table[cur].id # 0 PROVE child[table[cur].id] # "running"
    OBVIOUS
  <2>2. pc = "wait" /\ table[cur].raw # "running" /\ cur \in Slot
    BY <1>2, <2>1 DEF WaitReturns, Base, RuntimeOK
  <2>3. table[cur].raw = "stopped" \/ table[cur].raw \in Dead
    BY <1>2, <2>2, Distinct DEF Base, PcInv
  <2>4. QED
    BY <1>2, <2>1, <2>2, <2>3 DEF PidsInv, StoppedInv
<1>3. ASSUME Base, PidsInv, StoppedInv, [Next]_vars PROVE StoppedInv'
  BY <1>3, StoppedNext
<1>4. QED
  BY <1>1, <1>2, <1>3, BaseHolds, PidsHold, PTL DEF Spec, WaitReturnsWhenNotRunning

-----------------------------------------------------------------------------
(* The thread that waits for a subprocess.                                  *)

Told(sub, r, w, res) == w => IF sub = "running" THEN r = "running" ELSE res = sub

\* A registration has the status of the object, except between poll-subprocess-status and
\* the rest of handle-subprocess-status-change, and only then has a thread that waits not
\* been told what the object shows; an object that shows a dead process is final.
WaitOK(sub, r, w, res, raw, polled) ==
  /\ r # None => w
  /\ w => sub # None
  /\ w /\ r = None => sub \in Dead
  /\ r \in {None, sub} => Told(sub, r, w, res)
  /\ r \in {None, sub} \/ polled
  /\ sub \in Dead => raw = sub

Polled(s) == pc = "hsc" /\ s \notin todo
WaitInv == \A s \in Slot : WaitOK(subs[s], reg[s], waiting[s], result[s], table[s].raw, Polled(s))

\* The raw status of a dead process does not change.
LEMMA DeadKept ==
  ASSUME Base, PidsInv, WaitInv, [Next]_vars, NEW s \in Slot, subs[s] \in Dead, subs'[s] = subs[s]
  PROVE  table'[s].raw = table[s].raw
<1>1. table[s].raw \in Dead /\ subs[s] # None /\ table[s].raw # "stopped"
  BY Distinct DEF WaitInv, WaitOK
<1>2. CASE TableKept
  BY <1>2 DEF TableKept
<1>3. ASSUME NEW r \in Slot, SlotEmptied(r) PROVE table'[s].raw = table[s].raw
  BY <1>1, <1>3 DEF SlotEmptied, OnlySlot
<1>4. ASSUME NEW r \in Slot, SlotCopied(r) PROVE table'[s].raw = table[s].raw
  BY <1>4 DEF SlotCopied, OnlySlot
<1>5. ASSUME NEW r \in Slot, SlotContinued(r) PROVE table'[s].raw = table[s].raw
  BY <1>1, <1>5 DEF SlotContinued, SlotChanged, OnlySlot
<1>6. ASSUME NEW r \in Slot, NEW p \in Pid, SlotFilled(r, p) PROVE table'[s].raw = table[s].raw
  BY <1>1, <1>6 DEF SlotFilled, OnlySlot
<1>7. ASSUME NEW p \in Pid, Reported(p) PROVE table'[s].raw = table[s].raw
  <2>1. CASE find_process(p) = {}
    BY <1>7, <2>1 DEF Reported
  <2>2. CASE find_process(p) # {}
    <3>1. PICK r \in find_process(p) : SlotChanged(r, child[p])
      BY <1>7, <2>2 DEF Reported
    <3>2. r \in Slot /\ table[r].id = p /\ p # 0 /\ child[p] # "free"
      BY <1>7, Found, Constants, Distinct DEF Reported
    <3>3. table[r].raw \notin Dead
      BY <3>2 DEF PidsInv
    <3>4. QED
      BY <1>1, <3>1, <3>2, <3>3 DEF SlotChanged, OnlySlot
  <2>3. QED
    BY <2>1, <2>2
<1>8. QED
  BY <1>2, <1>3, <1>4, <1>5, <1>6, <1>7, Effects

\* A step of neither the objects nor the registrations.
LEMMA WaitersKept ==
  ASSUME Base, PidsInv, WaitInv, [Next]_vars, UNCHANGED <<subs, reg, waiting, result>>,
         pc = "hsc" => pc' = "hsc" /\ todo' = todo
  PROVE  WaitInv'
<1>1. ASSUME NEW s \in Slot
      PROVE  WaitOK(subs'[s], reg'[s], waiting'[s], result'[s], table'[s].raw, Polled(s)')
  <2>1. WaitOK(subs[s], reg[s], waiting[s], result[s], table[s].raw, Polled(s))
    BY DEF WaitInv
  <2>2. subs[s] \in Dead => table'[s].raw = table[s].raw
    BY DeadKept
  <2>3. Polled(s) => Polled(s)'
    BY DEF Polled
  <2>4. QED
    BY <2>1, <2>2, <2>3 DEF WaitOK
<1>2. QED
  BY <1>1 DEF WaitInv

\* A step that writes the object or the registration of one slot.
LEMMA WaiterWritten ==
  ASSUME Base, PidsInv, WaitInv, [Next]_vars, NEW s \in Slot,
         \A r \in Slot \ {s} : subs'[r] = subs[r] /\ reg'[r] = reg[r] /\ waiting'[r] = waiting[r]
                               /\ result'[r] = result[r],
         pc = "hsc" => pc' = "hsc" /\ todo' \subseteq todo,
         WaitOK(subs'[s], reg'[s], waiting'[s], result'[s], table'[s].raw, Polled(s)')
  PROVE  WaitInv'
<1>1. ASSUME NEW r \in Slot, r # s
      PROVE  WaitOK(subs'[r], reg'[r], waiting'[r], result'[r], table'[r].raw, Polled(r)')
  <2>1. WaitOK(subs[r], reg[r], waiting[r], result[r], table[r].raw, Polled(r))
    BY DEF WaitInv
  <2>2. /\ subs'[r] = subs[r] /\ reg'[r] = reg[r] /\ waiting'[r] = waiting[r]
        /\ result'[r] = result[r]
    BY <1>1
  <2>3. subs[r] \in Dead => table'[r].raw = table[r].raw
    BY <2>2, DeadKept
  <2>4. Polled(r) => Polled(r)'
    BY DEF Polled
  <2>5. QED
    BY <2>1, <2>2, <2>3, <2>4 DEF WaitOK
<1>2. QED
  BY <1>1 DEF WaitInv

LEMMA RuntimeTypes ==
  ASSUME Base
  PROVE  /\ subs \in [Slot -> ProcessStatus \cup {None}] /\ reg \in [Slot -> ProcessStatus \cup {None}]
         /\ waiting \in [Slot -> BOOLEAN] /\ result \in [Slot -> ProcessStatus \cup {None}]
  BY DEF Base, RuntimeOK

LEMMA WaitStep ==
  ASSUME Base, PidsInv, WaitInv, [Next]_vars, NEW s \in Slot, subprocess_wait(s)
  PROVE  WaitInv'
<1>1. /\ pc = "scheme" /\ pc' = "scheme" /\ subs[s] # None /\ ~waiting[s]
      /\ waiting' = [waiting EXCEPT ![s] = TRUE] /\ reg' = [reg EXCEPT ![s] = subs[s]]
      /\ result' = [result EXCEPT ![s] = Immediate(s)] /\ UNCHANGED <<subs, table>>
  BY DEF subprocess_wait
<1>2. /\ waiting'[s] = TRUE /\ reg'[s] = subs[s] /\ result'[s] = Immediate(s)
      /\ \A r \in Slot \ {s} : subs'[r] = subs[r] /\ reg'[r] = reg[r] /\ waiting'[r] = waiting[r]
                               /\ result'[r] = result[r]
  BY <1>1, RuntimeTypes
<1>3. WaitOK(subs[s], reg[s], waiting[s], result[s], table[s].raw, Polled(s))
  BY DEF WaitInv
<1>4. WaitOK(subs'[s], reg'[s], waiting'[s], result'[s], table'[s].raw, Polled(s)')
  BY <1>1, <1>2, <1>3 DEF WaitOK, Told, Immediate
<1>5. QED
  BY <1>1, <1>2, <1>4, WaiterWritten

LEMMA WaiterStep ==
  ASSUME Base, PidsInv, WaitInv, [Next]_vars, NEW s \in Slot, WaiterRuns(s)
  PROVE  WaitInv'
<1>1. /\ pc = "scheme" /\ pc' = "scheme" /\ waiting[s] /\ result[s] # None
      /\ result' = [result EXCEPT ![s] = None] /\ UNCHANGED <<subs, table>>
  BY DEF WaiterRuns
<1>2. WaitOK(subs[s], reg[s], waiting[s], result[s], table[s].raw, Polled(s)) /\ ~Polled(s)
  BY <1>1 DEF WaitInv, Polled
<1>3. Told(subs[s], reg[s], waiting[s], result[s])
  BY <1>2 DEF WaitOK
<1>4. CASE result[s] = "running"
  <2>1. UNCHANGED <<waiting, reg>>
    BY <1>4 DEF WaiterRuns
  <2>2. subs[s] = "running"
    BY <1>1, <1>3, <1>4 DEF Told
  <2>3. result'[s] = None /\ \A r \in Slot \ {s} : result'[r] = result[r]
    BY <1>1, RuntimeTypes
  <2>4. WaitOK(subs'[s], reg'[s], waiting'[s], result'[s], table'[s].raw, Polled(s)')
    BY <1>1, <1>2, <1>3, <2>1, <2>2, <2>3 DEF WaitOK, Told
  <2>5. QED
    BY <1>1, <2>1, <2>3, <2>4, WaiterWritten
<1>5. CASE result[s] # "running"
  <2>1. waiting' = [waiting EXCEPT ![s] = FALSE] /\ reg' = [reg EXCEPT ![s] = None]
    BY <1>5 DEF WaiterRuns
  <2>2. /\ waiting'[s] = FALSE /\ reg'[s] = None /\ result'[s] = None
        /\ \A r \in Slot \ {s} : reg'[r] = reg[r] /\ waiting'[r] = waiting[r] /\ result'[r] = result[r]
    BY <1>1, <2>1, RuntimeTypes
  <2>3. WaitOK(subs'[s], reg'[s], waiting'[s], result'[s], table'[s].raw, Polled(s)')
    BY <1>1, <1>2, <2>2 DEF WaitOK, Told
  <2>4. QED
    BY <1>1, <2>2, <2>3, WaiterWritten
<1>6. QED
  BY <1>4, <1>5

LEMMA DeleteWaiter ==
  ASSUME Base, PidsInv, WaitInv, [Next]_vars, NEW s \in Slot, subprocess_delete(s)
  PROVE  WaitInv'
<1>1. /\ pc = "scheme" /\ subs' = [subs EXCEPT ![s] = None] /\ reg' = [reg EXCEPT ![s] = None]
      /\ waiting' = [waiting EXCEPT ![s] = FALSE] /\ result' = [result EXCEPT ![s] = None]
  BY DEF subprocess_delete
<1>2. /\ subs'[s] = None /\ waiting'[s] = FALSE /\ reg'[s] = None /\ result'[s] = None
      /\ \A r \in Slot \ {s} : subs'[r] = subs[r] /\ reg'[r] = reg[r] /\ waiting'[r] = waiting[r]
                               /\ result'[r] = result[r]
  BY <1>1, RuntimeTypes
<1>3. WaitOK(subs'[s], reg'[s], waiting'[s], result'[s], table'[s].raw, Polled(s)')
  BY <1>2, Distinct DEF WaitOK, Told
<1>4. QED
  BY <1>1, <1>2, <1>3, WaiterWritten

\* The object of a new subprocess, and poll-subprocess-status.
LEMMA CopyWaiter ==
  ASSUME Base, PidsInv, WaitInv, [Next]_vars,
         make_subprocess \/ \E s \in Slot : poll_subprocess_status(s)
  PROVE  WaitInv'
<1>1. PICK s \in Slot :
        /\ table[s].raw \in ProcessStatus
        /\ table' = [table EXCEPT ![s] = Synced(@)] /\ subs' = [subs EXCEPT ![s] = table[s].raw]
        /\ UNCHANGED <<reg, waiting, result>>
        /\ \/ pc = "object" /\ subs[s] = None
           \/ pc = "hsc" /\ pc' = "hsc" /\ s \in todo /\ todo' = todo \ {s}
  BY ObjectMeaning, PollMeaning
<1>2. subs'[s] = table[s].raw /\ \A r \in Slot \ {s} : subs'[r] = subs[r]
  BY <1>1, RuntimeTypes
<1>3. table'[s].raw = table[s].raw
  <2>1. PICK t \in Entry : table' = [table EXCEPT ![s] = t] /\ t.raw = table[s].raw
    BY <1>1, SyncedEntry
  <2>2. QED
    BY <2>1, Written DEF Base
<1>4. WaitOK(subs[s], reg[s], waiting[s], result[s], table[s].raw, Polled(s))
  BY DEF WaitInv
<1>5. ~Polled(s) /\ (subs[s] = None \/ Polled(s)')
  BY <1>1 DEF Polled
<1>6. WaitOK(subs'[s], reg'[s], waiting'[s], result'[s], table'[s].raw, Polled(s)')
  <2>1. CASE subs[s] = None
    BY <1>1, <1>2, <1>3, <1>4, <2>1, Distinct DEF WaitOK, Told
  <2>2. CASE subs[s] # None
    <3>1. CASE reg[s] = None
      BY <1>1, <1>2, <1>3, <1>4, <1>5, <2>2, <3>1, Distinct DEF WaitOK, Told
    <3>2. CASE reg[s] # None
      BY <1>1, <1>2, <1>3, <1>4, <1>5, <2>2, <3>2, Distinct DEF WaitOK, Told
    <3>3. QED
      BY <3>1, <3>2
  <2>3. QED
    BY <2>1, <2>2
<1>7. QED
  BY <1>1, <1>2, <1>6, WaiterWritten

\* The events of handle-subprocess-status-change.
LEMMA TellWaiters ==
  ASSUME Base, WaitInv, handle_subprocess_status_change
  PROVE  WaitInv'
<1>1. UNCHANGED <<subs, waiting, table>>
  BY DEF handle_subprocess_status_change
<1>2. ASSUME NEW s \in Slot
      PROVE  WaitOK(subs'[s], reg'[s], waiting'[s], result'[s], table'[s].raw, Polled(s)')
  <2>1. WaitOK(subs[s], reg[s], waiting[s], result[s], table[s].raw, Polled(s))
    BY DEF WaitInv
  <2>2. /\ result'[s] = IF reg[s] \notin {None, subs[s]} THEN subs[s] ELSE result[s]
        /\ reg'[s] = IF reg[s] = None \/ subs[s] \in Dead THEN None ELSE subs[s]
    BY DEF handle_subprocess_status_change
  <2>3. CASE reg[s] \in {None, subs[s]}
    BY <1>1, <2>1, <2>2, <2>3, Distinct DEF WaitOK, Told
  <2>4. CASE reg[s] \notin {None, subs[s]}
    BY <1>1, <2>1, <2>2, <2>4, Distinct DEF WaitOK, Told
  <2>5. QED
    BY <2>3, <2>4
<1>3. QED
  BY <1>2 DEF WaitInv

LEMMA WaitNext ==
  ASSUME Base, PidsInv, WaitInv, [Next]_vars
  PROVE  WaitInv'
<1> DEFINE Quiet == UNCHANGED <<subs, reg, waiting, result>> /\ (pc = "hsc" => pc' = "hsc" /\ todo' = todo)
<1>1. Quiet => WaitInv'
  BY WaitersKept
<1>2. CASE Moves
  <2>1. \/ Quiet \/ handle_subprocess_status_change
        \/ \E s \in Slot : subprocess_wait(s) \/ WaiterRuns(s)
    BY <1>2 DEF Moves, OS_process_wait, OS_process_send_signal, subprocess_continue_foreground,
       MakeFails, give_terminal_to, WaitReturns, WaitInterrupted,
       ForegroundReturns, WaitForIO, safe_poll, UX_ppoll,
       PollReturns, OS_test_select_registry
  <2>2. QED
    BY <1>1, <2>1, WaitStep, WaiterStep, TellWaiters
<1>3. CASE Syncs \/ Continues
  <2>1. Quiet
    BY <1>3 DEF OS_test_select_registry, Syncs, TimerPoll, StartSync, Continues,
       OS_process_continue_background, OS_process_continue_foreground
  <2>2. QED
    BY <1>1, <2>1
<1>4. CASE \E p \in Pid : ChildChanges(p) \/ Waitpid(p) \/ OS_make_subprocess(p)
  <2>1. Quiet
    BY <1>4 DEF ChildChanges, Waitpid, OS_make_subprocess
  <2>2. QED
    BY <1>1, <2>1
<1>5. CASE \/ sighnd_dead_subprocess \/ HandlerReturns \/ process_allocate_abort \/ AbortKill
           \/ process_send_signal \/ OS_process_deallocate
           \/ (\E s \in Slot : process_allocate(s)) \/ UNCHANGED vars
  <2>1. Quiet
    BY <1>5 DEF sighnd_dead_subprocess, HandlerReturns, process_allocate_abort, AbortKill,
       process_send_signal, OS_process_deallocate, process_allocate, vars
  <2>2. QED
    BY <1>1, <2>1
<1>6. CASE \/ make_subprocess \/ \E s \in Slot : subprocess_delete(s) \/ poll_subprocess_status(s)
  BY <1>6, CopyWaiter, DeleteWaiter
<1>7. QED
  BY <1>2, <1>3, <1>4, <1>5, <1>6, Groups

\* If no child gets the pid of one that is still in the table, a change of status stays
\* visible until the object shows it, and a thread in subprocess-wait is registered while
\* the object says RUNNING and has been told as soon as it says anything else.
THEOREM ChangesAreNoticed ==
  ASSUME ~Recycle
  PROVE  Spec => []ChangesNoticed
<1>1. Init => WaitInv
  BY Distinct DEF Init, WaitInv, WaitOK, Told
<1>2. ASSUME WaitInv, NoChangeMissed PROVE ChangesNoticed
  BY <1>2 DEF ChangesNoticed, WaiterIsTold, WaitInv, WaitOK, Told, Polled
<1>3. QED
  BY <1>1, <1>2, BaseHolds, PidsHold, NoChangeIsMissed, WaitNext, PTL DEF Spec
=============================================================================
