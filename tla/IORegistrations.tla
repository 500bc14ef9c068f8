-------------------------- MODULE IORegistrations --------------------------
(***************************************************************************)
(* The I/O thread events of src/src/runtime/thread.scm: io-registrations,  *)
(* a doubly linked list of dentries (one for a descriptor and a mode),     *)
(* each with a doubly linked list of tentries (one for a registration),    *)
(* kept in step with io-registry, the descriptors that the system polls.   *)
(* The procedures run with interrupts disabled, so each is one step or,    *)
(* where it deletes in a loop, several with nothing between them; the code *)
(* of the threads, block-on-io-descriptor above all, is interrupted        *)
(* between the procedures.                                                 *)
(*                                                                         *)
(* Registrations are numbered in the order in which they are made; the     *)
(* number of a registration stands for its tentry and, if it found no      *)
(* dentry for its descriptor and mode, for the dentry it made.  #f as a    *)
(* pointer is 0.  An event only tells that a registration was signalled.   *)
(* A poll that reports several descriptors is several steps.               *)
(***************************************************************************)
EXTENDS Integers, FiniteSets, TLC

CONSTANTS
  Thread,           \* threads
  Descriptor,       \* file descriptors
  Nobody,           \* #f as the thread of a tentry
  MaxRegistrations  \* bound on the registrations made

ASSUME IOAssumption == Nobody \notin Thread /\ MaxRegistrations \in Nat

Mode == {"READ", "WRITE"}
Nil == 0
Made == 1 .. MaxRegistrations
Pointer == Made \cup {Nil}
PCs == {"run", "registered", "suspended", "after", "unwinding", "exiting", "exited"}

VARIABLES
  io,       \* io-registrations, the dentries, the tentries and io-registry
  made,     \* how many registrations were made
  pc,       \* where the code of a thread is
  frame,    \* registration, in the frame of block-on-io-descriptor
  held,     \* a registration that a thread got from register-io-thread-event
  pending,  \* the registrations whose events a thread has yet to handle
  doomed,   \* the tentries that %deregister-io-thread-events has still to delete
  closing   \* dloop of %deregister-io-descriptor: the descriptor and where it is

vars == <<io, made, pc, frame, held, pending, doomed, closing>>

FreeTentry == [dentry |-> Nil, thread |-> Nobody, prev |-> Nil, next |-> Nil]
NoDentry == [descriptor |-> Nobody, mode |-> "READ", first |-> Nil, last |-> Nil,
             prev |-> Nil, next |-> Nil]
NotClosing == [descriptor |-> Nobody, at |-> Nil]

Init ==
  /\ io = [head |-> Nil, dentry |-> [i \in Made |-> NoDentry],
           tentry |-> [i \in Made |-> FreeTentry], registry |-> {}]
  /\ made = 0
  /\ pc = [t \in Thread |-> "run"]
  /\ frame = [t \in Thread |-> Nil]
  /\ held = [t \in Thread |-> Nil]
  /\ pending = [t \in Thread |-> {}]
  /\ doomed = {}
  /\ closing = NotClosing
------------------------------------------------------------------------------
(* The lists.  An operator takes them as a record h and returns them changed. *)

\* The cells that a loop from p along the pointers next meets: the least set that has
\* p and with a cell the next one.
From(p, next) ==
  {x \in Made : \A S \in SUBSET Made :
     p \in S \cup {Nil} /\ (\A y \in S : next[y] \in S \cup {Nil}) => x \in S}

DentriesFrom(h, p) == From(p, [d \in Made |-> h.dentry[d].next])
TentriesFrom(h, p) == From(p, [x \in Made |-> h.tentry[x].next])
Dentries(h) == DentriesFrom(h, h.head)
Tentries(h, d) == TentriesFrom(h, h.dentry[d].first)
\* The registrations that signal-io-thread-events can reach.
Linked(h) == UNION {Tentries(h, d) : d \in Dentries(h)}

\* What a search for a descriptor in some modes can find, and what it finds first.
Matching(h, d, modes) ==
  {e \in Dentries(h) : h.dentry[e].descriptor = d /\ h.dentry[e].mode \in modes}
FirstOf(h, S) == CHOOSE e \in S : S \subseteq DentriesFrom(h, e)

\* The last of some tentries, in the order of the lists.
LastOf(h, S) ==
  CHOOSE x \in S : \A y \in S :
    LET dx == h.tentry[x].dentry
        dy == h.tentry[y].dentry
    IN  dx \in DentriesFrom(h, dy) /\ (dx = dy => x \in TentriesFrom(h, y))

\* The select registry, as the set of the descriptors and modes that it polls.
AddToSelectRegistry(registry, d, m) == registry \cup {<<d, m>>}
RemoveFromSelectRegistry(registry, d, m) == registry \ {<<d, m>>}

\* Mutant of UnlinkDentry: the descriptor stays in the registry.
UnlinkDentryOnly(h, d) ==
  LET prev == h.dentry[d].prev
      next == h.dentry[d].next
  IN  [head |-> IF prev = Nil THEN next ELSE h.head,
       dentry |-> [e \in Made |->
                     [h.dentry[e] EXCEPT !.next = IF e = prev THEN next ELSE @,
                                         !.prev = IF e = next THEN prev ELSE @]],
       tentry |-> h.tentry, registry |-> h.registry]

\* A dentry leaves io-registrations, and its descriptor the registry.
UnlinkDentry(h, d) ==
  LET prev == h.dentry[d].prev
      next == h.dentry[d].next
  IN  [head |-> IF prev = Nil THEN next ELSE h.head,
       dentry |-> [e \in Made |->
                     [h.dentry[e] EXCEPT !.next = IF e = prev THEN next ELSE @,
                                         !.prev = IF e = next THEN prev ELSE @]],
       tentry |-> h.tentry,
       registry |-> RemoveFromSelectRegistry(h.registry, h.dentry[d].descriptor,
                                             h.dentry[d].mode)]

\* The tentry leaves the list of its dentry and is cleared.
UnlinkTentry(h, x) ==
  LET d == h.tentry[x].dentry
      prev == h.tentry[x].prev
      next == h.tentry[x].next
  IN  [head |-> h.head,
       dentry |-> [h.dentry EXCEPT ![d].first = IF prev = Nil THEN next ELSE @,
                                   ![d].last = IF next = Nil THEN prev ELSE @],
       tentry |-> [y \in Made |->
                     IF y = x THEN FreeTentry
                     ELSE [h.tentry[y] EXCEPT !.next = IF y = prev THEN next ELSE @,
                                              !.prev = IF y = next THEN prev ELSE @]],
       registry |-> h.registry]

\* Mutants of DeleteTentry: a dentry without tentries stays; the dentry goes with
\* its first tentry, whatever follows.
DeleteTentryOnly(h, x) == UnlinkTentry(h, x)
DeleteWithDentry(h, x) ==
  IF h.tentry[x].prev = Nil
  THEN UnlinkDentry(UnlinkTentry(h, x), h.tentry[x].dentry)
  ELSE UnlinkTentry(h, x)

\* delete-tentry!: the last tentry takes the dentry with it.
DeleteTentry(h, x) ==
  IF h.tentry[x].prev = Nil /\ h.tentry[x].next = Nil
  THEN UnlinkDentry(UnlinkTentry(h, x), h.tentry[x].dentry)
  ELSE UnlinkTentry(h, x)

\* %deregister-io-thread-event
Deregistered(h, x) == IF h.tentry[x].dentry = Nil THEN h ELSE DeleteTentry(h, x)

\* %register-io-thread-event: registration x of thread t, at the end of a list, or in a
\* new dentry at the head of io-registrations.
RegisteredIn(h, x, t, e) ==
  LET prev == h.dentry[e].last
  IN  [head |-> h.head,
       dentry |-> [h.dentry EXCEPT ![e].last = x],
       tentry |-> [y \in Made |->
                     IF y = x
                     THEN [dentry |-> e, thread |-> t, prev |-> prev, next |-> Nil]
                     ELSE [h.tentry[y] EXCEPT !.next = IF y = prev THEN x ELSE @]],
       registry |-> h.registry]

RegisteredNew(h, x, t, d, m) ==
  [head |-> x,
   dentry |-> [e \in Made |->
                 IF e = x
                 THEN [descriptor |-> d, mode |-> m, first |-> x, last |-> x,
                       prev |-> Nil, next |-> h.head]
                 ELSE [h.dentry[e] EXCEPT !.prev = IF e = h.head THEN x ELSE @]],
   tentry |-> [h.tentry EXCEPT ![x] = [FreeTentry EXCEPT !.thread = t, !.dentry = x]],
   registry |-> AddToSelectRegistry(h.registry, d, m)]

Registered(h, x, t, d, m) ==
  LET found == Matching(h, d, {m})
  IN  IF found = {} THEN RegisteredNew(h, x, t, d, m)
      ELSE RegisteredIn(h, x, t, FirstOf(h, found))

\* Mutant of AfterThunk: the registration is left to be signalled some day.
AfterThunkIdle(h, t) == h

\* The after thunk of block-on-io-descriptor.
AfterThunk(h, t) ==
  IF frame[t] # Nil /\ h.tentry[frame[t]].thread = t
  THEN Deregistered(h, frame[t]) ELSE h
------------------------------------------------------------------------------
(* The threads.                                                              *)

\* register-io-thread-event and block-on-io-descriptor make a registration.
NewRegistration(t, d, m) ==
  /\ pc[t] = "run" /\ made < MaxRegistrations
  /\ made' = made + 1
  /\ io' = Registered(io, made', t, d, m)

RegisterIOThreadEvent(t, d, m) ==
  /\ held[t] = Nil
  /\ NewRegistration(t, d, m)
  /\ held' = [held EXCEPT ![t] = made']
  /\ UNCHANGED <<pc, frame, pending, doomed, closing>>

DeregisterIOThreadEvent(t) ==
  /\ pc[t] = "run" /\ held[t] # Nil
  /\ io' = Deregistered(io, held[t])
  /\ held' = [held EXCEPT ![t] = Nil]
  /\ UNCHANGED <<made, pc, frame, pending, doomed, closing>>

\* block-on-io-descriptor registers, suspends unless its event has run, and
\* withdraws its registration if it still has a thread.
BlockOnIODescriptor(t, d, m) ==
  /\ NewRegistration(t, d, m)
  /\ frame' = [frame EXCEPT ![t] = made']
  /\ pc' = [pc EXCEPT ![t] = "registered"]
  /\ UNCHANGED <<held, pending, doomed, closing>>

SuspendForIO(t) ==
  /\ pc[t] = "registered" /\ pending[t] = {}
  /\ pc' = [pc EXCEPT ![t] = "suspended"]
  /\ UNCHANGED <<io, made, frame, held, pending, doomed, closing>>

\* A thread handles its events: suspend-current-thread returns after any event,
\* before that only the event of the registration itself prevents the suspension.
HandleEvents(t) ==
  /\ pc[t] \in {"run", "registered", "suspended"} /\ pending[t] # {}
  /\ pc' = [pc EXCEPT ![t] = IF @ = "suspended" \/ (@ = "registered" /\ frame[t] \in pending[t])
                             THEN "after" ELSE @]
  /\ pending' = [pending EXCEPT ![t] = {}]
  /\ UNCHANGED <<io, made, frame, held, doomed, closing>>

\* Some other event ends the suspension.
Interrupted(t) ==
  /\ pc[t] = "suspended"
  /\ pc' = [pc EXCEPT ![t] = "after"]
  /\ pending' = [pending EXCEPT ![t] = {}]
  /\ UNCHANGED <<io, made, frame, held, doomed, closing>>

AfterBlock(t) ==
  /\ pc[t] = "after"
  /\ io' = AfterThunk(io, t)
  /\ frame' = [frame EXCEPT ![t] = Nil]
  /\ pc' = [pc EXCEPT ![t] = "run"]
  /\ UNCHANGED <<made, held, pending, doomed, closing>>

\* exit-current-thread: the events are discarded and the thread is unwound, which runs
\* the after thunk; then %deregister-io-thread-events collects what it still has and
\* deletes it, the last one first.
ExitCurrentThread(t) ==
  /\ pc[t] # "exited"
  /\ pc' = [pc EXCEPT ![t] = "unwinding"]
  /\ pending' = [pending EXCEPT ![t] = {}]
  /\ UNCHANGED <<io, made, frame, held, doomed, closing>>

Unwind(t) ==
  /\ pc[t] = "unwinding"
  /\ io' = AfterThunk(io, t)
  /\ doomed' = {x \in Linked(io') : io'.tentry[x].thread = t}
  /\ frame' = [frame EXCEPT ![t] = Nil]
  /\ pc' = [pc EXCEPT ![t] = "exiting"]
  /\ UNCHANGED <<made, held, pending, closing>>

DeregisterIOThreadEvents(t) ==
  /\ pc[t] = "exiting" /\ doomed # {}
  /\ io' = DeleteTentry(io, LastOf(io, doomed))
  /\ doomed' = doomed \ {LastOf(io, doomed)}
  /\ UNCHANGED <<made, pc, frame, held, pending, closing>>

\* Nothing else in the thread concerns I/O.
ThreadIsDead(t) ==
  /\ pc[t] = "exiting" /\ doomed = {}
  /\ pc' = [pc EXCEPT ![t] = "exited"]
  /\ held' = [held EXCEPT ![t] = Nil]
  /\ UNCHANGED <<io, made, frame, pending, doomed, closing>>
------------------------------------------------------------------------------
(* Polling and closing.                                                      *)

\* What poll can find of a descriptor in the registry: readiness in the modes asked
\* for, and errors and hangups without being asked.
Trouble == {"ERROR", "HANGUP"}
PollResults(d) ==
  LET asked == {m \in Mode : <<d, m>> \in io.registry}
  IN  IF asked = {} THEN {{}} ELSE SUBSET (asked \cup Trouble)

\* test-select-registry leaves out descriptors of which poll found nothing, and
\* reports trouble rather than readiness; signal-io-thread-events then looks for
\* registrations in either mode.
Reports(d) == PollResults(d) \ {{}}
ReportedModes(d) ==
  {IF report \cap Trouble # {} THEN Mode ELSE report : report \in Reports(d)}

\* Mutant of FirstTentry: the latest registration is served first.
LastTentry(e) == io.dentry[e].last

FirstTentry(e) == io.dentry[e].first

\* signal-io-thread-events with one descriptor, reported in the given modes: the first
\* registration in one of them is signalled and withdrawn.
SignalIOThreadEvents(d, modes) ==
  LET found == Matching(io, d, modes)
      x == FirstTentry(FirstOf(io, found))
  IN  /\ found # {}
      /\ x # Nil /\ io.tentry[x].thread \in Thread
      /\ pending' = [pending EXCEPT ![io.tentry[x].thread] = @ \cup {x}]
      /\ io' = DeleteTentry(io, x)
      /\ UNCHANGED <<made, pc, frame, held, doomed, closing>>

\* %deregister-io-descriptor, called by channel-close: every registration is
\* signalled and its dentry unlinked; the tentries keep pointing to the dentry.
DeregisterIODescriptor(d) ==
  /\ Matching(io, d, Mode) # {}
  /\ closing' = [descriptor |-> d, at |-> io.head]
  /\ UNCHANGED <<io, made, pc, frame, held, pending, doomed>>

CloseDentry ==
  LET e == closing.at
  IN  /\ e # Nil
      /\ closing' = [closing EXCEPT !.at = io.dentry[e].next]
      /\ IF io.dentry[e].descriptor = closing.descriptor
         THEN /\ pending' = [t \in Thread |-> pending[t] \cup
                               {x \in Tentries(io, e) : io.tentry[x].thread = t}]
              /\ io' = UnlinkDentry(io, e)
         ELSE UNCHANGED <<io, pending>>
      /\ UNCHANGED <<made, pc, frame, held, doomed>>

CloseDone ==
  /\ closing # NotClosing /\ closing.at = Nil
  /\ closing' = NotClosing
  /\ UNCHANGED <<io, made, pc, frame, held, pending, doomed>>

\* deregister-io-descriptor-events: the first dentry of the descriptor and the
\* mode is unlinked and nobody is told.
DeregisterIODescriptorEvents(d, m) ==
  LET found == Matching(io, d, {m})
  IN  /\ found # {}
      /\ io' = UnlinkDentry(io, FirstOf(io, found))
      /\ UNCHANGED <<made, pc, frame, held, pending, doomed, closing>>

\* Interrupts are enabled: no thread is exiting and no descriptor is being closed.
Calm ==
  /\ \A t \in Thread : pc[t] \notin {"unwinding", "exiting"}
  /\ closing = NotClosing

ThreadStep(t) ==
  \/ \E d \in Descriptor, m \in Mode :
       RegisterIOThreadEvent(t, d, m) \/ BlockOnIODescriptor(t, d, m)
  \/ DeregisterIOThreadEvent(t)
  \/ SuspendForIO(t) \/ HandleEvents(t) \/ Interrupted(t) \/ AfterBlock(t)
  \/ ExitCurrentThread(t)

Next ==
  \/ Calm /\ \E t \in Thread : ThreadStep(t)
  \/ Calm /\ \E d \in Descriptor : \E modes \in ReportedModes(d) : SignalIOThreadEvents(d, modes)
  \/ \E t \in Thread : Unwind(t) \/ DeregisterIOThreadEvents(t) \/ ThreadIsDead(t)

\* Programs that never close a descriptor on which a thread has a registration.
Spec == Init /\ [][Next]_vars

\* Programs that do.
NextWithClose ==
  \/ Next
  \/ CloseDentry \/ CloseDone
  \/ /\ Calm
     /\ \E d \in Descriptor :
          DeregisterIODescriptor(d) \/ \E m \in Mode : DeregisterIODescriptorEvents(d, m)

SpecWithClose == Init /\ [][NextWithClose]_vars
------------------------------------------------------------------------------
(* Properties.                                                               *)

\* The lists are well formed, whatever was deleted from them and in what order:
\* every pointer back undoes a pointer forward and every pointer forward a pointer
\* back, the first and the last tentry are the ends of the list, a tentry knows its
\* dentry, no dentry is empty, and no two dentries are for the same descriptor and mode.
WellLinked ==
  /\ \A d \in Dentries(io) :
       LET dentry == io.dentry[d]
       IN  /\ dentry.prev = Nil <=> d = io.head
           /\ dentry.prev # Nil => /\ dentry.prev \in Dentries(io)
                                   /\ io.dentry[dentry.prev].next = d
           /\ dentry.next # Nil => io.dentry[dentry.next].prev = d
           /\ dentry.first # Nil /\ dentry.last \in Tentries(io, d)
           /\ \A x \in Tentries(io, d) :
                LET tentry == io.tentry[x]
                IN  /\ tentry.dentry = d /\ tentry.thread \in Thread
                    /\ tentry.prev = Nil <=> x = dentry.first
                    /\ tentry.next = Nil <=> x = dentry.last
                    /\ tentry.prev # Nil => /\ tentry.prev \in Tentries(io, d)
                                            /\ io.tentry[tentry.prev].next = x
                    /\ tentry.next # Nil => io.tentry[tentry.next].prev = x
  /\ \A d, e \in Dentries(io) :
       /\ io.dentry[d].descriptor = io.dentry[e].descriptor
       /\ io.dentry[d].mode = io.dentry[e].mode
       => d = e

\* The system polls exactly the descriptors and modes that have registrations: one
\* that is missing would never wake its threads, one too many makes the poll of
\* wait-for-io return at once for ever.
RegistryAgrees ==
  io.registry = {<<io.dentry[d].descriptor, io.dentry[d].mode>> : d \in Dentries(io)}

\* The registrations after any sequence of deletions: the list structure is sound
\* and the set of descriptors that is polled is the one it describes.
ListsInv == WellLinked /\ RegistryAgrees

\* A thread suspended in block-on-io-descriptor can be woken by its descriptor: its
\* registration is linked, or its event is already pending.
WaiterRegistered ==
  \A t \in Thread : pc[t] = "suspended" =>
    frame[t] \in Linked(io) \/ frame[t] \in pending[t]

\* No registration outlives its thread, and none is kept that no code can withdraw:
\* only registrations that some frame or variable still holds are linked.
NoStrayRegistration ==
  \A x \in Linked(io) :
    LET t == io.tentry[x].thread IN pc[t] # "exited" /\ x \in {frame[t], held[t]}

\* Registrations and the threads they are for agree: nobody who waits is
\* unregistered, and nobody is registered who does not wait.
RegistrationsInv == WaiterRegistered /\ NoStrayRegistration

\* The comment in block-on-io-descriptor: leaving it, a thread does not withdraw
\* the registrations of other threads.
OthersStay ==
  [][\A t \in Thread : pc[t] = "after" /\ pc'[t] = "run" =>
       \A x \in Linked(io) : io.tentry[x].thread # t => x \in Linked(io')]_vars

\* The registrations as IOWaiters sees them.
Waiting ==
  {[ticket |-> x, thread |-> io.tentry[x].thread,
    descriptor |-> io.dentry[io.tentry[x].dentry].descriptor,
    mode |-> io.dentry[io.tentry[x].dentry].mode] : x \in Linked(io)}
Waiters == INSTANCE IOWaiters
             WITH issued <- made, waiting <- Waiting, woken <- pending

\* The lists implement IOWaiters: whatever was withdrawn in between, a report of a
\* descriptor wakes the registration that was made first, once.
WaitersSpec == Waiters!Spec
=============================================================================
