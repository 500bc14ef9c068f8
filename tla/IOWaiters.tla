----------------------------- MODULE IOWaiters -----------------------------
(***************************************************************************)
(* What the I/O registrations of thread.scm promise, without the lists     *)
(* that implement them: registrations get tickets in the order in which    *)
(* they are made, and when a descriptor becomes ready in a mode the        *)
(* registration for it with the lowest ticket is woken.  Nothing else      *)
(* wakes one.                                                              *)
(***************************************************************************)
EXTENDS Integers

CONSTANTS Thread, Descriptor, Mode

VARIABLES
  issued,   \* the number of tickets issued
  waiting,  \* the registrations that wait: [ticket, thread, descriptor, mode]
  woken     \* for every thread, the tickets it was woken for and did not yet see

vars == <<issued, waiting, woken>>

Init == issued = 0 /\ waiting = {} /\ woken = [t \in Thread |-> {}]

\* A thread waits for descriptor d to become ready in mode m.
Join(t, d, m) ==
  /\ issued' = issued + 1
  /\ waiting' = waiting \cup {[ticket |-> issued + 1, thread |-> t, descriptor |-> d, mode |-> m]}
  /\ UNCHANGED woken

\* The registration that has waited longest is woken.
Wake(d, m) ==
  LET line == {r \in waiting : r.descriptor = d /\ r.mode = m}
  IN  \E r \in line :
        /\ \A q \in line : r.ticket <= q.ticket
        /\ waiting' = waiting \ {r}
        /\ woken' = [woken EXCEPT ![r.thread] = @ \cup {r.ticket}]
        /\ UNCHANGED issued

\* A registration is withdrawn.
Leave(r) ==
  /\ waiting' = waiting \ {r}
  /\ UNCHANGED <<issued, woken>>

\* A thread sees what it was woken for, or exits.
See(t) ==
  /\ woken' = [woken EXCEPT ![t] = {}]
  /\ UNCHANGED <<issued, waiting>>

Next == \/ \E d \in Descriptor, m \in Mode : Wake(d, m) \/ \E t \in Thread : Join(t, d, m)
        \/ \E r \in waiting : Leave(r)
        \/ \E t \in Thread : See(t)

Spec == Init /\ [][Next]_vars
=============================================================================
