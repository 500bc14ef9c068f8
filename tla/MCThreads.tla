----------------------------- MODULE MCThreads -----------------------------
(***************************************************************************)
(* Instances of Threads for TLC: the programs of the threads, that is the  *)
(* procedures of the thread system that the code of each of them calls.    *)
(* Threads other than the first one run the same program, so they are      *)
(* interchangeable, and so are the mutexes.                                *)
(***************************************************************************)
EXTENDS Threads, TLC

Program(first, others) ==
  [t \in Thread |-> IF t = FirstThread THEN first ELSE others]

\* The first thread starts workers, joins or detaches them and tells them to exit
\* (by the event "kill"); it and they contend for a mutex; they suspend themselves,
\* wait for each other's exit and exit.
Workers == Program({"create", "join", "detach", "lock", "signal"},
                   {"lock", "suspend", "exit", "join"})

\* The first thread sleeps, sets timers, changes the time slice and restarts the
\* other one, which may be signalled from an interrupt handler and does the rest of
\* what a thread can do to its own events and its turn.
Timers == Program({"create", "sleep", "timer", "interval", "restart"},
                  {"self-signal", "block", "handle", "suspend", "deregister",
                   "preempt", "stop", "yield", "idle-signal"})

Sleepers == Program({"create", "sleep"}, {"create", "sleep"})

Signallers == Program({"create", "self-signal", "signal", "block"},
                      {"create", "self-signal", "signal", "block"})

Symmetry == Permutations(Thread \ {FirstThread}) \cup Permutations(Mutex)
=============================================================================
