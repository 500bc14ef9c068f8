----------------------- MODULE IORegistrationsProofs -----------------------
(***************************************************************************)
(* Proofs about IORegistrations, for any threads, descriptors and number   *)
(* of registrations: the lists are well formed and agree with the poll     *)
(* set, the registrations agree with the threads, and the lists implement  *)
(* IOWaiters.                                                              *)
(*                                                                         *)
(* Registrations are numbered in the order in which they are made, and a   *)
(* number stands for a tentry and for the dentry made with it.  A tentry   *)
(* is put at the end of a list and a dentry at its beginning, so a list of *)
(* tentries ascends and the list of dentries descends.  The invariant says *)
(* this of each pointer by itself: it leads to the next number, up or      *)
(* down, of a set.  No chain has to be followed.                           *)
(***************************************************************************)
EXTENDS IORegistrations, WellFoundedInduction, TLAPS

-----------------------------------------------------------------------------
(* The inductive invariant. *)

\* The least element of S above x, and the greatest below x, or Nil.
IsAbove(p, x, S) ==
  IF p = Nil THEN \A y \in S : y <= x
  ELSE p \in S /\ x < p /\ \A y \in S : x < y => p <= y
IsBelow(p, x, S) ==
  IF p = Nil THEN \A y \in S : x <= y
  ELSE p \in S /\ p < x /\ \A y \in S : y < x => y <= p

Top == MaxRegistrations + 1

\* The tentries of dentry d, and the dentries that have tentries.
On(h, d) == {x \in Made : h.tentry[x].dentry = d}
Used(h) == {h.tentry[x].dentry : x \in Made} \ {Nil}

DentryType == [descriptor : Descriptor \cup {Nobody}, mode : Mode, first : Pointer,
               last : Pointer, prev : Pointer, next : Pointer]
TentryType == [dentry : Pointer, thread : Thread \cup {Nobody}, prev : Pointer, next : Pointer]
ListsType == [head : Pointer, dentry : [Made -> DentryType], tentry : [Made -> TentryType],
              registry : SUBSET (Descriptor \X Mode)]

\* n registrations were made; one that is not in a list is cleared.
Cleared(h, n) ==
  \A x \in Made : /\ h.tentry[x].dentry <= n
                  /\ x > n => h.tentry[x].dentry = Nil
                  /\ h.tentry[x].dentry = Nil => h.tentry[x] = FreeTentry

TentryOK(h, x) ==
  LET S == On(h, h.tentry[x].dentry)
  IN  /\ h.tentry[x].thread \in Thread
      /\ IsAbove(h.tentry[x].next, x, S) /\ IsBelow(h.tentry[x].prev, x, S)

DentryOK(h, d) ==
  /\ h.dentry[d].descriptor \in Descriptor
  /\ IsAbove(h.dentry[d].first, 0, On(h, d)) /\ IsBelow(h.dentry[d].last, Top, On(h, d))
  /\ IsBelow(h.dentry[d].next, d, Used(h)) /\ IsAbove(h.dentry[d].prev, d, Used(h))

Distinct(h) ==
  \A d, e \in Used(h) : /\ h.dentry[d].descriptor = h.dentry[e].descriptor
                        /\ h.dentry[d].mode = h.dentry[e].mode
                        => d = e

Polled(h) == h.registry = {<<h.dentry[d].descriptor, h.dentry[d].mode>> : d \in Used(h)}

ListsOK(h, n) ==
  /\ h \in ListsType
  /\ Cleared(h, n)
  /\ \A x \in Made : h.tentry[x].dentry # Nil => TentryOK(h, x)
  /\ \A d \in Used(h) : DentryOK(h, d)
  /\ IsBelow(h.head, Top, Used(h))
  /\ Distinct(h) /\ Polled(h)

Types ==
  /\ made \in 0 .. MaxRegistrations
  /\ pc \in [Thread -> PCs]
  /\ frame \in [Thread -> 0 .. made] /\ held \in [Thread -> 0 .. made]
  /\ pending \in [Thread -> SUBSET Made]
  /\ doomed \in SUBSET Made
  /\ closing = NotClosing

\* The thread for which a registration is in a list, or Nobody.
Owner(h) == [x \in Made |-> h.tentry[x].thread]

\* What the frame of a thread says of its registration: who is in the loop of
\* block-on-io-descriptor has one, and it is linked or was signalled.
FrameOK(t) ==
  /\ frame[t] # Nil => /\ pc[t] \in {"registered", "suspended", "after", "unwinding"}
                       /\ frame[t] # held[t]
                       /\ Owner(io)[frame[t]] \in {t, Nobody}
  /\ held[t] # Nil => pc[t] # "exited" /\ Owner(io)[held[t]] \in {t, Nobody}
  /\ pc[t] \in {"registered", "suspended"} =>
       frame[t] # Nil /\ (Owner(io)[frame[t]] = t \/ frame[t] \in pending[t])

\* Every linked registration is in a frame or held, by a thread that has not exited.
OwnerOK(x) ==
  LET t == Owner(io)[x] IN t # Nobody => pc[t] # "exited" /\ x \in {frame[t], held[t]}

\* One thread exits at a time, and what is doomed is what it still has.
ExitOK ==
  /\ \A t, u \in Thread : pc[t] \in {"unwinding", "exiting"} /\ pc[u] \in {"unwinding", "exiting"}
                            => t = u
  /\ \A t \in Thread : pc[t] = "exiting" => doomed = {x \in Made : Owner(io)[x] = t}

ThreadsOK ==
  /\ \A t \in Thread : FrameOK(t)
  /\ \A x \in Made : OwnerOK(x)
  /\ ExitOK

IInv == Types /\ ListsOK(io, made) /\ ThreadsOK

-----------------------------------------------------------------------------
(* The next number up or down in a set. *)

LEMMA Pointers ==
  /\ Made \subseteq Nat /\ Nil \notin Made /\ Pointer = Made \cup {Nil} /\ Nil = 0
  /\ \A x \in Made : 0 < x /\ x < Top /\ x \in Int
  /\ Top \in Nat /\ MaxRegistrations \in Nat
  BY IOAssumption DEF Made, Nil, Pointer, Top

\* Each direction undoes the other.
LEMMA UpAndDown ==
  ASSUME NEW S \in SUBSET Made, NEW x \in S, NEW y \in S, NEW p \in Pointer, NEW q \in Pointer,
         IsAbove(p, x, S), IsBelow(q, y, S)
  PROVE  p = y <=> q = x
  BY Pointers DEF IsAbove, IsBelow

\* An element leaves the set: the pointer to it takes over its own pointer.
LEMMA AboveLess ==
  ASSUME NEW S \in SUBSET Made, NEW x \in Nat, NEW p \in Pointer, IsAbove(p, x, S),
         NEW z \in S, z # x, NEW q \in Pointer, IsAbove(q, z, S)
  PROVE  IsAbove(IF p = z THEN q ELSE p, x, S \ {z})
  BY Pointers DEF IsAbove

LEMMA BelowLess ==
  ASSUME NEW S \in SUBSET Made, NEW x \in Nat, NEW p \in Pointer, IsBelow(p, x, S),
         NEW z \in S, z # x, NEW q \in Pointer, IsBelow(q, z, S)
  PROVE  IsBelow(IF p = z THEN q ELSE p, x, S \ {z})
  BY Pointers DEF IsBelow

\* The first and the last element are those with nothing below and above.
LEMMA LeastHasNoneBelow ==
  ASSUME NEW S \in SUBSET Made, NEW z \in S, NEW p \in Pointer, IsAbove(p, 0, S),
         NEW q \in Pointer, IsBelow(q, z, S)
  PROVE  p = z <=> q = Nil
  BY Pointers DEF IsAbove, IsBelow

LEMMA GreatestHasNoneAbove ==
  ASSUME NEW S \in SUBSET Made, NEW z \in S, NEW p \in Pointer, IsBelow(p, Top, S),
         NEW q \in Pointer, IsAbove(q, z, S)
  PROVE  p = z <=> q = Nil
  BY Pointers DEF IsAbove, IsBelow

\* The end of a set that is not empty is an element.
LEMMA EndsExist ==
  ASSUME NEW S \in SUBSET Made, S # {}, NEW p, IsAbove(p, 0, S) \/ IsBelow(p, Top, S)
  PROVE  p \in S /\ p # Nil
<1>1. PICK y \in S : 0 < y /\ y < Top /\ y \in Nat
  BY Pointers
<1>2. ~(y <= 0) /\ ~(Top <= y) /\ Nil = 0
  BY <1>1, Pointers
<1>3. QED
  BY <1>1, <1>2 DEF IsAbove, IsBelow

\* An element with nothing above and below is alone.
LEMMA Alone ==
  ASSUME NEW S \in SUBSET Made, NEW z \in S, IsAbove(Nil, z, S), IsBelow(Nil, z, S)
  PROVE  S = {z}
<1>1. \A y \in S : y <= z /\ z <= y /\ y \in Nat /\ z \in Nat
  BY Pointers DEF IsAbove, IsBelow
<1>2. \A y \in S : y = z
  BY <1>1
<1>3. QED
  BY <1>2

\* An element above all others comes in.
LEMMA AboveMore ==
  ASSUME NEW S \in SUBSET Made, NEW m \in Made, \A y \in S : y < m,
         NEW x \in Nat, x < m, NEW p \in Pointer, IsAbove(p, x, S)
  PROVE  IsAbove(IF p = Nil THEN m ELSE p, x, S \cup {m})
  BY Pointers DEF IsAbove

LEMMA BelowMore ==
  ASSUME NEW S \in SUBSET Made, NEW m \in Made, \A y \in S : y < m,
         NEW x \in Nat, x < m, NEW p \in Pointer, IsBelow(p, x, S)
  PROVE  IsBelow(p, x, S \cup {m})
  BY Pointers DEF IsBelow

LEMMA NewGreatest ==
  ASSUME NEW S \in SUBSET Made, NEW m \in Made, \A y \in S : y < m,
         NEW p \in Pointer, IsBelow(p, Top, S)
  PROVE  /\ IsAbove(Nil, m, S \cup {m}) /\ IsBelow(p, m, S \cup {m})
         /\ IsBelow(m, Top, S \cup {m})
  BY Pointers DEF IsAbove, IsBelow

LEMMA Single ==
  ASSUME NEW m \in Made
  PROVE  /\ IsAbove(Nil, m, {m}) /\ IsBelow(Nil, m, {m})
         /\ IsAbove(m, 0, {m}) /\ IsBelow(m, Top, {m})
  BY Pointers DEF IsAbove, IsBelow

-----------------------------------------------------------------------------
(* What the operations on the lists do to each cell. *)

LEMMA ListsTypes ==
  ASSUME NEW h \in ListsType
  PROVE  /\ h.head \in Pointer /\ h.registry \in SUBSET (Descriptor \X Mode)
         /\ h.dentry \in [Made -> DentryType] /\ h.tentry \in [Made -> TentryType]
         /\ \A d \in Made : /\ h.dentry[d] \in DentryType
                            /\ h.dentry[d].first \in Pointer /\ h.dentry[d].last \in Pointer
                            /\ h.dentry[d].prev \in Pointer /\ h.dentry[d].next \in Pointer
                            /\ h.dentry[d].mode \in Mode
         /\ \A x \in Made : /\ h.tentry[x] \in TentryType /\ h.tentry[x].dentry \in Pointer
                            /\ h.tentry[x].prev \in Pointer /\ h.tentry[x].next \in Pointer
         /\ Used(h) \subseteq Made /\ \A d : On(h, d) \subseteq Made
         /\ \A x \in Made : h.tentry[x].dentry # Nil =>
              h.tentry[x].dentry \in Used(h) /\ x \in On(h, h.tentry[x].dentry)
         /\ \A d \in Used(h) : d # Nil /\ On(h, d) # {}
  BY Pointers DEF ListsType, DentryType, TentryType, Used, On

LEMMA FreeTentryType == FreeTentry \in TentryType
  BY Pointers DEF FreeTentry, TentryType

LEMMA UnlinkTentryCells ==
  ASSUME NEW h \in ListsType, NEW x \in Made, h.tentry[x].dentry \in Made
  PROVE  LET k == UnlinkTentry(h, x)
             c == h.tentry[x]
         IN  /\ k \in ListsType /\ k.head = h.head /\ k.registry = h.registry
             /\ k.tentry[x] = FreeTentry
             /\ \A y \in Made \ {x} :
                  /\ k.tentry[y].dentry = h.tentry[y].dentry
                  /\ k.tentry[y].thread = h.tentry[y].thread
                  /\ k.tentry[y].next = IF y = c.prev THEN c.next ELSE h.tentry[y].next
                  /\ k.tentry[y].prev = IF y = c.next THEN c.prev ELSE h.tentry[y].prev
             /\ \A d \in Made :
                  /\ k.dentry[d].descriptor = h.dentry[d].descriptor
                  /\ k.dentry[d].mode = h.dentry[d].mode
                  /\ k.dentry[d].prev = h.dentry[d].prev /\ k.dentry[d].next = h.dentry[d].next
                  /\ k.dentry[d].first = IF d = c.dentry /\ c.prev = Nil THEN c.next
                                         ELSE h.dentry[d].first
                  /\ k.dentry[d].last = IF d = c.dentry /\ c.next = Nil THEN c.prev
                                        ELSE h.dentry[d].last
<1> DEFINE k == UnlinkTentry(h, x)
           c == h.tentry[x]
<1>1. /\ h = [head |-> h.head, dentry |-> h.dentry, tentry |-> h.tentry, registry |-> h.registry]
      /\ c \in TentryType /\ c.prev \in Pointer /\ c.next \in Pointer
  BY ListsTypes DEF ListsType
<1>2. /\ k.head = h.head /\ k.registry = h.registry
      /\ k.tentry = [y \in Made |->
                      IF y = x THEN FreeTentry
                      ELSE [h.tentry[y] EXCEPT !.next = IF y = c.prev THEN c.next ELSE @,
                                               !.prev = IF y = c.next THEN c.prev ELSE @]]
      /\ k = [head |-> k.head, dentry |-> k.dentry, tentry |-> k.tentry, registry |-> k.registry]
  BY DEF UnlinkTentry
<1>3. k.dentry = [h.dentry EXCEPT
                    ![c.dentry].first = IF c.prev = Nil THEN c.next ELSE @,
                    ![c.dentry].last = IF c.next = Nil THEN c.prev ELSE @]
  BY DEF UnlinkTentry
<1> HIDE DEF k, c
<1>4. k.tentry \in [Made -> TentryType] /\ k.tentry[x] = FreeTentry
      /\ \A y \in Made \ {x} :
                  /\ k.tentry[y].dentry = h.tentry[y].dentry
                  /\ k.tentry[y].thread = h.tentry[y].thread
                  /\ k.tentry[y].next = IF y = c.prev THEN c.next ELSE h.tentry[y].next
                  /\ k.tentry[y].prev = IF y = c.next THEN c.prev ELSE h.tentry[y].prev
  <2>1. \A y \in Made : h.tentry[y] \in TentryType
    BY ListsTypes
  <2>2. ASSUME NEW y \in Made \ {x}
        PROVE  /\ k.tentry[y] \in TentryType
               /\ k.tentry[y].dentry = h.tentry[y].dentry
               /\ k.tentry[y].thread = h.tentry[y].thread
               /\ k.tentry[y].next = IF y = c.prev THEN c.next ELSE h.tentry[y].next
               /\ k.tentry[y].prev = IF y = c.next THEN c.prev ELSE h.tentry[y].prev
    <3>1. k.tentry[y] = [h.tentry[y] EXCEPT !.next = IF y = c.prev THEN c.next ELSE @,
                                            !.prev = IF y = c.next THEN c.prev ELSE @]
      BY <1>2
    <3>2. h.tentry[y] \in TentryType
      BY <2>1
    <3>3. QED
      BY <1>1, <3>1, <3>2 DEF TentryType
  <2>3. k.tentry = [y \in Made |-> k.tentry[y]] /\ k.tentry[x] = FreeTentry
    BY <1>2
  <2>4. QED
    BY <2>2, <2>3, FreeTentryType
<1>5. k.dentry \in [Made -> DentryType]
      /\ \A d \in Made :
                  /\ k.dentry[d].descriptor = h.dentry[d].descriptor
                  /\ k.dentry[d].mode = h.dentry[d].mode
                  /\ k.dentry[d].prev = h.dentry[d].prev /\ k.dentry[d].next = h.dentry[d].next
                  /\ k.dentry[d].first = IF d = c.dentry /\ c.prev = Nil THEN c.next
                                         ELSE h.dentry[d].first
                  /\ k.dentry[d].last = IF d = c.dentry /\ c.next = Nil THEN c.prev
                                        ELSE h.dentry[d].last
  <2>1. h.dentry \in [Made -> DentryType] /\ c.dentry \in Made
    BY ListsTypes DEF c
  <2>2. ASSUME NEW d \in Made
        PROVE  k.dentry[d] = IF d = c.dentry
                             THEN [h.dentry[d] EXCEPT !.first = IF c.prev = Nil THEN c.next ELSE @,
                                                      !.last = IF c.next = Nil THEN c.prev ELSE @]
                             ELSE h.dentry[d]
    BY <1>3, <2>1
  <2>3. k.dentry = [d \in Made |-> k.dentry[d]]
    BY <1>3, <2>1
  <2>4. ASSUME NEW d \in Made
        PROVE  /\ k.dentry[d] \in DentryType
               /\ k.dentry[d].descriptor = h.dentry[d].descriptor
               /\ k.dentry[d].mode = h.dentry[d].mode
               /\ k.dentry[d].prev = h.dentry[d].prev /\ k.dentry[d].next = h.dentry[d].next
               /\ k.dentry[d].first = IF d = c.dentry /\ c.prev = Nil THEN c.next
                                      ELSE h.dentry[d].first
               /\ k.dentry[d].last = IF d = c.dentry /\ c.next = Nil THEN c.prev
                                     ELSE h.dentry[d].last
    <3>1. h.dentry[d] \in DentryType
      BY <2>1
    <3>2. QED
      BY <1>1, <2>2, <3>1 DEF DentryType
  <2>5. QED
    BY <2>3, <2>4
<1>6. k \in ListsType
  BY <1>2, <1>4, <1>5, ListsTypes DEF ListsType
<1>7. QED
  BY <1>2, <1>4, <1>5, <1>6 DEF k, c

LEMMA UnlinkDentryCells ==
  ASSUME NEW h \in ListsType, NEW d \in Made, NEW k, k = UnlinkDentry(h, d)
  PROVE  LET c == h.dentry[d]
         IN  /\ k \in ListsType /\ k.tentry = h.tentry
             /\ k.registry = h.registry \ {<<c.descriptor, c.mode>>}
             /\ k.head = IF c.prev = Nil THEN c.next ELSE h.head
             /\ \A e \in Made :
                  /\ k.dentry[e].descriptor = h.dentry[e].descriptor
                  /\ k.dentry[e].mode = h.dentry[e].mode
                  /\ k.dentry[e].first = h.dentry[e].first /\ k.dentry[e].last = h.dentry[e].last
                  /\ k.dentry[e].next = IF e = c.prev THEN c.next ELSE h.dentry[e].next
                  /\ k.dentry[e].prev = IF e = c.next THEN c.prev ELSE h.dentry[e].prev
<1> DEFINE c == h.dentry[d]
<1>1. /\ h = [head |-> h.head, dentry |-> h.dentry, tentry |-> h.tentry, registry |-> h.registry]
      /\ c \in DentryType /\ c.prev \in Pointer /\ c.next \in Pointer
  BY ListsTypes DEF ListsType
<1>2. /\ k.tentry = h.tentry
      /\ k.registry = h.registry \ {<<c.descriptor, c.mode>>}
      /\ k.head = IF c.prev = Nil THEN c.next ELSE h.head
      /\ k.dentry = [e \in Made |->
                      [h.dentry[e] EXCEPT !.next = IF e = c.prev THEN c.next ELSE @,
                                          !.prev = IF e = c.next THEN c.prev ELSE @]]
      /\ k = [head |-> k.head, dentry |-> k.dentry, tentry |-> k.tentry, registry |-> k.registry]
  BY DEF UnlinkDentry, RemoveFromSelectRegistry
<1> HIDE DEF c
<1>3. ASSUME NEW e \in Made
      PROVE  /\ k.dentry[e] \in DentryType
             /\ k.dentry[e].descriptor = h.dentry[e].descriptor
             /\ k.dentry[e].mode = h.dentry[e].mode
             /\ k.dentry[e].first = h.dentry[e].first /\ k.dentry[e].last = h.dentry[e].last
             /\ k.dentry[e].next = IF e = c.prev THEN c.next ELSE h.dentry[e].next
             /\ k.dentry[e].prev = IF e = c.next THEN c.prev ELSE h.dentry[e].prev
  <2>1. k.dentry[e] = [h.dentry[e] EXCEPT !.next = IF e = c.prev THEN c.next ELSE @,
                                          !.prev = IF e = c.next THEN c.prev ELSE @]
    BY <1>2
  <2>2. h.dentry[e] \in DentryType
    BY ListsTypes
  <2>3. QED
    BY <1>1, <2>1, <2>2 DEF DentryType
<1>4. k \in ListsType
  <2>1. k.dentry \in [Made -> DentryType]
    BY <1>2, <1>3
  <2>2. k.head \in Pointer /\ k.registry \in SUBSET (Descriptor \X Mode)
    BY <1>1, <1>2, ListsTypes
  <2>3. QED
    BY <1>2, <2>1, <2>2, ListsTypes DEF ListsType
<1>5. QED
  BY <1>2, <1>3, <1>4 DEF c

LEMMA UnlinkDentryFrame ==
  ASSUME NEW h \in ListsType, NEW d \in Made, NEW k, k = UnlinkDentry(h, d)
  PROVE  /\ k.tentry = h.tentry
         /\ \A e \in Made : /\ k.dentry[e].descriptor = h.dentry[e].descriptor
                            /\ k.dentry[e].mode = h.dentry[e].mode
  BY UnlinkDentryCells

LEMMA RegisteredInCells ==
  ASSUME NEW h \in ListsType, NEW x \in Made, NEW t \in Thread, NEW e \in Made,
         NEW k, k = RegisteredIn(h, x, t, e)
  PROVE  LET last == h.dentry[e].last
         IN  /\ k \in ListsType /\ k.head = h.head /\ k.registry = h.registry
             /\ k.tentry[x] = [dentry |-> e, thread |-> t, prev |-> last, next |-> Nil]
             /\ \A y \in Made \ {x} :
                  /\ k.tentry[y].dentry = h.tentry[y].dentry
                  /\ k.tentry[y].thread = h.tentry[y].thread
                  /\ k.tentry[y].prev = h.tentry[y].prev
                  /\ k.tentry[y].next = IF y = last THEN x ELSE h.tentry[y].next
                  /\ h.tentry[y] = FreeTentry /\ y # last => k.tentry[y] = FreeTentry
             /\ \A d \in Made :
                  /\ k.dentry[d].descriptor = h.dentry[d].descriptor
                  /\ k.dentry[d].mode = h.dentry[d].mode
                  /\ k.dentry[d].prev = h.dentry[d].prev /\ k.dentry[d].next = h.dentry[d].next
                  /\ k.dentry[d].first = h.dentry[d].first
                  /\ k.dentry[d].last = IF d = e THEN x ELSE h.dentry[d].last
<1> DEFINE last == h.dentry[e].last
<1>1. /\ k.head = h.head /\ k.registry = h.registry
      /\ k.tentry = [y \in Made |->
                       IF y = x THEN [dentry |-> e, thread |-> t, prev |-> last, next |-> Nil]
                       ELSE [h.tentry[y] EXCEPT !.next = IF y = last THEN x ELSE @]]
      /\ k.dentry = [h.dentry EXCEPT ![e].last = x]
      /\ k = [head |-> k.head, dentry |-> k.dentry, tentry |-> k.tentry, registry |-> k.registry]
  BY DEF RegisteredIn
<1>2. last \in Pointer /\ x \in Pointer /\ Nil \in Pointer /\ e \in Pointer
  BY ListsTypes, Pointers
<1> HIDE DEF last
<1>3. ASSUME NEW y \in Made \ {x}
      PROVE  /\ k.tentry[y] \in TentryType
             /\ k.tentry[y].dentry = h.tentry[y].dentry
             /\ k.tentry[y].thread = h.tentry[y].thread
             /\ k.tentry[y].prev = h.tentry[y].prev
             /\ k.tentry[y].next = IF y = last THEN x ELSE h.tentry[y].next
             /\ h.tentry[y] = FreeTentry /\ y # last => k.tentry[y] = FreeTentry
  <2>1. k.tentry[y] = [h.tentry[y] EXCEPT !.next = IF y = last THEN x ELSE @]
    BY <1>1
  <2>2. h.tentry[y] \in TentryType
    BY ListsTypes
  <2>3. h.tentry[y] = FreeTentry /\ y # last => k.tentry[y] = FreeTentry
    BY <2>1, <2>2 DEF TentryType
  <2>4. QED
    BY <1>2, <2>1, <2>2, <2>3 DEF TentryType
<1>4. k.tentry[x] = [dentry |-> e, thread |-> t, prev |-> last, next |-> Nil]
      /\ k.tentry[x] \in TentryType
  BY <1>1, <1>2 DEF TentryType
<1>5. k.tentry \in [Made -> TentryType]
  <2>1. k.tentry = [y \in Made |-> k.tentry[y]]
    BY <1>1
  <2>2. QED
    BY <1>3, <1>4, <2>1
<1>6. ASSUME NEW d \in Made
      PROVE  /\ k.dentry[d] \in DentryType
             /\ k.dentry[d].descriptor = h.dentry[d].descriptor
             /\ k.dentry[d].mode = h.dentry[d].mode
             /\ k.dentry[d].prev = h.dentry[d].prev /\ k.dentry[d].next = h.dentry[d].next
             /\ k.dentry[d].first = h.dentry[d].first
             /\ k.dentry[d].last = IF d = e THEN x ELSE h.dentry[d].last
  <2>1. h.dentry[d] \in DentryType /\ h.dentry \in [Made -> DentryType]
    BY ListsTypes
  <2>2. k.dentry[d] = IF d = e THEN [h.dentry[d] EXCEPT !.last = x] ELSE h.dentry[d]
    BY <1>1, <2>1
  <2>3. QED
    BY <1>2, <2>1, <2>2 DEF DentryType
<1>7. k.dentry \in [Made -> DentryType]
  <2>1. k.dentry = [d \in Made |-> k.dentry[d]]
    BY <1>1, ListsTypes
  <2>2. QED
    BY <1>6, <2>1
<1>8. k \in ListsType
  BY <1>1, <1>5, <1>7, ListsTypes DEF ListsType
<1>9. QED
  BY <1>1, <1>3, <1>4, <1>6, <1>8 DEF last

LEMMA RegisteredNewCells ==
  ASSUME NEW h \in ListsType, NEW x \in Made, NEW t \in Thread, NEW d \in Descriptor, NEW m \in Mode,
         NEW k, k = RegisteredNew(h, x, t, d, m)
  PROVE  /\ k \in ListsType /\ k.head = x /\ k.registry = h.registry \cup {<<d, m>>}
         /\ k.tentry[x].dentry = x /\ k.tentry[x].thread = t
         /\ k.tentry[x].prev = Nil /\ k.tentry[x].next = Nil
         /\ \A y \in Made \ {x} : k.tentry[y] = h.tentry[y]
         /\ k.dentry[x] = [descriptor |-> d, mode |-> m, first |-> x, last |-> x,
                           prev |-> Nil, next |-> h.head]
         /\ \A e \in Made \ {x} :
              /\ k.dentry[e].descriptor = h.dentry[e].descriptor
              /\ k.dentry[e].mode = h.dentry[e].mode
              /\ k.dentry[e].first = h.dentry[e].first /\ k.dentry[e].last = h.dentry[e].last
              /\ k.dentry[e].next = h.dentry[e].next
              /\ k.dentry[e].prev = IF e = h.head THEN x ELSE h.dentry[e].prev
<1>1. /\ k.head = x /\ k.registry = h.registry \cup {<<d, m>>}
      /\ k.tentry = [h.tentry EXCEPT ![x] = [FreeTentry EXCEPT !.thread = t, !.dentry = x]]
      /\ k.dentry = [e \in Made |->
                      IF e = x
                      THEN [descriptor |-> d, mode |-> m, first |-> x, last |-> x,
                            prev |-> Nil, next |-> h.head]
                      ELSE [h.dentry[e] EXCEPT !.prev = IF e = h.head THEN x ELSE @]]
      /\ k = [head |-> k.head, dentry |-> k.dentry, tentry |-> k.tentry, registry |-> k.registry]
  BY DEF RegisteredNew, AddToSelectRegistry
<1>2. x \in Pointer /\ Nil \in Pointer /\ h.head \in Pointer
  BY ListsTypes, Pointers
<1>3. /\ k.tentry \in [Made -> TentryType]
      /\ k.tentry[x].dentry = x /\ k.tentry[x].thread = t
      /\ k.tentry[x].prev = Nil /\ k.tentry[x].next = Nil
      /\ \A y \in Made \ {x} : k.tentry[y] = h.tentry[y]
  <2> DEFINE c == [FreeTentry EXCEPT !.thread = t, !.dentry = x]
  <2>1. c \in TentryType /\ c.dentry = x /\ c.thread = t /\ c.prev = Nil /\ c.next = Nil
    BY <1>2 DEF FreeTentry, TentryType
  <2>2. h.tentry \in [Made -> TentryType]
    BY ListsTypes
  <2> HIDE DEF c
  <2>3. k.tentry = [h.tentry EXCEPT ![x] = c]
    BY <1>1 DEF c
  <2>4. QED
    BY <2>1, <2>2, <2>3
<1>4. k.dentry[x] = [descriptor |-> d, mode |-> m, first |-> x, last |-> x,
                     prev |-> Nil, next |-> h.head] /\ k.dentry[x] \in DentryType
  BY <1>1, <1>2 DEF DentryType
<1>5. ASSUME NEW e \in Made \ {x}
      PROVE  /\ k.dentry[e] \in DentryType
             /\ k.dentry[e].descriptor = h.dentry[e].descriptor
             /\ k.dentry[e].mode = h.dentry[e].mode
             /\ k.dentry[e].first = h.dentry[e].first /\ k.dentry[e].last = h.dentry[e].last
             /\ k.dentry[e].next = h.dentry[e].next
             /\ k.dentry[e].prev = IF e = h.head THEN x ELSE h.dentry[e].prev
  <2>1. h.dentry[e] \in DentryType
    BY ListsTypes
  <2>2. k.dentry[e] = [h.dentry[e] EXCEPT !.prev = IF e = h.head THEN x ELSE @]
    BY <1>1
  <2>3. QED
    BY <1>2, <2>1, <2>2 DEF DentryType
<1>6. k.dentry \in [Made -> DentryType]
  <2>1. k.dentry = [e \in Made |-> k.dentry[e]]
    BY <1>1
  <2>2. QED
    BY <1>4, <1>5, <2>1
<1>7. k \in ListsType
  <2>1. k.registry \in SUBSET (Descriptor \X Mode)
    BY <1>1, ListsTypes
  <2>2. QED
    BY <1>1, <1>2, <1>3, <1>6, <2>1 DEF ListsType
<1>8. QED
  BY <1>1, <1>3, <1>4, <1>5, <1>7

-----------------------------------------------------------------------------
(* Deletion keeps the lists in order. *)

\* The tentries of a dentry after delete-tentry! has cleared one.
LEMMA UnlinkTentrySets ==
  ASSUME NEW h \in ListsType, NEW x \in Made, h.tentry[x].dentry \in Made,
         NEW k, k = UnlinkTentry(h, x)
  PROVE  /\ \A d \in Made : On(k, d) = On(h, d) \ {x}
         /\ Used(k) \subseteq Used(h)
         /\ On(h, h.tentry[x].dentry) # {x} => Used(k) = Used(h)
         /\ On(h, h.tentry[x].dentry) = {x} => Used(k) = Used(h) \ {h.tentry[x].dentry}
<1> DEFINE d0 == h.tentry[x].dentry
<1>1. /\ k.tentry[x].dentry = Nil
      /\ \A y \in Made \ {x} : k.tentry[y].dentry = h.tentry[y].dentry
  BY UnlinkTentryCells DEF FreeTentry
<1>2. \A d \in Made : On(k, d) = On(h, d) \ {x}
  BY <1>1, Pointers DEF On
<1>3. Used(k) \subseteq Used(h)
  BY <1>1 DEF Used
<1>4. \A d \in Used(h) : d # d0 => d \in Used(k)
  <2> SUFFICES ASSUME NEW d \in Used(h), d # d0 PROVE d \in Used(k)
    OBVIOUS
  <2>1. PICK y \in Made : h.tentry[y].dentry = d /\ d # Nil
    BY DEF Used
  <2>2. y # x
    BY <2>1
  <2>3. QED
    BY <1>1, <2>1, <2>2 DEF Used
<1>5. ASSUME On(h, d0) # {x} PROVE d0 \in Used(k)
  <2>1. x \in On(h, d0)
    BY DEF On
  <2>2. PICK y \in On(h, d0) : y # x
    BY <1>5, <2>1
  <2>3. QED
    BY <1>1, <2>2, Pointers DEF On, Used
<1>6. ASSUME On(h, d0) = {x} PROVE d0 \notin Used(k)
  <2>1. \A y \in Made : k.tentry[y].dentry # d0
    BY <1>1, <1>6, Pointers DEF On
  <2>2. QED
    BY <2>1 DEF Used
<1>7. QED
  BY <1>2, <1>3, <1>4, <1>5, <1>6

\* The tentries that are left have their neighbours.
LEMMA UnlinkTentryLists ==
  ASSUME NEW h, NEW n \in Nat, ListsOK(h, n), NEW x \in Made, h.tentry[x].dentry # Nil,
         NEW k, k = UnlinkTentry(h, x)
  PROVE  /\ k \in ListsType /\ Cleared(k, n)
         /\ \A y \in Made : k.tentry[y].dentry # Nil => TentryOK(k, y)
         /\ \A d \in Used(k) : /\ IsAbove(k.dentry[d].first, 0, On(k, d))
                               /\ IsBelow(k.dentry[d].last, Top, On(k, d))
<1> DEFINE c == h.tentry[x]
<1>1. h \in ListsType /\ c.dentry \in Made /\ TentryOK(h, x)
  BY ListsTypes DEF ListsOK, Pointer
<1>2. /\ k \in ListsType /\ k.tentry[x] = FreeTentry
      /\ \A y \in Made \ {x} :
           /\ k.tentry[y].dentry = h.tentry[y].dentry
           /\ k.tentry[y].thread = h.tentry[y].thread
           /\ k.tentry[y].next = IF y = c.prev THEN c.next ELSE h.tentry[y].next
           /\ k.tentry[y].prev = IF y = c.next THEN c.prev ELSE h.tentry[y].prev
      /\ \A d \in Made :
           /\ k.dentry[d].first = IF d = c.dentry /\ c.prev = Nil THEN c.next
                                  ELSE h.dentry[d].first
           /\ k.dentry[d].last = IF d = c.dentry /\ c.next = Nil THEN c.prev
                                 ELSE h.dentry[d].last
  BY <1>1, UnlinkTentryCells
<1>3. \A d \in Made : On(k, d) = On(h, d) \ {x} /\ On(h, d) \in SUBSET Made
  BY <1>1, UnlinkTentrySets, ListsTypes
<1>4. /\ x \in On(h, c.dentry) /\ c.prev \in Pointer /\ c.next \in Pointer
      /\ IsAbove(c.next, x, On(h, c.dentry)) /\ IsBelow(c.prev, x, On(h, c.dentry))
  BY <1>1, ListsTypes DEF TentryOK, On
<1>5. ASSUME NEW y \in Made, k.tentry[y].dentry # Nil PROVE TentryOK(k, y)
  <2>1. y # x
    BY <1>2, <1>5 DEF FreeTentry
  <2>2. /\ h.tentry[y].dentry # Nil /\ TentryOK(h, y) /\ h.tentry[y].dentry \in Made
        /\ h.tentry[y].next \in Pointer /\ h.tentry[y].prev \in Pointer
        /\ y \in On(h, h.tentry[y].dentry) /\ y \in Nat
    BY <1>1, <1>2, <1>5, <2>1, ListsTypes, Pointers DEF ListsOK, On
  <2>3. CASE h.tentry[y].dentry = c.dentry
    <3> DEFINE S == On(h, c.dentry)
    <3>1. /\ IsAbove(h.tentry[y].next, y, S) /\ IsBelow(h.tentry[y].prev, y, S)
          /\ x \in S /\ y \in S /\ S \in SUBSET Made
          /\ IsAbove(c.next, x, S) /\ IsBelow(c.prev, x, S)
          /\ c.next \in Pointer /\ c.prev \in Pointer
          /\ h.tentry[y].next \in Pointer /\ h.tentry[y].prev \in Pointer
      BY <1>1, <1>3, <1>4, <2>2, <2>3 DEF TentryOK
    <3>2. (h.tentry[y].next = x <=> y = c.prev) /\ (h.tentry[y].prev = x <=> y = c.next)
      <4> HIDE DEF S, c
      <4>1. h.tentry[y].next = x <=> c.prev = y
        BY <3>1, UpAndDown
      <4>2. c.next = y <=> h.tentry[y].prev = x
        BY <3>1, UpAndDown
      <4>3. QED
        BY <4>1, <4>2
    <3>3. IsAbove(IF h.tentry[y].next = x THEN c.next ELSE h.tentry[y].next, y, S \ {x})
      BY <1>4, <2>1, <2>2, <3>1, AboveLess
    <3>4. IsBelow(IF h.tentry[y].prev = x THEN c.prev ELSE h.tentry[y].prev, y, S \ {x})
      BY <1>4, <2>1, <2>2, <3>1, BelowLess
    <3>5. /\ k.tentry[y].next = IF h.tentry[y].next = x THEN c.next ELSE h.tentry[y].next
          /\ k.tentry[y].prev = IF h.tentry[y].prev = x THEN c.prev ELSE h.tentry[y].prev
          /\ On(k, k.tentry[y].dentry) = S \ {x} /\ k.tentry[y].thread \in Thread
      <4>1. On(k, k.tentry[y].dentry) = S \ {x}
        BY <1>1, <1>2, <1>3, <2>1, <2>3
      <4>2. k.tentry[y].thread \in Thread
        BY <1>2, <2>1, <2>2 DEF TentryOK
      <4>3. QED
        BY <1>2, <2>1, <3>2, <4>1, <4>2
    <3> HIDE DEF S
    <3>6. QED
      BY <3>3, <3>4, <3>5 DEF TentryOK
  <2>4. CASE h.tentry[y].dentry # c.dentry
    <3>1. x \notin On(h, h.tentry[y].dentry) /\ y \notin On(h, c.dentry)
      BY <2>4 DEF On
    <3>2. (y = c.prev => FALSE) /\ (y = c.next => FALSE)
      BY <1>4, <3>1, Pointers DEF IsAbove, IsBelow
    <3>3. /\ k.tentry[y].next = h.tentry[y].next /\ k.tentry[y].prev = h.tentry[y].prev
          /\ k.tentry[y].thread = h.tentry[y].thread
          /\ k.tentry[y].dentry = h.tentry[y].dentry
          /\ On(k, k.tentry[y].dentry) = On(h, h.tentry[y].dentry)
      <4>1. On(h, h.tentry[y].dentry) \ {x} = On(h, h.tentry[y].dentry)
        BY <3>1
      <4>2. QED
        BY <1>2, <1>3, <2>1, <2>2, <3>2, <4>1
    <3>4. QED
      BY <2>2, <3>3 DEF TentryOK
  <2>5. QED
    BY <2>3, <2>4
<1>6. ASSUME NEW d \in Used(k)
      PROVE  /\ IsAbove(k.dentry[d].first, 0, On(k, d))
             /\ IsBelow(k.dentry[d].last, Top, On(k, d))
  <2>1. d \in Made /\ d \in Used(h) /\ DentryOK(h, d) /\ 0 \in Nat /\ x # 0 /\ x # Top /\ Top \in Nat
    BY <1>1, UnlinkTentrySets, ListsTypes, Pointers DEF ListsOK
  <2>2. /\ IsAbove(h.dentry[d].first, 0, On(h, d)) /\ IsBelow(h.dentry[d].last, Top, On(h, d))
        /\ h.dentry[d].first \in Pointer /\ h.dentry[d].last \in Pointer
    BY <1>1, <2>1, ListsTypes DEF DentryOK
  <2>3. CASE d = c.dentry
    <3> DEFINE S == On(h, d)
    <3>1. /\ S \in SUBSET Made /\ x \in S
          /\ IsAbove(h.dentry[d].first, 0, S) /\ IsBelow(h.dentry[d].last, Top, S)
          /\ IsAbove(c.next, x, S) /\ IsBelow(c.prev, x, S)
      BY <1>3, <1>4, <2>1, <2>2, <2>3
    <3>2. (h.dentry[d].first = x <=> c.prev = Nil) /\ (h.dentry[d].last = x <=> c.next = Nil)
      <4>1. c.prev \in Pointer /\ c.next \in Pointer
        BY <1>4
      <4> HIDE DEF S, c
      <4>2. h.dentry[d].first = x <=> c.prev = Nil
        BY <2>2, <3>1, <4>1, LeastHasNoneBelow
      <4>3. h.dentry[d].last = x <=> c.next = Nil
        BY <2>2, <3>1, <4>1, GreatestHasNoneAbove
      <4>4. QED
        BY <4>2, <4>3
    <3>3. IsAbove(IF h.dentry[d].first = x THEN c.next ELSE h.dentry[d].first, 0, S \ {x})
      BY <1>4, <2>1, <2>2, <2>3, <3>1, AboveLess
    <3>4. IsBelow(IF h.dentry[d].last = x THEN c.prev ELSE h.dentry[d].last, Top, S \ {x})
      BY <1>4, <2>1, <2>2, <2>3, <3>1, BelowLess
    <3>5. /\ k.dentry[d].first = IF h.dentry[d].first = x THEN c.next ELSE h.dentry[d].first
          /\ k.dentry[d].last = IF h.dentry[d].last = x THEN c.prev ELSE h.dentry[d].last
          /\ On(k, d) = S \ {x}
      BY <1>2, <1>3, <2>1, <2>3, <3>2
    <3> HIDE DEF S
    <3>6. QED
      BY <3>3, <3>4, <3>5
  <2>4. CASE d # c.dentry
    <3>1. x \notin On(h, d)
      BY <2>4 DEF On
    <3>2. /\ On(k, d) = On(h, d) /\ k.dentry[d].first = h.dentry[d].first
          /\ k.dentry[d].last = h.dentry[d].last
      <4>1. On(h, d) \ {x} = On(h, d)
        BY <3>1
      <4>2. QED
        BY <1>2, <1>3, <2>1, <2>4, <4>1
    <3>3. QED
      BY <2>2, <3>2
  <2>5. QED
    BY <2>3, <2>4
<1>7. Cleared(k, n)
  <2> SUFFICES ASSUME NEW y \in Made
               PROVE  /\ k.tentry[y].dentry <= n
                      /\ y > n => k.tentry[y].dentry = Nil
                      /\ k.tentry[y].dentry = Nil => k.tentry[y] = FreeTentry
    BY DEF Cleared
  <2>1. CASE y = x
    BY <1>2, <2>1, Pointers DEF FreeTentry
  <2>2. CASE y # x
    <3>1. k.tentry[y].dentry = h.tentry[y].dentry
      BY <1>2, <2>2
    <3>2. h.tentry[y].dentry = Nil => k.tentry[y] = FreeTentry
      <4> SUFFICES ASSUME h.tentry[y].dentry = Nil PROVE k.tentry[y] = FreeTentry
        OBVIOUS
      <4>1. h.tentry[y] = FreeTentry
        BY DEF ListsOK, Cleared
      <4>2. y # c.prev /\ y # c.next
        <5>1. y \notin On(h, c.dentry)
          BY <1>1, Pointers DEF On
        <5>2. QED
          BY <1>4, <5>1, Pointers DEF IsAbove, IsBelow
      <4>3. k.tentry[y].next = Nil /\ k.tentry[y].prev = Nil /\ k.tentry[y].dentry = Nil
            /\ k.tentry[y].thread = Nobody /\ k.tentry[y] \in TentryType
        BY <1>2, <2>2, <4>1, <4>2, ListsTypes DEF FreeTentry
      <4>4. QED
        BY <4>3 DEF TentryType, FreeTentry
    <3>3. QED
      BY <3>1, <3>2 DEF ListsOK, Cleared
  <2>3. QED
    BY <2>1, <2>2
<1>8. QED
  BY <1>2, <1>5, <1>6, <1>7

\* The list of dentries and the registry are those of the dentries U.
DentriesOver(h, U) ==
  /\ \A e \in U : /\ h.dentry[e].descriptor \in Descriptor
                  /\ IsBelow(h.dentry[e].next, e, U) /\ IsAbove(h.dentry[e].prev, e, U)
  /\ IsBelow(h.head, Top, U)
  /\ \A e, f \in U : /\ h.dentry[e].descriptor = h.dentry[f].descriptor
                     /\ h.dentry[e].mode = h.dentry[f].mode
                     => e = f
  /\ h.registry = {<<h.dentry[e].descriptor, h.dentry[e].mode>> : e \in U}

\* The tentries are those of the dentries that have some.
TentriesOver(h, n) ==
  /\ Cleared(h, n)
  /\ \A y \in Made : h.tentry[y].dentry # Nil => TentryOK(h, y)
  /\ \A e \in Used(h) : /\ IsAbove(h.dentry[e].first, 0, On(h, e))
                        /\ IsBelow(h.dentry[e].last, Top, On(h, e))

LEMMA ListsParts ==
  ASSUME NEW h \in ListsType, NEW n
  PROVE  ListsOK(h, n) <=> TentriesOver(h, n) /\ DentriesOver(h, Used(h))
  BY DEF ListsOK, TentriesOver, DentriesOver, DentryOK, Distinct, Polled

LEMMA DentriesSame ==
  ASSUME NEW h, NEW k, NEW U, DentriesOver(h, U), k.head = h.head, k.registry = h.registry,
         \A e \in U : /\ k.dentry[e].descriptor = h.dentry[e].descriptor
                     /\ k.dentry[e].mode = h.dentry[e].mode
                     /\ k.dentry[e].prev = h.dentry[e].prev
                     /\ k.dentry[e].next = h.dentry[e].next
  PROVE  DentriesOver(k, U)
<1>1. k.registry = {<<k.dentry[e].descriptor, k.dentry[e].mode>> : e \in U}
  BY DEF DentriesOver
<1>2. QED
  BY <1>1 DEF DentriesOver

\* A dentry that has lost its tentries leaves the list of those that have some.
LEMMA UnlinkDentryLists ==
  ASSUME NEW h \in ListsType, NEW n \in Nat, TentriesOver(h, n),
         NEW U \in SUBSET Made, NEW d \in U, Used(h) = U \ {d}, DentriesOver(h, U),
         NEW k, k = UnlinkDentry(h, d)
  PROVE  ListsOK(k, n)
<1> DEFINE c == h.dentry[d]
<1>1. /\ k \in ListsType /\ k.tentry = h.tentry
      /\ k.registry = h.registry \ {<<c.descriptor, c.mode>>}
      /\ k.head = IF c.prev = Nil THEN c.next ELSE h.head
      /\ \A e \in Made :
           /\ k.dentry[e].descriptor = h.dentry[e].descriptor
           /\ k.dentry[e].mode = h.dentry[e].mode
           /\ k.dentry[e].first = h.dentry[e].first /\ k.dentry[e].last = h.dentry[e].last
           /\ k.dentry[e].next = IF e = c.prev THEN c.next ELSE h.dentry[e].next
           /\ k.dentry[e].prev = IF e = c.next THEN c.prev ELSE h.dentry[e].prev
  <2>1. d \in Made
    OBVIOUS
  <2>2. QED
    BY <2>1, UnlinkDentryCells
<1>2. Used(k) = U \ {d} /\ \A e : On(k, e) = On(h, e)
  BY <1>1 DEF Used, On
<1>3. /\ d \in Made /\ c.prev \in Pointer /\ c.next \in Pointer /\ h.head \in Pointer
      /\ IsBelow(c.next, d, U) /\ IsAbove(c.prev, d, U) /\ Top \in Nat /\ d # Top
  <2>1. d \in Made /\ Top \in Nat /\ d # Top
    BY Pointers
  <2>2. QED
    BY <2>1, ListsTypes DEF DentriesOver
<1>4. TentriesOver(k, n)
  <2>1. \A e \in Used(k) : e \in Used(h) /\ e \in Made
    BY <1>2
  <2>2. Cleared(k, n) /\ \A y \in Made : k.tentry[y].dentry # Nil => TentryOK(k, y)
    BY <1>1, <1>2 DEF TentriesOver, Cleared, TentryOK
  <2>3. \A e \in Used(k) : /\ IsAbove(k.dentry[e].first, 0, On(k, e))
                          /\ IsBelow(k.dentry[e].last, Top, On(k, e))
    BY <1>1, <1>2, <2>1 DEF TentriesOver
  <2>4. QED
    BY <2>2, <2>3 DEF TentriesOver
<1>5. ASSUME NEW e \in Used(k)
      PROVE  /\ k.dentry[e].descriptor \in Descriptor
             /\ IsBelow(k.dentry[e].next, e, Used(k)) /\ IsAbove(k.dentry[e].prev, e, Used(k))
  <2>1. /\ e \in U /\ e # d /\ e \in Made /\ e \in Nat /\ e \in Used(h)
        /\ h.dentry[e].next \in Pointer /\ h.dentry[e].prev \in Pointer
        /\ IsBelow(h.dentry[e].next, e, U) /\ IsAbove(h.dentry[e].prev, e, U)
    <3>1. e \in U /\ e # d /\ e \in Used(h)
      BY <1>2
    <3>2. e \in Made /\ e \in Nat
      BY <3>1, Pointers
    <3>3. QED
      BY <3>1, <3>2, ListsTypes DEF DentriesOver
  <2> HIDE DEF c
  <2>2. h.dentry[e].next = d <=> e = c.prev
    BY <1>3, <2>1, UpAndDown
  <2>3. h.dentry[e].prev = d <=> e = c.next
    BY <1>3, <2>1, UpAndDown
  <2>4. IsBelow(IF h.dentry[e].next = d THEN c.next ELSE h.dentry[e].next, e, U \ {d})
    BY <1>3, <2>1, BelowLess
  <2>5. IsAbove(IF h.dentry[e].prev = d THEN c.prev ELSE h.dentry[e].prev, e, U \ {d})
    BY <1>3, <2>1, AboveLess
  <2>6. /\ k.dentry[e].next = IF h.dentry[e].next = d THEN c.next ELSE h.dentry[e].next
        /\ k.dentry[e].prev = IF h.dentry[e].prev = d THEN c.prev ELSE h.dentry[e].prev
    BY <1>1, <2>1, <2>2, <2>3
  <2>7. IsBelow(k.dentry[e].next, e, Used(k)) /\ IsAbove(k.dentry[e].prev, e, Used(k))
    BY <1>2, <2>4, <2>5, <2>6
  <2>8. QED
    BY <1>1, <2>1, <2>7 DEF DentriesOver
<1>6. IsBelow(k.head, Top, Used(k))
  <2>1. h.head = d <=> c.prev = Nil
    BY <1>3, GreatestHasNoneAbove DEF DentriesOver
  <2>2. IsBelow(IF h.head = d THEN c.next ELSE h.head, Top, U \ {d})
    BY <1>3, BelowLess DEF DentriesOver
  <2>3. QED
    BY <1>1, <1>2, <2>1, <2>2
<1>7. \A e, f \in Used(k) : /\ k.dentry[e].descriptor = k.dentry[f].descriptor
                           /\ k.dentry[e].mode = k.dentry[f].mode
                           => e = f
  <2>1. \A e \in Used(k) : e \in U /\ e \in Made
    BY <1>2
  <2>2. QED
    BY <1>1, <2>1 DEF DentriesOver
<1>8. k.registry = {<<k.dentry[e].descriptor, k.dentry[e].mode>> : e \in Used(k)}
  <2>1. \A e \in U : e \in Made /\ (<<h.dentry[e].descriptor, h.dentry[e].mode>>
                                      = <<c.descriptor, c.mode>> => e = d)
    BY DEF DentriesOver
  <2>2. k.registry = {<<h.dentry[e].descriptor, h.dentry[e].mode>> : e \in U \ {d}}
    BY <1>1, <2>1 DEF DentriesOver
  <2>3. \A e \in U \ {d} : <<h.dentry[e].descriptor, h.dentry[e].mode>>
                             = <<k.dentry[e].descriptor, k.dentry[e].mode>>
    BY <1>1, <2>1
  <2>4. QED
    BY <1>2, <2>2, <2>3
<1>9. QED
  BY <1>1, <1>4, <1>5, <1>6, <1>7, <1>8, ListsParts DEF DentriesOver

\* delete-tentry! of a registration that is in a list.
LEMMA DeleteTentryLists ==
  ASSUME NEW h, NEW n \in Nat, ListsOK(h, n), NEW x \in Made, h.tentry[x].dentry # Nil,
         NEW k, k = DeleteTentry(h, x)
  PROVE  /\ ListsOK(k, n) /\ k.tentry[x] = FreeTentry
         /\ \A y \in Made \ {x} : /\ k.tentry[y].dentry = h.tentry[y].dentry
                                  /\ k.tentry[y].thread = h.tentry[y].thread
         /\ \A d \in Made : /\ k.dentry[d].descriptor = h.dentry[d].descriptor
                            /\ k.dentry[d].mode = h.dentry[d].mode
<1> DEFINE c == h.tentry[x]
           j == UnlinkTentry(h, x)
           d == c.dentry
<1>1. /\ h \in ListsType /\ d \in Made /\ d \in Used(h) /\ TentryOK(h, x) /\ x \in On(h, d)
      /\ On(h, d) \in SUBSET Made /\ Used(h) \in SUBSET Made
      /\ c.prev \in Pointer /\ c.next \in Pointer
      /\ IsAbove(c.next, x, On(h, d)) /\ IsBelow(c.prev, x, On(h, d))
  BY ListsTypes DEF ListsOK, TentryOK, Pointer
<1>2. /\ j \in ListsType /\ j.head = h.head /\ j.registry = h.registry
      /\ j.tentry[x] = FreeTentry
      /\ \A y \in Made \ {x} : /\ j.tentry[y].dentry = h.tentry[y].dentry
                               /\ j.tentry[y].thread = h.tentry[y].thread
      /\ \A e \in Made : /\ j.dentry[e].descriptor = h.dentry[e].descriptor
                         /\ j.dentry[e].mode = h.dentry[e].mode
                         /\ j.dentry[e].prev = h.dentry[e].prev
                         /\ j.dentry[e].next = h.dentry[e].next
  BY <1>1, UnlinkTentryCells
<1>3. TentriesOver(j, n)
  BY UnlinkTentryLists DEF TentriesOver
<1>4. /\ On(h, d) # {x} => Used(j) = Used(h)
      /\ On(h, d) = {x} => Used(j) = Used(h) \ {d}
  BY <1>1, UnlinkTentrySets
<1> HIDE DEF j, d, c
<1>5. DentriesOver(j, Used(h))
  <2>1. DentriesOver(h, Used(h))
    BY <1>1, ListsParts
  <2>2. \A e \in Used(h) : /\ j.dentry[e].descriptor = h.dentry[e].descriptor
                          /\ j.dentry[e].mode = h.dentry[e].mode
                          /\ j.dentry[e].prev = h.dentry[e].prev
                          /\ j.dentry[e].next = h.dentry[e].next
    BY <1>1, <1>2
  <2>3. QED
    BY <1>2, <2>1, <2>2, DentriesSame
<1>6. CASE c.prev = Nil /\ c.next = Nil
  <2>1. On(h, d) = {x}
    BY <1>1, <1>6, Alone
  <2>2. k = UnlinkDentry(j, d)
    BY <1>6 DEF DeleteTentry, j, d, c
  <2>3. Used(j) = Used(h) \ {d}
    BY <1>4, <2>1
  <2>4. ListsOK(k, n)
    BY <1>1, <1>2, <1>3, <1>5, <2>2, <2>3, UnlinkDentryLists
  <2>5. /\ k.tentry = j.tentry
        /\ \A e \in Made : /\ k.dentry[e].descriptor = j.dentry[e].descriptor
                           /\ k.dentry[e].mode = j.dentry[e].mode
    <3>1. j \in ListsType /\ d \in Made
      BY <1>1, <1>2
    <3>2. QED
      BY <2>2, <3>1, UnlinkDentryFrame
  <2>6. QED
    BY <1>2, <2>4, <2>5
<1>7. CASE ~(c.prev = Nil /\ c.next = Nil)
  <2>1. k = j
    BY <1>7 DEF DeleteTentry, j, c
  <2>2. On(h, d) # {x}
    BY <1>1, <1>7, Pointers DEF IsAbove, IsBelow
  <2>3. ListsOK(j, n)
    BY <1>2, <1>3, <1>4, <1>5, <2>2, ListsParts
  <2>4. QED
    BY <1>2, <2>1, <2>3
<1>8. QED
  BY <1>6, <1>7

-----------------------------------------------------------------------------
(* What the loops over the lists meet. *)

LEMMA Least ==
  ASSUME NEW T \in SUBSET Nat, T # {}
  PROVE  \E x \in T : \A y \in T : x <= y
<1> DEFINE R == OpToRel(<, Nat)
<1>1. IsWellFoundedOn(R, Nat)
  BY NatLessThanWellFounded
<1>2. PICK x \in T : \A y \in T : ~(<<y, x>> \in R)
  <2> HIDE DEF R
  <2>1. QED
    BY <1>1, WFMin
<1>3. \A y \in T : ~(y < x)
  BY <1>2 DEF OpToRel
<1>4. QED
  BY <1>3

LEMMA Greatest ==
  ASSUME NEW T \in SUBSET Made, T # {}
  PROVE  \E x \in T : \A y \in T : y <= x
<1> DEFINE M == {Top - y : y \in T}
<1>1. \A y \in T : Top - y \in Nat /\ y \in Nat /\ Top \in Nat
  BY Pointers
<1>2. M \in SUBSET Nat /\ M # {}
  BY <1>1
<1>3. PICK m \in M : \A y \in M : m <= y
  <2> HIDE DEF M
  <2>1. QED
    BY <1>2, Least
<1>4. PICK x \in T : m = Top - x
  OBVIOUS
<1>5. \A y \in T : Top - x <= Top - y
  BY <1>3, <1>4
<1>6. QED
  BY <1>1, <1>5

Closed(p, next, T) == p \in T \cup {Nil} /\ \A y \in T : next[y] \in T \cup {Nil}

LEMMA FromIn ==
  ASSUME NEW p, NEW next, NEW T \in SUBSET Made, Closed(p, next, T)
  PROVE  From(p, next) \subseteq T
<1> SUFFICES ASSUME NEW x \in From(p, next) PROVE x \in T
  OBVIOUS
<1>1. \A S \in SUBSET Made : Closed(p, next, S) => x \in S
  BY DEF From, Closed
<1>2. QED
  BY <1>1

LEMMA FromNil ==
  ASSUME NEW next
  PROVE  From(Nil, next) = {}
<1>1. {} \in SUBSET Made /\ Closed(Nil, next, {})
  BY DEF Closed
<1>2. From(Nil, next) \subseteq {}
  BY <1>1, FromIn
<1>3. QED
  BY <1>2

\* Along the pointers up the loop meets what is not below its start.
LEMMA FromUp ==
  ASSUME NEW S \in SUBSET Made, NEW p \in S, NEW next \in [Made -> Pointer],
         NEW prev \in [Made -> Pointer],
         \A y \in S : IsAbove(next[y], y, S) /\ IsBelow(prev[y], y, S)
  PROVE  From(p, next) = {y \in S : p <= y}
<1> DEFINE T == {y \in S : p <= y}
<1>1. From(p, next) \subseteq T
  <2>1. T \in SUBSET Made /\ p \in T /\ \A y \in T : next[y] \in T \cup {Nil}
    <3>1. T \in SUBSET Made /\ p \in T
      <4>1. p \in Int
        BY Pointers
      <4>2. p <= p
        BY <4>1
      <4>3. QED
        BY <4>2
    <3>2. ASSUME NEW y \in T PROVE next[y] \in T \cup {Nil}
      <4>1. y \in S /\ p <= y /\ y \in Int /\ p \in Int /\ \A z \in S : z \in Int
        BY Pointers
      <4>2. next[y] = Nil \/ (next[y] \in S /\ y < next[y])
        BY <4>1 DEF IsAbove
      <4>3. next[y] # Nil => p <= next[y]
        <5> SUFFICES ASSUME next[y] # Nil PROVE p <= next[y]
          OBVIOUS
        <5>1. next[y] \in Int
          BY <4>1, <4>2
        <5>2. QED
          BY <4>1, <4>2, <5>1
      <4>4. QED
        BY <4>2, <4>3
    <3>3. QED
      BY <3>1, <3>2
  <2> HIDE DEF T
  <2>2. Closed(p, next, T)
    BY <2>1 DEF Closed
  <2>3. QED
    BY <2>1, <2>2, FromIn
<1>2. ASSUME NEW C \in SUBSET Made, p \in C \cup {Nil}, \A y \in C : next[y] \in C \cup {Nil}
      PROVE  T \subseteq C
  <2>1. SUFFICES ASSUME T \ C # {} PROVE FALSE
    OBVIOUS
  <2>2. T \ C \in SUBSET Nat
    BY Pointers
  <2>3. PICK y \in T \ C : \A z \in T \ C : y <= z
    <3> HIDE DEF T
    <3>1. QED
      BY <2>1, <2>2, Least
  <2>4. y \in S /\ y \notin C /\ p <= y /\ p # y /\ p < y
    BY <1>2, Pointers
  <2>5. /\ prev[y] \in S /\ p <= prev[y] /\ prev[y] < y /\ prev[y] \in Pointer
    BY <2>4, Pointers DEF IsBelow
  <2>6. prev[y] \in C
    <3>1. prev[y] \in T
      BY <2>5
    <3>2. ~(y <= prev[y])
      <4>1. y \in Int /\ prev[y] \in Int
        BY <2>4, <2>5, Pointers
      <4>2. QED
        BY <2>5, <4>1
    <3>3. QED
      BY <2>3, <3>1, <3>2
  <2>7. next[prev[y]] = y
    <3>1. IsAbove(next[prev[y]], prev[y], S) /\ IsBelow(prev[y], y, S) /\ next[prev[y]] \in Pointer
      BY <2>4, <2>5
    <3>2. QED
      BY <2>4, <2>5, <3>1, UpAndDown
  <2>8. QED
    <3>1. y # Nil
      BY <2>4, Pointers
    <3>2. next[prev[y]] \in C \cup {Nil}
      BY <1>2, <2>6
    <3>3. QED
      BY <2>4, <2>7, <3>1, <3>2
<1>3. T \subseteq Made
  OBVIOUS
<1> HIDE DEF T
<1>4. T \subseteq From(p, next)
  BY <1>2, <1>3 DEF From
<1>5. QED
  BY <1>1, <1>4 DEF T

\* Along the pointers down it meets what is not above.
LEMMA FromDown ==
  ASSUME NEW S \in SUBSET Made, NEW p \in S, NEW next \in [Made -> Pointer],
         NEW prev \in [Made -> Pointer],
         \A y \in S : IsBelow(next[y], y, S) /\ IsAbove(prev[y], y, S)
  PROVE  From(p, next) = {y \in S : y <= p}
<1> DEFINE T == {y \in S : y <= p}
<1>1. From(p, next) \subseteq T
  <2>1. T \in SUBSET Made /\ p \in T /\ \A y \in T : next[y] \in T \cup {Nil}
    <3>1. T \in SUBSET Made /\ p \in T
      <4>1. p \in Int
        BY Pointers
      <4>2. p <= p
        BY <4>1
      <4>3. QED
        BY <4>2
    <3>2. ASSUME NEW y \in T PROVE next[y] \in T \cup {Nil}
      <4>1. y \in S /\ y <= p /\ y \in Int /\ p \in Int /\ \A z \in S : z \in Int
        BY Pointers
      <4>2. next[y] = Nil \/ (next[y] \in S /\ next[y] < y)
        BY <4>1 DEF IsBelow
      <4>3. next[y] # Nil => next[y] <= p
        <5> SUFFICES ASSUME next[y] # Nil PROVE next[y] <= p
          OBVIOUS
        <5>1. next[y] \in Int
          BY <4>1, <4>2
        <5>2. QED
          BY <4>1, <4>2, <5>1
      <4>4. QED
        BY <4>2, <4>3
    <3>3. QED
      BY <3>1, <3>2
  <2> HIDE DEF T
  <2>2. Closed(p, next, T)
    BY <2>1 DEF Closed
  <2>3. QED
    BY <2>1, <2>2, FromIn
<1>2. ASSUME NEW C \in SUBSET Made, p \in C \cup {Nil}, \A y \in C : next[y] \in C \cup {Nil}
      PROVE  T \subseteq C
  <2>1. SUFFICES ASSUME T \ C # {} PROVE FALSE
    OBVIOUS
  <2>2. T \ C \in SUBSET Made
    OBVIOUS
  <2>3. PICK y \in T \ C : \A z \in T \ C : z <= y
    <3> HIDE DEF T
    <3>1. QED
      BY <2>1, <2>2, Greatest
  <2>4. y \in S /\ y \notin C /\ y <= p /\ p # y /\ y < p
    BY <1>2, Pointers
  <2>5. /\ prev[y] \in S /\ prev[y] <= p /\ y < prev[y] /\ prev[y] \in Pointer
    BY <2>4, Pointers DEF IsAbove
  <2>6. prev[y] \in C
    <3>1. prev[y] \in T
      BY <2>5
    <3>2. ~(prev[y] <= y)
      <4>1. y \in Int /\ prev[y] \in Int
        BY <2>4, <2>5, Pointers
      <4>2. QED
        BY <2>5, <4>1
    <3>3. QED
      BY <2>3, <3>1, <3>2
  <2>7. next[prev[y]] = y
    <3>1. IsBelow(next[prev[y]], prev[y], S) /\ IsAbove(prev[y], y, S) /\ next[prev[y]] \in Pointer
      BY <2>4, <2>5
    <3>2. QED
      BY <2>4, <2>5, <3>1, UpAndDown
  <2>8. QED
    <3>1. y # Nil
      BY <2>4, Pointers
    <3>2. next[prev[y]] \in C \cup {Nil}
      BY <1>2, <2>6
    <3>3. QED
      BY <2>4, <2>7, <3>1, <3>2
<1>3. T \subseteq Made
  OBVIOUS
<1> HIDE DEF T
<1>4. T \subseteq From(p, next)
  BY <1>2, <1>3 DEF From
<1>5. QED
  BY <1>1, <1>4 DEF T

LEMMA ReachDentries ==
  ASSUME NEW h, NEW n, ListsOK(h, n)
  PROVE  /\ Dentries(h) = Used(h)
         /\ \A d \in Used(h) : DentriesFrom(h, d) = {e \in Used(h) : e <= d}
<1> DEFINE next == [d \in Made |-> h.dentry[d].next]
           prev == [d \in Made |-> h.dentry[d].prev]
<1>1. /\ h \in ListsType /\ Used(h) \in SUBSET Made /\ IsBelow(h.head, Top, Used(h))
      /\ \A d \in Made : h.dentry[d].next \in Pointer /\ h.dentry[d].prev \in Pointer
  BY ListsTypes DEF ListsOK
<1>2. next \in [Made -> Pointer] /\ prev \in [Made -> Pointer]
  BY <1>1
<1>3. \A d \in Used(h) : IsBelow(next[d], d, Used(h)) /\ IsAbove(prev[d], d, Used(h))
  BY <1>1 DEF ListsOK, DentryOK
<1>4. \A d \in Used(h) : DentriesFrom(h, d) = {e \in Used(h) : e <= d}
  <2>1. \A d \in Used(h) : From(d, next) = {e \in Used(h) : e <= d}
    <3> HIDE DEF next, prev
    <3>1. QED
      BY <1>1, <1>2, <1>3, FromDown
  <2>2. QED
    BY <2>1 DEF DentriesFrom
<1>5. Dentries(h) = Used(h)
  <2>1. CASE Used(h) = {}
    <3>1. h.head = Nil
      BY <1>1, <2>1 DEF IsBelow
    <3>2. QED
      BY <2>1, <3>1, FromNil DEF Dentries, DentriesFrom
  <2>2. CASE Used(h) # {}
    <3>1. h.head \in Used(h) /\ h.head # Nil
      BY <1>1, <2>2, EndsExist
    <3>2. \A e \in Used(h) : e \in Int /\ e < Top
      BY <1>1, Pointers
    <3>3. \A e \in Used(h) : e <= h.head
      BY <1>1, <3>1, <3>2 DEF IsBelow
    <3>4. {e \in Used(h) : e <= h.head} = Used(h)
      BY <3>3
    <3>5. QED
      BY <1>4, <3>1, <3>4 DEF Dentries
  <2>3. QED
    BY <2>1, <2>2
<1>6. QED
  BY <1>4, <1>5

LEMMA ReachTentries ==
  ASSUME NEW h, NEW n, ListsOK(h, n), NEW d \in Used(h)
  PROVE  /\ Tentries(h, d) = On(h, d)
         /\ \A x \in On(h, d) : TentriesFrom(h, x) = {y \in On(h, d) : x <= y}
<1> DEFINE next == [x \in Made |-> h.tentry[x].next]
           prev == [x \in Made |-> h.tentry[x].prev]
           S == On(h, d)
<1>1. /\ h \in ListsType /\ S \in SUBSET Made /\ S # {} /\ d # Nil
      /\ \A x \in Made : h.tentry[x].next \in Pointer /\ h.tentry[x].prev \in Pointer
      /\ DentryOK(h, d)
  BY ListsTypes DEF ListsOK
<1>2. next \in [Made -> Pointer] /\ prev \in [Made -> Pointer]
  BY <1>1
<1>3. \A x \in S : IsAbove(next[x], x, S) /\ IsBelow(prev[x], x, S)
  <2> SUFFICES ASSUME NEW x \in S PROVE IsAbove(next[x], x, S) /\ IsBelow(prev[x], x, S)
    OBVIOUS
  <2>1. x \in Made /\ h.tentry[x].dentry = d
    BY DEF On
  <2>2. TentryOK(h, x)
    BY <1>1, <2>1 DEF ListsOK
  <2>3. QED
    BY <2>1, <2>2 DEF TentryOK
<1>4. \A x \in S : TentriesFrom(h, x) = {y \in S : x <= y}
  <2>1. \A x \in S : From(x, next) = {y \in S : x <= y}
    <3> HIDE DEF next, prev, S
    <3>1. QED
      BY <1>1, <1>2, <1>3, FromUp
  <2>2. QED
    BY <2>1 DEF TentriesFrom
<1>5. Tentries(h, d) = S
  <2>1. IsAbove(h.dentry[d].first, 0, S)
    BY <1>1 DEF DentryOK
  <2>2. h.dentry[d].first \in S /\ h.dentry[d].first # Nil
    <3> HIDE DEF S
    <3>1. QED
      BY <1>1, <2>1, EndsExist
  <2>3. \A y \in S : y \in Int /\ 0 < y
    BY <1>1, Pointers
  <2>4. \A y \in S : h.dentry[d].first <= y
    BY <2>1, <2>2, <2>3 DEF IsAbove
  <2>5. {y \in S : h.dentry[d].first <= y} = S
    BY <2>4
  <2>6. QED
    BY <1>4, <2>2, <2>5 DEF Tentries
<1>6. QED
  BY <1>4, <1>5

LEMMA ReachLinked ==
  ASSUME NEW h, NEW n, ListsOK(h, n)
  PROVE  Linked(h) = {x \in Made : h.tentry[x].dentry # Nil}
<1>1. h \in ListsType /\ Dentries(h) = Used(h)
  BY ReachDentries DEF ListsOK
<1>2. \A d \in Used(h) : Tentries(h, d) = On(h, d)
  BY ReachTentries
<1>3. ASSUME NEW x \in Linked(h) PROVE x \in Made /\ h.tentry[x].dentry # Nil
  <2>1. PICK d \in Dentries(h) : x \in Tentries(h, d)
    BY DEF Linked
  <2>2. d # Nil /\ x \in On(h, d)
    BY <1>1, <1>2, <2>1, ListsTypes
  <2>3. QED
    BY <2>2 DEF On
<1>4. ASSUME NEW x \in Made, h.tentry[x].dentry # Nil PROVE x \in Linked(h)
  <2>1. h.tentry[x].dentry \in Used(h) /\ x \in On(h, h.tentry[x].dentry)
    BY <1>1, <1>4, ListsTypes
  <2>2. QED
    BY <1>1, <1>2, <2>1 DEF Linked
<1>5. QED
  BY <1>3, <1>4

\* A search of some modes finds the latest dentry of the descriptor first.
LEMMA SearchFinds ==
  ASSUME NEW h, NEW n, ListsOK(h, n), NEW d, NEW modes, Matching(h, d, modes) # {}
  PROVE  LET e == FirstOf(h, Matching(h, d, modes))
         IN  /\ e \in Used(h) /\ e \in Made
             /\ h.dentry[e].descriptor = d /\ h.dentry[e].mode \in modes
<1> DEFINE S == Matching(h, d, modes)
<1>1. /\ h \in ListsType /\ Dentries(h) = Used(h) /\ Used(h) \in SUBSET Made
      /\ \A e \in Used(h) : DentriesFrom(h, e) = {f \in Used(h) : f <= e}
  BY ReachDentries, ListsTypes DEF ListsOK
<1>2. S \in SUBSET Used(h) /\ S \in SUBSET Made
  BY <1>1 DEF Matching
<1>3. \E e \in S : \A f \in S : f <= e
  <2> HIDE DEF S
  <2>1. S # {}
    BY DEF S
  <2>2. QED
    BY <1>2, <2>1, Greatest
<1>4. \E e \in S : S \subseteq DentriesFrom(h, e)
  <2>1. PICK e \in S : \A f \in S : f <= e
    BY <1>3
  <2>2. S \subseteq {f \in Used(h) : f <= e}
    BY <1>2, <2>1
  <2>3. QED
    BY <1>1, <1>2, <2>1, <2>2
<1>5. FirstOf(h, S) \in S
  BY <1>4 DEF FirstOf
<1>6. QED
  BY <1>1, <1>2, <1>5 DEF Matching

LEMMA LastFound ==
  ASSUME NEW h, NEW n, ListsOK(h, n), NEW S \in SUBSET Made, S # {},
         \A x \in S : h.tentry[x].dentry # Nil
  PROVE  LastOf(h, S) \in S
<1>1. /\ h \in ListsType /\ Used(h) \in SUBSET Made
      /\ \A e \in Used(h) : DentriesFrom(h, e) = {f \in Used(h) : f <= e}
  BY ReachDentries, ListsTypes DEF ListsOK
<1> DEFINE D == {h.tentry[x].dentry : x \in S}
<1>2. /\ \A x \in S : x \in Made /\ h.tentry[x].dentry \in Used(h) /\ x \in On(h, h.tentry[x].dentry)
      /\ D \in SUBSET Used(h) /\ D \in SUBSET Nat /\ D # {}
  <2>1. \A x \in S : x \in Made /\ h.tentry[x].dentry \in Used(h) /\ x \in On(h, h.tentry[x].dentry)
    BY <1>1, ListsTypes
  <2>2. QED
    BY <1>1, <2>1, Pointers
<1>3. PICK d \in D : \A e \in D : d <= e
  <2> HIDE DEF D
  <2>1. QED
    BY <1>2, Least
<1> DEFINE T == {x \in S : h.tentry[x].dentry = d}
<1>4. T \in SUBSET Made /\ T # {}
  BY <1>2
<1>5. PICK x \in T : \A y \in T : y <= x
  <2> HIDE DEF T
  <2>1. QED
    BY <1>4, Greatest
<1>6. ASSUME NEW y \in S
      PROVE  LET dx == h.tentry[x].dentry
                 dy == h.tentry[y].dentry
             IN  dx \in DentriesFrom(h, dy) /\ (dx = dy => x \in TentriesFrom(h, y))
  <2>1. h.tentry[x].dentry = d /\ d <= h.tentry[y].dentry /\ h.tentry[y].dentry \in Used(h)
        /\ d \in Used(h)
    BY <1>2, <1>3
  <2>2. h.tentry[x].dentry \in DentriesFrom(h, h.tentry[y].dentry)
    BY <1>1, <2>1
  <2>3. ASSUME h.tentry[y].dentry = d PROVE x \in TentriesFrom(h, y)
    <3>1. y <= x /\ y \in On(h, d) /\ x \in On(h, d)
      BY <1>2, <1>5, <2>1, <2>3
    <3>2. TentriesFrom(h, y) = {z \in On(h, d) : y <= z}
      BY <2>1, <3>1, ReachTentries
    <3>3. QED
      BY <3>1, <3>2
  <2>4. QED
    BY <2>1, <2>2, <2>3
<1>7. QED
  BY <1>5, <1>6 DEF LastOf

-----------------------------------------------------------------------------
(* A new registration. *)

\* Everything in the lists is older.
LEMMA Older ==
  ASSUME NEW h, NEW n \in Nat, ListsOK(h, n), NEW x \in Made, x = n + 1
  PROVE  /\ h.tentry[x] = FreeTentry /\ h.tentry[x].dentry = Nil
         /\ \A d \in Used(h) : d < x
         /\ \A d \in Made : \A y \in On(h, d) : y < x
         /\ On(h, x) = {}
<1>1. h \in ListsType /\ Cleared(h, n) /\ x > n /\ x \in Int /\ n \in Int
  BY Pointers DEF ListsOK
<1>2. h.tentry[x] = FreeTentry /\ h.tentry[x].dentry = Nil
  BY <1>1 DEF Cleared
<1>3. \A y \in Made : y \in Int /\ h.tentry[y].dentry <= n /\ h.tentry[y].dentry \in Int
  <2>1. \A y \in Made : y \in Int /\ h.tentry[y].dentry \in Pointer
    BY <1>1, ListsTypes, Pointers
  <2>2. \A p \in Pointer : p \in Int
    BY Pointers
  <2>3. QED
    BY <1>1, <2>1, <2>2 DEF Cleared
<1>4. \A d \in Used(h) : d < x
  BY <1>1, <1>3 DEF Used
<1>5. \A d \in Made : \A y \in On(h, d) : y < x
  <2> SUFFICES ASSUME NEW d \in Made, NEW y \in On(h, d) PROVE y < x
    OBVIOUS
  <2>1. y \in Made /\ h.tentry[y].dentry # Nil /\ y \in Int
    BY <1>3, Pointers DEF On
  <2>2. ~(y > n)
    BY <1>1, <2>1 DEF Cleared
  <2>3. QED
    BY <1>1, <2>1, <2>2
<1>6. On(h, x) = {}
  <2>1. \A y \in Made : h.tentry[y].dentry # x
    BY <1>1, <1>3
  <2>2. QED
    BY <2>1 DEF On
<1>7. QED
  BY <1>2, <1>4, <1>5, <1>6

\* What a new registration does to the others, in a dentry that is there or a new one.
Added(h, k, x, t, e) ==
  /\ k.tentry[x].dentry = e /\ k.tentry[x].thread = t
  /\ \A y \in Made \ {x} : /\ k.tentry[y].dentry = h.tentry[y].dentry
                           /\ k.tentry[y].thread = h.tentry[y].thread
  /\ \A d \in Used(h) : /\ k.dentry[d].descriptor = h.dentry[d].descriptor
                        /\ k.dentry[d].mode = h.dentry[d].mode

LEMMA RegisteredInLists ==
  ASSUME NEW h, NEW n \in Nat, ListsOK(h, n), NEW x \in Made, x = n + 1, NEW t \in Thread,
         NEW e \in Used(h), NEW k, k = RegisteredIn(h, x, t, e)
  PROVE  ListsOK(k, x) /\ Added(h, k, x, t, e)
<1> DEFINE last == h.dentry[e].last
           S == On(h, e)
<1>1. /\ h \in ListsType /\ Used(h) \in SUBSET Made /\ e \in Made /\ e # Nil /\ DentryOK(h, e)
      /\ S \in SUBSET Made /\ S # {} /\ last \in Pointer /\ IsBelow(last, Top, S)
      /\ h.dentry[e].first \in Pointer /\ IsAbove(h.dentry[e].first, 0, S)
  BY ListsTypes DEF ListsOK, DentryOK
<1>2. /\ k \in ListsType /\ k.head = h.head /\ k.registry = h.registry
      /\ k.tentry[x] = [dentry |-> e, thread |-> t, prev |-> last, next |-> Nil]
      /\ \A y \in Made \ {x} :
           /\ k.tentry[y].dentry = h.tentry[y].dentry
           /\ k.tentry[y].thread = h.tentry[y].thread
           /\ k.tentry[y].prev = h.tentry[y].prev
           /\ k.tentry[y].next = IF y = last THEN x ELSE h.tentry[y].next
           /\ h.tentry[y] = FreeTentry /\ y # last => k.tentry[y] = FreeTentry
      /\ \A d \in Made :
           /\ k.dentry[d].descriptor = h.dentry[d].descriptor
           /\ k.dentry[d].mode = h.dentry[d].mode
           /\ k.dentry[d].prev = h.dentry[d].prev /\ k.dentry[d].next = h.dentry[d].next
           /\ k.dentry[d].first = h.dentry[d].first
           /\ k.dentry[d].last = IF d = e THEN x ELSE h.dentry[d].last
  BY <1>1, RegisteredInCells
<1>3. /\ h.tentry[x] = FreeTentry /\ h.tentry[x].dentry = Nil
      /\ \A y \in S : y < x
      /\ \A d \in Made : x \notin On(h, d)
  BY <1>1, Older, Pointers DEF On
<1>4. /\ On(k, e) = S \cup {x}
      /\ \A d \in Made \ {e} : On(k, d) = On(h, d)
      /\ Used(k) = Used(h)
  <2>1. k.tentry[x].dentry = e
    BY <1>2
  <2>2. On(k, e) = S \cup {x}
    <3>1. \A y \in Made \ {x} : y \in On(k, e) <=> y \in S
      BY <1>2 DEF On
    <3>2. x \in On(k, e)
      BY <2>1 DEF On
    <3>3. On(k, e) \subseteq Made /\ S \subseteq Made
      BY <1>1 DEF On
    <3> HIDE DEF S
    <3>4. QED
      BY <3>1, <3>2, <3>3
  <2>3. \A d \in Made \ {e} : On(k, d) = On(h, d)
    <3> SUFFICES ASSUME NEW d \in Made \ {e} PROVE On(k, d) = On(h, d)
      OBVIOUS
    <3>1. k.tentry[x].dentry # d /\ h.tentry[x].dentry # d
      BY <1>3, <2>1, Pointers
    <3>2. \A y \in Made : k.tentry[y].dentry = d <=> h.tentry[y].dentry = d
      BY <1>2, <3>1
    <3>3. QED
      BY <3>2 DEF On
  <2>4. Used(k) \subseteq Used(h)
    <3>1. \A y \in Made : k.tentry[y].dentry \in {e, h.tentry[y].dentry}
      BY <1>2, <2>1
    <3>2. QED
      BY <3>1 DEF Used
  <2>5. Used(h) \subseteq Used(k)
    BY <1>2, <1>3, <2>1 DEF Used
  <2>6. QED
    BY <2>2, <2>3, <2>4, <2>5
<1>5. last \in S /\ last # Nil /\ last # x /\ h.dentry[e].first # Nil /\ x \in Nat /\ 0 < x
  <2> HIDE DEF S, last
  <2>1. last \in S /\ last # Nil /\ h.dentry[e].first # Nil
    BY <1>1, EndsExist
  <2>2. x \in Nat /\ 0 < x /\ \A y \in S : y # x
    BY <1>1, <1>3, Pointers
  <2>3. QED
    BY <2>1, <2>2
<1>6. /\ IsAbove(Nil, x, S \cup {x}) /\ IsBelow(last, x, S \cup {x})
      /\ IsBelow(x, Top, S \cup {x}) /\ IsAbove(h.dentry[e].first, 0, S \cup {x})
  <2> HIDE DEF S, last
  <2>1. /\ IsAbove(Nil, x, S \cup {x}) /\ IsBelow(last, x, S \cup {x})
        /\ IsBelow(x, Top, S \cup {x})
    BY <1>1, <1>3, NewGreatest
  <2>2. IsAbove(IF h.dentry[e].first = Nil THEN x ELSE h.dentry[e].first, 0, S \cup {x})
    BY <1>1, <1>3, <1>5, AboveMore
  <2>3. QED
    BY <1>5, <2>1, <2>2
<1>7. ASSUME NEW y \in Made, k.tentry[y].dentry # Nil PROVE TentryOK(k, y)
  <2>1. CASE y = x
    <3>1. k.tentry[y].dentry = e /\ k.tentry[y].thread = t /\ k.tentry[y].prev = last
          /\ k.tentry[y].next = Nil
      BY <1>2, <2>1
    <3> HIDE DEF S, last
    <3>2. QED
      BY <1>4, <1>6, <2>1, <3>1 DEF TentryOK
  <2>2. CASE y # x /\ h.tentry[y].dentry = e
    <3>1. /\ TentryOK(h, y) /\ y \in S /\ y < x /\ y \in Nat
          /\ h.tentry[y].next \in Pointer /\ h.tentry[y].prev \in Pointer
          /\ IsAbove(h.tentry[y].next, y, S) /\ IsBelow(h.tentry[y].prev, y, S)
          /\ h.tentry[y].thread \in Thread
      <4>1. TentryOK(h, y) /\ y \in S
        BY <1>1, <2>2 DEF ListsOK, On
      <4>2. QED
        BY <1>1, <1>3, <2>2, <4>1, ListsTypes, Pointers DEF TentryOK
    <3> HIDE DEF S, last
    <3>2. last = y <=> h.tentry[y].next = Nil
      BY <1>1, <3>1, GreatestHasNoneAbove
    <3>3. IsAbove(IF h.tentry[y].next = Nil THEN x ELSE h.tentry[y].next, y, S \cup {x})
      BY <1>1, <1>3, <3>1, AboveMore
    <3>4. IsBelow(h.tentry[y].prev, y, S \cup {x})
      BY <1>1, <1>3, <3>1, BelowMore
    <3>5. /\ k.tentry[y].next = IF h.tentry[y].next = Nil THEN x ELSE h.tentry[y].next
          /\ k.tentry[y].prev = h.tentry[y].prev
          /\ k.tentry[y].dentry = e /\ k.tentry[y].thread \in Thread
      BY <1>2, <2>2, <3>1, <3>2
    <3>6. QED
      BY <1>4, <3>3, <3>4, <3>5 DEF TentryOK
  <2>3. CASE y # x /\ h.tentry[y].dentry # e
    <3>1. y # last
      BY <1>5, <2>3 DEF On
    <3>2. /\ k.tentry[y].next = h.tentry[y].next /\ k.tentry[y].prev = h.tentry[y].prev
          /\ k.tentry[y].dentry = h.tentry[y].dentry /\ k.tentry[y].thread = h.tentry[y].thread
      BY <1>2, <2>3, <3>1
    <3>3. h.tentry[y].dentry # Nil /\ h.tentry[y].dentry \in Made /\ TentryOK(h, y)
      BY <1>1, <1>7, <3>2, ListsTypes DEF ListsOK, Pointer
    <3>4. On(k, k.tentry[y].dentry) = On(h, h.tentry[y].dentry)
      BY <1>4, <2>3, <3>2, <3>3
    <3>5. QED
      BY <3>2, <3>3, <3>4 DEF TentryOK
  <2>4. QED
    BY <2>1, <2>2, <2>3
<1>8. Cleared(k, x)
  <2> SUFFICES ASSUME NEW y \in Made
               PROVE  /\ k.tentry[y].dentry <= x
                      /\ y > x => k.tentry[y].dentry = Nil
                      /\ k.tentry[y].dentry = Nil => k.tentry[y] = FreeTentry
    BY DEF Cleared
  <2>1. CASE y = x
    <3>1. k.tentry[y].dentry = e /\ e \in Used(h)
      BY <1>2, <2>1
    <3>2. e < x /\ x \in Int /\ e \in Int /\ e # Nil
      BY <1>1, Older, Pointers
    <3>3. QED
      BY <2>1, <3>1, <3>2
  <2>2. CASE y # x
    <3>1. k.tentry[y].dentry = h.tentry[y].dentry
      BY <1>2, <2>2
    <3>2. /\ h.tentry[y].dentry <= n /\ h.tentry[y].dentry \in Int /\ n \in Int /\ x \in Int
          /\ y \in Int /\ (y > n => h.tentry[y].dentry = Nil)
          /\ (h.tentry[y].dentry = Nil => h.tentry[y] = FreeTentry)
      BY <1>1, ListsTypes, Pointers DEF ListsOK, Cleared
    <3>3. h.tentry[y].dentry = Nil => y # last
      BY <1>1, <1>5 DEF On
    <3>4. k.tentry[y].dentry = Nil => k.tentry[y] = FreeTentry
      BY <1>2, <2>2, <3>1, <3>2, <3>3
    <3>5. k.tentry[y].dentry <= x /\ (y > x => k.tentry[y].dentry = Nil)
      BY <3>1, <3>2
    <3>6. QED
      BY <3>4, <3>5
  <2>3. QED
    BY <2>1, <2>2
<1>9. \A d \in Used(k) : IsAbove(k.dentry[d].first, 0, On(k, d))
                         /\ IsBelow(k.dentry[d].last, Top, On(k, d))
  <2> SUFFICES ASSUME NEW d \in Used(k)
               PROVE  IsAbove(k.dentry[d].first, 0, On(k, d))
                      /\ IsBelow(k.dentry[d].last, Top, On(k, d))
    OBVIOUS
  <2>1. d \in Used(h) /\ d \in Made /\ DentryOK(h, d)
    BY <1>1, <1>4 DEF ListsOK
  <2>2. CASE d = e
    <3> HIDE DEF S, last
    <3>1. k.dentry[d].first = h.dentry[e].first /\ k.dentry[d].last = x
      BY <1>2, <2>1, <2>2
    <3>2. QED
      BY <1>4, <1>6, <2>2, <3>1
  <2>3. CASE d # e
    <3>1. /\ k.dentry[d].first = h.dentry[d].first /\ k.dentry[d].last = h.dentry[d].last
          /\ On(k, d) = On(h, d)
      BY <1>2, <1>4, <2>1, <2>3
    <3>2. QED
      BY <2>1, <3>1 DEF DentryOK
  <2>4. QED
    BY <2>2, <2>3
<1>10. DentriesOver(k, Used(k))
  <2>1. DentriesOver(h, Used(h))
    BY <1>1, ListsParts
  <2>2. \A f \in Used(h) : /\ k.dentry[f].descriptor = h.dentry[f].descriptor
                          /\ k.dentry[f].mode = h.dentry[f].mode
                          /\ k.dentry[f].prev = h.dentry[f].prev
                          /\ k.dentry[f].next = h.dentry[f].next
    BY <1>1, <1>2
  <2>3. QED
    BY <1>2, <1>4, <2>1, <2>2, DentriesSame
<1>11. ListsOK(k, x)
  BY <1>2, <1>7, <1>8, <1>9, <1>10, ListsParts DEF TentriesOver
<1>12. Added(h, k, x, t, e)
  BY <1>1, <1>2 DEF Added
<1>13. QED
  BY <1>11, <1>12

LEMMA RegisteredNewLists ==
  ASSUME NEW h, NEW n \in Nat, ListsOK(h, n), NEW x \in Made, x = n + 1, NEW t \in Thread,
         NEW d \in Descriptor, NEW m \in Mode, Matching(h, d, {m}) = {},
         NEW k, k = RegisteredNew(h, x, t, d, m)
  PROVE  /\ ListsOK(k, x) /\ Added(h, k, x, t, x)
         /\ k.dentry[x].descriptor = d /\ k.dentry[x].mode = m
<1> DEFINE U == Used(h)
<1>1. /\ h \in ListsType /\ U \in SUBSET Made /\ h.head \in Pointer
      /\ DentriesOver(h, U) /\ TentriesOver(h, n) /\ IsBelow(h.head, Top, U)
  BY ListsTypes, ListsParts DEF ListsOK
<1>2. /\ k \in ListsType /\ k.head = x /\ k.registry = h.registry \cup {<<d, m>>}
      /\ k.tentry[x].dentry = x /\ k.tentry[x].thread = t
      /\ k.tentry[x].prev = Nil /\ k.tentry[x].next = Nil
      /\ \A y \in Made \ {x} : k.tentry[y] = h.tentry[y]
      /\ k.dentry[x] = [descriptor |-> d, mode |-> m, first |-> x, last |-> x,
                        prev |-> Nil, next |-> h.head]
      /\ \A e \in Made \ {x} :
           /\ k.dentry[e].descriptor = h.dentry[e].descriptor
           /\ k.dentry[e].mode = h.dentry[e].mode
           /\ k.dentry[e].first = h.dentry[e].first /\ k.dentry[e].last = h.dentry[e].last
           /\ k.dentry[e].next = h.dentry[e].next
           /\ k.dentry[e].prev = IF e = h.head THEN x ELSE h.dentry[e].prev
  BY <1>1, RegisteredNewCells
<1>3. /\ h.tentry[x].dentry = Nil /\ On(h, x) = {}
      /\ (\A e \in U : e < x /\ e # x) /\ x \in Nat /\ x # Nil
  <2>1. h.tentry[x].dentry = Nil /\ On(h, x) = {} /\ \A e \in U : e < x
    BY Older
  <2>2. x \in Nat /\ x # Nil /\ \A e \in U : e \in Nat
    BY <1>1, Pointers
  <2>3. QED
    BY <2>1, <2>2
<1>4. /\ On(k, x) = {x}
      /\ \A e \in U : On(k, e) = On(h, e)
      /\ Used(k) = U \cup {x}
  <2>1. \A y \in Made \ {x} : k.tentry[y].dentry = h.tentry[y].dentry
    BY <1>2
  <2>2. On(k, x) = {x}
    <3>1. \A y \in Made \ {x} : h.tentry[y].dentry # x
      BY <1>3 DEF On
    <3>2. \A y \in On(k, x) : y = x
      BY <2>1, <3>1 DEF On
    <3>3. x \in On(k, x)
      BY <1>2 DEF On
    <3>4. QED
      BY <3>2, <3>3
  <2>3. \A e \in U : On(k, e) = On(h, e)
    <3> SUFFICES ASSUME NEW e \in U PROVE On(k, e) = On(h, e)
      OBVIOUS
    <3>1. e # x /\ e # Nil
      BY <1>1, <1>3, Pointers
    <3>2. k.tentry[x].dentry # e /\ h.tentry[x].dentry # e
      BY <1>2, <1>3, <3>1
    <3>3. \A y \in Made : k.tentry[y].dentry = e <=> h.tentry[y].dentry = e
      BY <2>1, <3>2
    <3>4. QED
      BY <3>3 DEF On
  <2>4. Used(k) \subseteq U \cup {x}
    BY <1>2, <2>1 DEF Used
  <2>5. U \cup {x} \subseteq Used(k)
    BY <1>2, <1>3, <2>1 DEF Used
  <2>6. QED
    BY <2>2, <2>3, <2>4, <2>5
<1> HIDE DEF U
<1>5. Cleared(k, x)
  <2> SUFFICES ASSUME NEW y \in Made
               PROVE  /\ k.tentry[y].dentry <= x
                      /\ y > x => k.tentry[y].dentry = Nil
                      /\ k.tentry[y].dentry = Nil => k.tentry[y] = FreeTentry
    BY DEF Cleared
  <2>1. CASE y = x
    BY <1>2, <1>3, <2>1
  <2>2. CASE y # x
    <3>1. k.tentry[y] = h.tentry[y]
      BY <1>2, <2>2
    <3>2. /\ h.tentry[y].dentry <= n /\ (y > n => h.tentry[y].dentry = Nil)
          /\ (h.tentry[y].dentry = Nil => h.tentry[y] = FreeTentry)
      BY DEF ListsOK, Cleared
    <3>3. h.tentry[y].dentry \in Pointer
      BY <1>1, ListsTypes
    <3>4. h.tentry[y].dentry \in Int /\ n \in Int /\ x \in Int /\ y \in Int
      <4>1. (\A p \in Pointer : p \in Int) /\ y \in Int
        BY Pointers
      <4>2. QED
        BY <1>3, <3>3, <4>1
    <3>5. h.tentry[y].dentry <= x /\ (y > x => y > n)
      BY <3>2, <3>4
    <3>6. QED
      BY <3>1, <3>2, <3>5
  <2>3. QED
    BY <2>1, <2>2
<1>6. ASSUME NEW y \in Made, k.tentry[y].dentry # Nil PROVE TentryOK(k, y)
  <2>1. CASE y = x
    BY <1>2, <1>4, <2>1, Single DEF TentryOK
  <2>2. CASE y # x
    <3>1. k.tentry[y] = h.tentry[y]
      BY <1>2, <2>2
    <3>2. h.tentry[y].dentry \in U /\ TentryOK(h, y)
      BY <1>1, <1>6, <3>1, ListsTypes DEF ListsOK, U
    <3>3. On(k, k.tentry[y].dentry) = On(h, h.tentry[y].dentry)
      BY <1>4, <3>1, <3>2
    <3>4. QED
      BY <3>1, <3>2, <3>3 DEF TentryOK
  <2>3. QED
    BY <2>1, <2>2
<1>7. ASSUME NEW e \in Used(k)
      PROVE  IsAbove(k.dentry[e].first, 0, On(k, e)) /\ IsBelow(k.dentry[e].last, Top, On(k, e))
  <2>1. CASE e = x
    <3>1. k.dentry[e].first = x /\ k.dentry[e].last = x
      BY <1>2, <2>1
    <3>2. QED
      BY <1>4, <2>1, <3>1, Single
  <2>2. CASE e # x
    <3>1. e \in U /\ e \in Made
      BY <1>1, <1>4, <2>2
    <3>2. /\ k.dentry[e].first = h.dentry[e].first /\ k.dentry[e].last = h.dentry[e].last
          /\ On(k, e) = On(h, e)
      BY <1>2, <1>4, <2>2, <3>1
    <3>3. QED
      BY <1>1, <3>1, <3>2 DEF TentriesOver, U
  <2>3. QED
    BY <2>1, <2>2
<1>8. /\ IsAbove(Nil, x, U \cup {x}) /\ IsBelow(h.head, x, U \cup {x})
      /\ IsBelow(x, Top, U \cup {x})
  BY <1>1, <1>3, NewGreatest
<1>9. ASSUME NEW e \in Used(k)
      PROVE  /\ k.dentry[e].descriptor \in Descriptor
             /\ IsBelow(k.dentry[e].next, e, Used(k)) /\ IsAbove(k.dentry[e].prev, e, Used(k))
  <2>1. CASE e = x
    <3>1. k.dentry[e].next = h.head /\ k.dentry[e].prev = Nil /\ k.dentry[e].descriptor = d
      BY <1>2, <2>1
    <3>2. QED
      BY <1>4, <1>8, <2>1, <3>1
  <2>2. CASE e # x
    <3>1. /\ e \in U /\ e \in Made /\ e < x /\ e \in Nat
          /\ h.dentry[e].next \in Pointer /\ h.dentry[e].prev \in Pointer
      <4>1. e \in U /\ e \in Made /\ e < x /\ e \in Nat
        BY <1>1, <1>3, <1>4, <2>2, Pointers
      <4>2. QED
        BY <1>1, <4>1, ListsTypes
    <3>2. /\ h.dentry[e].descriptor \in Descriptor
          /\ IsBelow(h.dentry[e].next, e, U) /\ IsAbove(h.dentry[e].prev, e, U)
      BY <1>1, <3>1 DEF DentriesOver
    <3>3. h.head = e <=> h.dentry[e].prev = Nil
      BY <1>1, <3>1, <3>2, GreatestHasNoneAbove
    <3>4. IsAbove(IF h.dentry[e].prev = Nil THEN x ELSE h.dentry[e].prev, e, U \cup {x})
      BY <1>1, <1>3, <3>1, <3>2, AboveMore
    <3>5. IsBelow(h.dentry[e].next, e, U \cup {x})
      BY <1>1, <1>3, <3>1, <3>2, BelowMore
    <3>6. /\ k.dentry[e].next = h.dentry[e].next
          /\ k.dentry[e].descriptor = h.dentry[e].descriptor
          /\ k.dentry[e].prev = IF h.dentry[e].prev = Nil THEN x ELSE h.dentry[e].prev
      BY <1>2, <2>2, <3>1, <3>3
    <3>7. QED
      BY <1>4, <3>2, <3>4, <3>5, <3>6
  <2>3. QED
    BY <2>1, <2>2
<1>10. IsBelow(k.head, Top, Used(k))
  BY <1>2, <1>4, <1>8
<1>11. \A e \in U : /\ k.dentry[e].descriptor = h.dentry[e].descriptor
                    /\ k.dentry[e].mode = h.dentry[e].mode
  BY <1>1, <1>2, <1>3
<1>12. \A e \in U : ~(h.dentry[e].descriptor = d /\ h.dentry[e].mode = m)
  <2>1. Dentries(h) = U
    BY ReachDentries DEF U
  <2>2. QED
    BY <2>1 DEF Matching
<1>13. k.dentry[x].descriptor = d /\ k.dentry[x].mode = m
  BY <1>2
<1>14. \A e, f \in Used(k) : /\ k.dentry[e].descriptor = k.dentry[f].descriptor
                             /\ k.dentry[e].mode = k.dentry[f].mode
                             => e = f
  <2>1. \A e, f \in U : /\ h.dentry[e].descriptor = h.dentry[f].descriptor
                        /\ h.dentry[e].mode = h.dentry[f].mode
                        => e = f
    BY <1>1 DEF DentriesOver
  <2>2. QED
    BY <1>4, <1>11, <1>12, <1>13, <2>1
<1>15. k.registry = {<<k.dentry[e].descriptor, k.dentry[e].mode>> : e \in Used(k)}
  <2>1. h.registry = {<<h.dentry[e].descriptor, h.dentry[e].mode>> : e \in U}
    BY <1>1 DEF DentriesOver
  <2>2. \A e \in U : <<h.dentry[e].descriptor, h.dentry[e].mode>>
                       = <<k.dentry[e].descriptor, k.dentry[e].mode>>
    BY <1>11
  <2>3. <<k.dentry[x].descriptor, k.dentry[x].mode>> = <<d, m>>
    BY <1>13
  <2>4. h.registry = {<<k.dentry[e].descriptor, k.dentry[e].mode>> : e \in U}
    BY <2>1, <2>2
  <2>5. k.registry = {<<k.dentry[e].descriptor, k.dentry[e].mode>> : e \in U}
                       \cup {<<k.dentry[x].descriptor, k.dentry[x].mode>>}
    BY <1>2, <2>3, <2>4
  <2>6. QED
    BY <1>4, <2>5
<1>16. ListsOK(k, x)
  <2>1. TentriesOver(k, x)
    BY <1>5, <1>6, <1>7 DEF TentriesOver
  <2>2. DentriesOver(k, Used(k))
    BY <1>9, <1>10, <1>14, <1>15 DEF DentriesOver
  <2>3. QED
    BY <1>2, <2>1, <2>2, ListsParts
<1>17. Added(h, k, x, t, x)
  BY <1>1, <1>2, <1>11 DEF Added, U
<1>18. QED
  BY <1>13, <1>16, <1>17

LEMMA RegisteredLists ==
  ASSUME NEW h, NEW n \in Nat, ListsOK(h, n), n + 1 \in Made, NEW t \in Thread,
         NEW d \in Descriptor, NEW m \in Mode, NEW k, k = Registered(h, n + 1, t, d, m)
  PROVE  /\ ListsOK(k, n + 1)
         /\ \E e \in Made : /\ Added(h, k, n + 1, t, e)
                            /\ k.dentry[e].descriptor = d /\ k.dentry[e].mode = m
<1> DEFINE x == n + 1
           S == Matching(h, d, {m})
           e == FirstOf(h, S)
<1>1. x \in Made /\ x = n + 1
  OBVIOUS
<1>2. CASE S = {}
  <2>1. k = RegisteredNew(h, x, t, d, m)
    BY <1>2 DEF Registered
  <2> HIDE DEF x
  <2>2. QED
    BY <1>1, <1>2, <2>1, RegisteredNewLists
<1>3. CASE S # {}
  <2>1. k = RegisteredIn(h, x, t, e)
    BY <1>3 DEF Registered
  <2>2. e \in Used(h) /\ e \in Made /\ h.dentry[e].descriptor = d /\ h.dentry[e].mode = m
    <3>1. /\ e \in Used(h) /\ e \in Made
          /\ h.dentry[e].descriptor = d /\ h.dentry[e].mode \in {m}
      BY <1>3, SearchFinds
    <3>2. QED
      BY <3>1
  <2> HIDE DEF x, e
  <2>3. ListsOK(k, x) /\ Added(h, k, x, t, e)
    BY <1>1, <2>1, <2>2, RegisteredInLists
  <2>4. k.dentry[e].descriptor = d /\ k.dentry[e].mode = m
    BY <2>2, <2>3 DEF Added
  <2>5. QED
    BY <1>1, <2>2, <2>3, <2>4
<1>4. QED
  BY <1>2, <1>3

-----------------------------------------------------------------------------
(* The steps and the registrations that threads have. *)

\* A registration is in a list exactly if it has a thread.
LEMMA OwnerFacts ==
  ASSUME NEW h, NEW n, ListsOK(h, n)
  PROVE  /\ Owner(h) \in [Made -> Thread \cup {Nobody}]
         /\ \A x \in Made : Owner(h)[x] = h.tentry[x].thread
         /\ \A x \in Made : h.tentry[x].dentry # Nil <=> Owner(h)[x] # Nobody
         /\ Linked(h) = {x \in Made : Owner(h)[x] # Nobody}
<1>1. h \in ListsType
  BY DEF ListsOK
<1>2. \A x \in Made : h.tentry[x].thread \in Thread \cup {Nobody}
  BY <1>1 DEF ListsType, TentryType
<1>3. \A x \in Made : Owner(h)[x] = h.tentry[x].thread
  BY DEF Owner
<1>4. \A x \in Made : h.tentry[x].dentry # Nil <=> Owner(h)[x] # Nobody
  <2> SUFFICES ASSUME NEW x \in Made
               PROVE  h.tentry[x].dentry # Nil <=> h.tentry[x].thread # Nobody
    BY <1>3
  <2>1. h.tentry[x].dentry # Nil => h.tentry[x].thread \in Thread
    BY DEF ListsOK, TentryOK
  <2>2. h.tentry[x].dentry = Nil => h.tentry[x].thread = Nobody
    BY DEF ListsOK, Cleared, FreeTentry
  <2>3. QED
    BY <2>1, <2>2, IOAssumption
<1>5. QED
  <2>1. Owner(h) \in [Made -> Thread \cup {Nobody}]
    BY <1>2 DEF Owner
  <2>2. Linked(h) = {x \in Made : Owner(h)[x] # Nobody}
    BY <1>4, ReachLinked
  <2>3. QED
    BY <1>3, <1>4, <2>1, <2>2

LEMMA DeleteOwner ==
  ASSUME NEW h, NEW n \in Nat, ListsOK(h, n), NEW x \in Made, Owner(h)[x] # Nobody,
         NEW k, k = DeleteTentry(h, x)
  PROVE  ListsOK(k, n) /\ Owner(k) = [Owner(h) EXCEPT ![x] = Nobody]
<1>1. h.tentry[x].dentry # Nil
  BY OwnerFacts
<1>2. /\ ListsOK(k, n) /\ k.tentry[x] = FreeTentry
      /\ \A y \in Made \ {x} : k.tentry[y].thread = h.tentry[y].thread
  BY <1>1, DeleteTentryLists
<1>3. k.tentry[x].thread = Nobody
  BY <1>2 DEF FreeTentry
<1>4. QED
  BY <1>2, <1>3 DEF Owner

LEMMA DeregisteredOwner ==
  ASSUME NEW h, NEW n \in Nat, ListsOK(h, n), NEW x \in Made, NEW k, k = Deregistered(h, x)
  PROVE  ListsOK(k, n) /\ Owner(k) = [Owner(h) EXCEPT ![x] = Nobody]
<1>1. CASE h.tentry[x].dentry = Nil
  <2>1. k = h /\ Owner(h)[x] = Nobody /\ Owner(h) \in [Made -> Thread \cup {Nobody}]
    BY <1>1, OwnerFacts DEF Deregistered
  <2>2. Owner(h) = [Owner(h) EXCEPT ![x] = Nobody]
    BY <2>1
  <2>3. QED
    BY <2>1, <2>2
<1>2. CASE h.tentry[x].dentry # Nil
  <2>1. k = DeleteTentry(h, x) /\ Owner(h)[x] # Nobody
    BY <1>2, OwnerFacts DEF Deregistered
  <2>2. QED
    BY <2>1, DeleteOwner
<1>3. QED
  BY <1>1, <1>2

LEMMA RegisteredOwner ==
  ASSUME NEW h, NEW n \in Nat, ListsOK(h, n), n + 1 \in Made, NEW t \in Thread,
         NEW d \in Descriptor, NEW m \in Mode, NEW k, k = Registered(h, n + 1, t, d, m)
  PROVE  ListsOK(k, n + 1) /\ Owner(k) = [Owner(h) EXCEPT ![n + 1] = t]
<1> DEFINE x == n + 1
<1>1. x \in Made /\ ListsOK(k, x)
  BY RegisteredLists
<1>2. /\ k.tentry[x].thread = t
      /\ \A y \in Made \ {x} : k.tentry[y].thread = h.tentry[y].thread
  <2>1. \E e \in Made : Added(h, k, x, t, e)
    BY RegisteredLists
  <2> HIDE DEF x
  <2>2. QED
    BY <2>1 DEF Added
<1> HIDE DEF x
<1>3. Owner(k) = [Owner(h) EXCEPT ![x] = t]
  BY <1>1, <1>2 DEF Owner
<1>4. QED
  BY <1>1, <1>3 DEF x

\* block-on-io-descriptor withdraws its registration unless it was signalled.
LEMMA AfterThunkOwner ==
  ASSUME IInv, NEW t \in Thread, io' = AfterThunk(io, t)
  PROVE  /\ ListsOK(io', made)
         /\ Owner(io') = [x \in Made |-> IF x = frame[t] THEN Nobody ELSE Owner(io)[x]]
<1>1. /\ ListsOK(io, made) /\ made \in Nat /\ frame[t] \in Pointer
      /\ Owner(io) \in [Made -> Thread \cup {Nobody}]
      /\ \A x \in Made : Owner(io)[x] = io.tentry[x].thread
      /\ frame[t] # Nil => Owner(io)[frame[t]] \in {t, Nobody}
  <2>1. ListsOK(io, made) /\ made \in Nat /\ frame[t] \in 0 .. made /\ made \in 0 .. MaxRegistrations
    BY IOAssumption DEF IInv, Types
  <2>2. frame[t] \in Pointer
    BY <2>1, IOAssumption DEF Pointer, Made, Nil
  <2>3. frame[t] # Nil => Owner(io)[frame[t]] \in {t, Nobody}
    BY DEF IInv, ThreadsOK, FrameOK
  <2>4. QED
    BY <2>1, <2>2, <2>3, OwnerFacts
<1>2. CASE frame[t] # Nil /\ io.tentry[frame[t]].thread = t
  <2>1. frame[t] \in Made /\ io' = Deregistered(io, frame[t])
    BY <1>1, <1>2 DEF AfterThunk, Pointer
  <2>2. ListsOK(io', made) /\ Owner(io') = [Owner(io) EXCEPT ![frame[t]] = Nobody]
    BY <1>1, <2>1, DeregisteredOwner
  <2>3. QED
    BY <1>1, <2>1, <2>2
<1>3. CASE ~(frame[t] # Nil /\ io.tentry[frame[t]].thread = t)
  <2>1. io' = io
    BY <1>3 DEF AfterThunk
  <2>2. \A x \in Made : x = frame[t] => Owner(io)[x] = Nobody
    BY <1>1, <1>3, Pointers
  <2>3. Owner(io) = [x \in Made |-> IF x = frame[t] THEN Nobody ELSE Owner(io)[x]]
    BY <1>1, <2>2
  <2>4. QED
    BY <1>1, <2>1, <2>3
<1>4. QED
  BY <1>2, <1>3

-----------------------------------------------------------------------------
(* The invariant. *)

LEMMA StateFacts ==
  ASSUME IInv
  PROVE  /\ made \in Nat /\ made \in 0 .. MaxRegistrations /\ \A i \in 0 .. made : i \in Pointer /\ i \in Int
         /\ pc \in [Thread -> PCs]
         /\ frame \in [Thread -> 0 .. made] /\ held \in [Thread -> 0 .. made]
         /\ \A t \in Thread : frame[t] \in Pointer /\ held[t] \in Pointer
         /\ pending \in [Thread -> SUBSET Made] /\ doomed \in SUBSET Made /\ closing = NotClosing
         /\ ListsOK(io, made) /\ Owner(io) \in [Made -> Thread \cup {Nobody}]
         /\ Linked(io) = {x \in Made : Owner(io)[x] # Nobody}
         /\ \A t \in Thread : FrameOK(t)
         /\ \A x \in Made : OwnerOK(x)
         /\ ExitOK /\ Nobody \notin Thread /\ Pointer = Made \cup {Nil} /\ Nil \notin Made
<1>1. made \in 0 .. MaxRegistrations /\ MaxRegistrations \in Nat /\ Nobody \notin Thread
  BY IOAssumption DEF IInv, Types
<1>2. \A i \in 0 .. made : i \in Pointer /\ i \in Int
  BY <1>1 DEF Pointer, Made, Nil
<1>3. ListsOK(io, made)
  BY DEF IInv
<1>4. /\ pc \in [Thread -> PCs]
      /\ frame \in [Thread -> 0 .. made] /\ held \in [Thread -> 0 .. made]
      /\ pending \in [Thread -> SUBSET Made] /\ doomed \in SUBSET Made /\ closing = NotClosing
      /\ ThreadsOK
  BY DEF IInv, Types
<1>5. QED
  <2>1. made \in Nat
    BY <1>1
  <2>2. \A t \in Thread : frame[t] \in Pointer /\ held[t] \in Pointer
    BY <1>2, <1>4
  <2>3. Owner(io) \in [Made -> Thread \cup {Nobody}] /\ Linked(io) = {x \in Made : Owner(io)[x] # Nobody}
    BY <1>3, OwnerFacts
  <2>4. QED
    BY <1>1, <1>2, <1>3, <1>4, <2>1, <2>2, <2>3, Pointers DEF ThreadsOK

LEMMA InitInv == Init => IInv
<1> SUFFICES ASSUME Init PROVE IInv
  OBVIOUS
<1>1. /\ io.head = Nil /\ io.registry = {}
      /\ io.dentry = [i \in Made |-> NoDentry] /\ io.tentry = [i \in Made |-> FreeTentry]
      /\ io = [head |-> io.head, dentry |-> io.dentry, tentry |-> io.tentry,
               registry |-> io.registry]
  BY DEF Init
<1>2. \A x \in Made : io.tentry[x] = FreeTentry /\ io.tentry[x].dentry = Nil
                      /\ io.tentry[x].thread = Nobody
  BY <1>1 DEF FreeTentry
<1>3. io \in ListsType
  <2>1. NoDentry \in DentryType
    BY Pointers DEF NoDentry, DentryType, Mode
  <2>2. io.dentry \in [Made -> DentryType] /\ io.tentry \in [Made -> TentryType]
    BY <1>1, <2>1, FreeTentryType
  <2>3. QED
    BY <1>1, <2>2, Pointers DEF ListsType
<1>4. Used(io) = {}
  BY <1>2 DEF Used
<1>5. made = 0 /\ ListsOK(io, made)
  <2>1. made = 0
    BY DEF Init
  <2>2. Cleared(io, 0)
    BY <1>2, Pointers DEF Cleared
  <2>3. IsBelow(io.head, Top, Used(io))
    BY <1>1, <1>4 DEF IsBelow
  <2>4. Distinct(io) /\ Polled(io)
    BY <1>1, <1>4 DEF Distinct, Polled
  <2>5. QED
    BY <1>2, <1>3, <1>4, <2>1, <2>2, <2>3, <2>4 DEF ListsOK
<1>6. Types
  BY <1>5, IOAssumption DEF Init, Types, Nil, PCs
<1>7. ThreadsOK
  <2>1. \A x \in Made : Owner(io)[x] = Nobody
    BY <1>2 DEF Owner
  <2>2. QED
    BY <2>1 DEF Init, ThreadsOK, FrameOK, OwnerOK, ExitOK
<1>8. QED
  BY <1>5, <1>6, <1>7 DEF IInv

LEMMA RegistrationMade ==
  ASSUME IInv, NEW t \in Thread, NEW d \in Descriptor, NEW m \in Mode, NewRegistration(t, d, m)
  PROVE  /\ made' = made + 1 /\ made' \in Made /\ made' \in 0 .. MaxRegistrations
         /\ ListsOK(io', made') /\ Owner(io') = [Owner(io) EXCEPT ![made'] = t]
         /\ made' # Nil /\ made' \in 0 .. made' /\ \A i \in 0 .. made : i # made' /\ i \in 0 .. made'
<1>1. made < MaxRegistrations /\ made' = made + 1 /\ io' = Registered(io, made + 1, t, d, m)
  BY DEF NewRegistration
<1>2. made \in Nat /\ MaxRegistrations \in Nat /\ ListsOK(io, made)
  BY IOAssumption, StateFacts
<1>3. made + 1 \in Made /\ made + 1 \in 0 .. MaxRegistrations
  BY <1>1, <1>2 DEF Made
<1>4. ListsOK(io', made + 1) /\ Owner(io') = [Owner(io) EXCEPT ![made + 1] = t]
  BY <1>1, <1>2, <1>3, RegisteredOwner
<1>5. QED
  BY <1>1, <1>2, <1>3, <1>4 DEF Nil

LEMMA RegisterInv ==
  ASSUME IInv, Calm, NEW t \in Thread, NEW d \in Descriptor, NEW m \in Mode,
         RegisterIOThreadEvent(t, d, m)
  PROVE  IInv'
<1>1. /\ held[t] = Nil /\ pc[t] = "run" /\ NewRegistration(t, d, m)
      /\ held' = [held EXCEPT ![t] = made']
      /\ pc' = pc /\ frame' = frame /\ pending' = pending /\ doomed' = doomed /\ closing' = closing
  BY DEF RegisterIOThreadEvent, NewRegistration
<1>2. /\ made' = made + 1 /\ made' \in Made /\ made' \in 0 .. MaxRegistrations
      /\ ListsOK(io', made') /\ Owner(io') = [Owner(io) EXCEPT ![made'] = t]
      /\ made' # Nil /\ made' \in 0 .. made' /\ \A i \in 0 .. made : i # made' /\ i \in 0 .. made'
  BY <1>1, RegistrationMade
<1>3. /\ frame \in [Thread -> 0 .. made] /\ held \in [Thread -> 0 .. made] /\ pc \in [Thread -> PCs]
      /\ Owner(io) \in [Made -> Thread \cup {Nobody}] /\ Nobody \notin Thread
      /\ \A u \in Thread : FrameOK(u)
      /\ \A x \in Made : OwnerOK(x)
  BY StateFacts
<1>4. frame[t] = Nil
  BY <1>1, <1>3 DEF FrameOK
<1>5. Types'
  <2>1. held' \in [Thread -> 0 .. made'] /\ frame' \in [Thread -> 0 .. made']
    BY <1>1, <1>2, <1>3
  <2>2. QED
    BY <1>1, <1>2, <2>1, StateFacts DEF Types
<1>6. ASSUME NEW u \in Thread PROVE FrameOK(u)'
  <2>1. FrameOK(u) /\ frame[u] # made' /\ held[u] # made' /\ frame[u] \in Pointer /\ held[u] \in Pointer
    BY <1>2, <1>3, StateFacts
  <2>2. \A i \in Made : i # made' => Owner(io')[i] = Owner(io)[i]
    BY <1>2, <1>3
  <2>3. \A i \in Pointer : i # Nil => i \in Made
    BY DEF Pointer
  <2>4. Owner(io')[made'] = t
    BY <1>2, <1>3
  <2>5. CASE u = t
    BY <1>1, <1>4, <2>4, <2>5, <1>3 DEF FrameOK
  <2>6. CASE u # t
    <3>1. held'[u] = held[u] /\ frame'[u] = frame[u] /\ pc'[u] = pc[u] /\ pending'[u] = pending[u]
      BY <1>1, <1>3, <2>6
    <3>2. QED
      BY <2>1, <2>2, <2>3, <3>1 DEF FrameOK
  <2>7. QED
    BY <2>5, <2>6
<1>7. ASSUME NEW x \in Made PROVE OwnerOK(x)'
  <2>1. CASE x = made'
    <3>1. Owner(io')[x] = t /\ pc'[t] = "run" /\ held'[t] = x
      BY <1>1, <1>2, <1>3, <2>1
    <3>2. QED
      BY <3>1 DEF OwnerOK
  <2>2. CASE x # made'
    <3>1. Owner(io')[x] = Owner(io)[x] /\ OwnerOK(x) /\ x # Nil
      BY <1>2, <1>3, <2>2, Pointers
    <3>2. Owner(io)[x] # t
      BY <1>1, <1>3, <1>4, <3>1 DEF OwnerOK
    <3>3. QED
      BY <1>1, <1>3, <3>1, <3>2 DEF OwnerOK
  <2>3. QED
    BY <2>1, <2>2
<1>8. ExitOK'
  BY <1>1 DEF ExitOK, Calm
<1>9. QED
  BY <1>2, <1>5, <1>6, <1>7, <1>8 DEF IInv, ThreadsOK

LEMMA BlockInv ==
  ASSUME IInv, Calm, NEW t \in Thread, NEW d \in Descriptor, NEW m \in Mode,
         BlockOnIODescriptor(t, d, m)
  PROVE  IInv'
<1>1. /\ pc[t] = "run" /\ NewRegistration(t, d, m)
      /\ frame' = [frame EXCEPT ![t] = made']
      /\ pc' = [pc EXCEPT ![t] = "registered"]
      /\ held' = held /\ pending' = pending /\ doomed' = doomed /\ closing' = closing
  BY DEF BlockOnIODescriptor, NewRegistration
<1>2. /\ made' = made + 1 /\ made' \in Made /\ made' \in 0 .. MaxRegistrations
      /\ ListsOK(io', made') /\ Owner(io') = [Owner(io) EXCEPT ![made'] = t]
      /\ made' # Nil /\ made' \in 0 .. made' /\ \A i \in 0 .. made : i # made' /\ i \in 0 .. made'
  BY <1>1, RegistrationMade
<1>3. /\ frame \in [Thread -> 0 .. made] /\ held \in [Thread -> 0 .. made] /\ pc \in [Thread -> PCs]
      /\ Owner(io) \in [Made -> Thread \cup {Nobody}] /\ Nobody \notin Thread
      /\ \A u \in Thread : FrameOK(u)
      /\ \A x \in Made : OwnerOK(x)
  BY StateFacts
<1>4. frame[t] = Nil
  BY <1>1, <1>3 DEF FrameOK
<1>5. Types'
  <2>1. held' \in [Thread -> 0 .. made'] /\ frame' \in [Thread -> 0 .. made']
        /\ pc' \in [Thread -> PCs]
    BY <1>1, <1>2, <1>3 DEF PCs
  <2>2. QED
    BY <1>1, <1>2, <2>1, StateFacts DEF Types
<1>6. ASSUME NEW u \in Thread PROVE FrameOK(u)'
  <2>1. FrameOK(u) /\ frame[u] # made' /\ held[u] # made' /\ frame[u] \in Pointer /\ held[u] \in Pointer
    BY <1>2, <1>3, StateFacts
  <2>2. \A i \in Made : i # made' => Owner(io')[i] = Owner(io)[i]
    BY <1>2, <1>3
  <2>3. \A i \in Pointer : i # Nil => i \in Made
    BY DEF Pointer
  <2>4. Owner(io')[made'] = t
    BY <1>2, <1>3
  <2>5. CASE u = t
    <3>1. held'[u] = held[u] /\ frame'[u] = made' /\ pc'[u] = "registered"
      BY <1>1, <1>3, <2>5
    <3>2. QED
      BY <1>1, <2>1, <2>2, <2>3, <2>4, <2>5, <3>1 DEF FrameOK
  <2>6. CASE u # t
    <3>1. held'[u] = held[u] /\ frame'[u] = frame[u] /\ pc'[u] = pc[u] /\ pending'[u] = pending[u]
      BY <1>1, <1>3, <2>6
    <3>2. QED
      BY <2>1, <2>2, <2>3, <3>1 DEF FrameOK
  <2>7. QED
    BY <2>5, <2>6
<1>7. ASSUME NEW x \in Made PROVE OwnerOK(x)'
  <2>1. CASE x = made'
    <3>1. Owner(io')[x] = t /\ pc'[t] = "registered" /\ frame'[t] = x
      BY <1>1, <1>2, <1>3, <2>1
    <3>2. QED
      BY <3>1 DEF OwnerOK
  <2>2. CASE x # made'
    <3>1. Owner(io')[x] = Owner(io)[x] /\ OwnerOK(x) /\ x # Nil
      BY <1>2, <1>3, <2>2, Pointers
    <3>2. CASE Owner(io)[x] = t
      BY <1>1, <1>3, <1>4, <3>1, <3>2 DEF OwnerOK
    <3>3. CASE Owner(io)[x] # t
      BY <1>1, <1>3, <3>1, <3>3 DEF OwnerOK
    <3>4. QED
      BY <3>2, <3>3
  <2>3. QED
    BY <2>1, <2>2
<1>8. ExitOK'
  BY <1>1, <1>3 DEF ExitOK, Calm
<1>9. QED
  BY <1>2, <1>5, <1>6, <1>7, <1>8 DEF IInv, ThreadsOK

\* Steps that leave the lists alone.
LEMMA QuietInv ==
  ASSUME IInv, io' = io, made' = made, held' = held, doomed' = doomed, closing' = closing,
         frame' = frame, pc' \in [Thread -> PCs], pending' \in [Thread -> SUBSET Made],
         \A t \in Thread : FrameOK(t)', \A t \in Thread : pc[t] # "exited" => pc'[t] # "exited",
         ExitOK'
  PROVE  IInv'
<1>1. Types'
  BY StateFacts DEF Types
<1>2. ASSUME NEW x \in Made PROVE OwnerOK(x)'
  <2>1. OwnerOK(x) /\ Owner(io)[x] \in Thread \cup {Nobody}
    BY StateFacts
  <2>2. QED
    BY <2>1 DEF OwnerOK
<1>3. ListsOK(io', made')
  BY StateFacts
<1>4. QED
  BY <1>1, <1>2, <1>3 DEF IInv, ThreadsOK

LEMMA SuspendInv ==
  ASSUME IInv, Calm, NEW t \in Thread, SuspendForIO(t)
  PROVE  IInv'
<1>1. /\ pc[t] = "registered" /\ pending[t] = {} /\ pc' = [pc EXCEPT ![t] = "suspended"]
      /\ io' = io /\ made' = made /\ held' = held /\ doomed' = doomed /\ closing' = closing
      /\ frame' = frame /\ pending' = pending
  BY DEF SuspendForIO
<1>2. /\ pc \in [Thread -> PCs] /\ pending \in [Thread -> SUBSET Made]
      /\ \A u \in Thread : FrameOK(u)
  BY StateFacts
<1>3. ASSUME NEW u \in Thread PROVE FrameOK(u)'
  BY <1>1, <1>2 DEF FrameOK
<1>4. ExitOK'
  BY <1>1, <1>2 DEF ExitOK, Calm
<1>5. pc' \in [Thread -> PCs] /\ \A u \in Thread : pc[u] # "exited" => pc'[u] # "exited"
  BY <1>1, <1>2 DEF PCs
<1>6. QED
  BY <1>1, <1>2, <1>3, <1>4, <1>5, QuietInv

LEMMA HandleInv ==
  ASSUME IInv, Calm, NEW t \in Thread, HandleEvents(t)
  PROVE  IInv'
<1> DEFINE c == IF pc[t] = "suspended" \/ (pc[t] = "registered" /\ frame[t] \in pending[t])
                THEN "after" ELSE pc[t]
<1>1. /\ pc[t] \in {"run", "registered", "suspended"}
      /\ pc' = [pc EXCEPT ![t] = c] /\ pending' = [pending EXCEPT ![t] = {}]
      /\ io' = io /\ made' = made /\ held' = held /\ doomed' = doomed /\ closing' = closing
      /\ frame' = frame
  BY DEF HandleEvents
<1>2. /\ pc \in [Thread -> PCs] /\ pending \in [Thread -> SUBSET Made]
      /\ \A u \in Thread : FrameOK(u)
  BY StateFacts
<1>3. c \in {"run", "registered", "after"} /\ (c = "registered" => pc[t] = c /\ frame[t] \notin pending[t])
      /\ (c = "run" => pc[t] = c) /\ (c = "after" => pc[t] # "run")
  BY <1>1
<1> HIDE DEF c
<1>4. ASSUME NEW u \in Thread PROVE FrameOK(u)'
  <2>1. CASE u = t
    <3>1. pc'[u] = c /\ pending'[u] = {} /\ FrameOK(u)
      BY <1>1, <1>2, <2>1
    <3>2. QED
      BY <1>1, <1>3, <2>1, <3>1 DEF FrameOK
  <2>2. CASE u # t
    BY <1>1, <1>2, <2>2 DEF FrameOK
  <2>3. QED
    BY <2>1, <2>2
<1>5. ExitOK'
  BY <1>1, <1>2, <1>3 DEF ExitOK, Calm
<1>6. pc' \in [Thread -> PCs] /\ pending' \in [Thread -> SUBSET Made]
      /\ \A u \in Thread : pc[u] # "exited" => pc'[u] # "exited"
  BY <1>1, <1>2, <1>3 DEF PCs
<1>7. QED
  BY <1>1, <1>4, <1>5, <1>6, QuietInv

LEMMA InterruptedInv ==
  ASSUME IInv, Calm, NEW t \in Thread, Interrupted(t)
  PROVE  IInv'
<1>1. /\ pc[t] = "suspended" /\ pc' = [pc EXCEPT ![t] = "after"]
      /\ pending' = [pending EXCEPT ![t] = {}]
      /\ io' = io /\ made' = made /\ held' = held /\ doomed' = doomed /\ closing' = closing
      /\ frame' = frame
  BY DEF Interrupted
<1>2. /\ pc \in [Thread -> PCs] /\ pending \in [Thread -> SUBSET Made]
      /\ \A u \in Thread : FrameOK(u)
  BY StateFacts
<1>3. ASSUME NEW u \in Thread PROVE FrameOK(u)'
  BY <1>1, <1>2 DEF FrameOK
<1>4. ExitOK'
  BY <1>1, <1>2 DEF ExitOK, Calm
<1>5. pc' \in [Thread -> PCs] /\ pending' \in [Thread -> SUBSET Made]
      /\ \A u \in Thread : pc[u] # "exited" => pc'[u] # "exited"
  BY <1>1, <1>2 DEF PCs
<1>6. QED
  BY <1>1, <1>3, <1>4, <1>5, QuietInv

LEMMA ExitInv ==
  ASSUME IInv, Calm, NEW t \in Thread, ExitCurrentThread(t)
  PROVE  IInv'
<1>1. /\ pc[t] # "exited" /\ pc' = [pc EXCEPT ![t] = "unwinding"]
      /\ pending' = [pending EXCEPT ![t] = {}]
      /\ io' = io /\ made' = made /\ held' = held /\ doomed' = doomed /\ closing' = closing
      /\ frame' = frame
  BY DEF ExitCurrentThread
<1>2. /\ pc \in [Thread -> PCs] /\ pending \in [Thread -> SUBSET Made]
      /\ \A u \in Thread : FrameOK(u)
  BY StateFacts
<1>3. ASSUME NEW u \in Thread PROVE FrameOK(u)'
  BY <1>1, <1>2 DEF FrameOK
<1>4. ExitOK'
  BY <1>1, <1>2 DEF ExitOK, Calm
<1>5. pc' \in [Thread -> PCs] /\ pending' \in [Thread -> SUBSET Made]
      /\ \A u \in Thread : pc[u] # "exited" => pc'[u] # "exited"
  BY <1>1, <1>2 DEF PCs
<1>6. QED
  BY <1>1, <1>3, <1>4, <1>5, QuietInv

\* A registration that a thread has is in no frame and no variable of another.
LEMMA Private ==
  ASSUME IInv, NEW t \in Thread, NEW x \in Made, Owner(io)[x] = t, NEW u \in Thread, u # t
  PROVE  frame[u] # x /\ held[u] # x
<1>1. FrameOK(u) /\ t # Nobody /\ x # Nil
  BY StateFacts
<1>2. QED
  BY <1>1 DEF FrameOK

LEMMA DeregisterInv ==
  ASSUME IInv, Calm, NEW t \in Thread, DeregisterIOThreadEvent(t)
  PROVE  IInv'
<1> DEFINE x == held[t]
<1>1. /\ pc[t] = "run" /\ x # Nil /\ io' = Deregistered(io, x)
      /\ held' = [held EXCEPT ![t] = Nil]
      /\ made' = made /\ pc' = pc /\ frame' = frame /\ pending' = pending
      /\ doomed' = doomed /\ closing' = closing
  BY DEF DeregisterIOThreadEvent
<1>2. /\ held \in [Thread -> 0 .. made] /\ frame \in [Thread -> 0 .. made] /\ pc \in [Thread -> PCs]
      /\ x \in Made /\ made \in Nat /\ ListsOK(io, made)
      /\ Owner(io) \in [Made -> Thread \cup {Nobody}]
      /\ Owner(io)[x] \in {t, Nobody} /\ frame[t] # x
      /\ \A u \in Thread : FrameOK(u) /\ frame[u] \in Pointer /\ held[u] \in Pointer
      /\ \A y \in Made : OwnerOK(y)
  <2>1. x \in Pointer /\ FrameOK(t)
    BY StateFacts
  <2>2. Owner(io)[x] \in {t, Nobody} /\ frame[t] # x
    BY <1>1, <2>1 DEF FrameOK
  <2>3. QED
    BY <1>1, <2>1, <2>2, StateFacts
<1>3. ListsOK(io', made) /\ Owner(io') = [Owner(io) EXCEPT ![x] = Nobody]
  <2> HIDE DEF x
  <2>1. QED
    BY <1>1, <1>2, DeregisteredOwner
<1>4. Types'
  <2>1. held' \in [Thread -> 0 .. made]
    BY <1>1, <1>2 DEF Nil
  <2>2. QED
    BY <1>1, <2>1, StateFacts DEF Types
<1>5. ASSUME NEW u \in Thread PROVE FrameOK(u)'
  <2>1. \A i \in Made : Owner(io')[i] = IF i = x THEN Nobody ELSE Owner(io)[i]
    BY <1>2, <1>3
  <2>2. /\ held'[u] = IF u = t THEN Nil ELSE held[u]
        /\ FrameOK(u) /\ frame[u] \in Pointer /\ held[u] \in Pointer
    BY <1>1, <1>2
  <2>3. Owner(io)[frame[u]] = u /\ frame[u] \in Made => frame[u] # x
    BY <1>2, StateFacts
  <2>4. \A i \in Pointer : i # Nil => i \in Made
    BY DEF Pointer
  <2> HIDE DEF x
  <2>5. frame[u] # Nil => /\ Owner(io')[frame[u]] \in {u, Nobody}
                          /\ Owner(io)[frame[u]] = u => Owner(io')[frame[u]] = u
    BY <2>1, <2>2, <2>3, <2>4 DEF FrameOK
  <2>6. held'[u] # Nil => Owner(io')[held'[u]] \in {u, Nobody}
    BY <2>1, <2>2, <2>4 DEF FrameOK
  <2>7. frame[u] # Nil => frame[u] # held'[u]
    BY <2>2 DEF FrameOK
  <2>8. held'[u] # Nil => held[u] # Nil
    BY <2>2
  <2>9. QED
    BY <1>1, <2>2, <2>5, <2>6, <2>7, <2>8 DEF FrameOK
<1>6. ASSUME NEW y \in Made PROVE OwnerOK(y)'
  <2>1. CASE y = x
    BY <1>2, <1>3, <2>1 DEF OwnerOK
  <2>2. CASE y # x
    <3>1. Owner(io')[y] = Owner(io)[y] /\ OwnerOK(y) /\ Owner(io)[y] \in Thread \cup {Nobody}
      BY <1>2, <1>3, <2>2
    <3>2. QED
      BY <1>1, <1>2, <2>2, <3>1 DEF OwnerOK
  <2>3. QED
    BY <2>1, <2>2
<1>7. ExitOK'
  BY <1>1 DEF ExitOK, Calm
<1>8. QED
  BY <1>1, <1>3, <1>4, <1>5, <1>6, <1>7 DEF IInv, ThreadsOK

\* Leaving block-on-io-descriptor, by its end or by an exit.
LEMMA AfterThunkInv ==
  ASSUME IInv, NEW t \in Thread, io' = AfterThunk(io, t), frame' = [frame EXCEPT ![t] = Nil],
         pc[t] # "exited", NEW c \in {"run", "exiting"}, pc' = [pc EXCEPT ![t] = c],
         held' = held, pending' = pending, made' = made, closing' = closing,
         doomed' \in SUBSET Made
  PROVE  /\ Types' /\ ListsOK(io', made')
         /\ \A u \in Thread : FrameOK(u)'
         /\ \A x \in Made : OwnerOK(x)'
<1>1. /\ held \in [Thread -> 0 .. made] /\ frame \in [Thread -> 0 .. made] /\ pc \in [Thread -> PCs]
      /\ made \in Nat /\ Owner(io) \in [Made -> Thread \cup {Nobody}]
      /\ \A u \in Thread : FrameOK(u) /\ frame[u] \in Pointer /\ held[u] \in Pointer
      /\ \A y \in Made : OwnerOK(y)
  BY StateFacts
<1>2. /\ ListsOK(io', made)
      /\ \A x \in Made : Owner(io')[x] = IF x = frame[t] THEN Nobody ELSE Owner(io)[x]
  BY AfterThunkOwner
<1>3. Types'
  <2>1. frame' \in [Thread -> 0 .. made] /\ pc' \in [Thread -> PCs]
    BY <1>1 DEF Nil, PCs
  <2>2. QED
    BY <2>1, StateFacts DEF Types
<1>4. ASSUME NEW u \in Thread PROVE FrameOK(u)'
  <2>1. FrameOK(u) /\ FrameOK(t) /\ frame[u] \in Pointer /\ held[u] \in Pointer /\ frame[t] \in Pointer
    BY <1>1
  <2>2. \A i \in Pointer : i # Nil => i \in Made
    BY DEF Pointer
  <2>3. CASE u = t
    <3>1. frame'[u] = Nil /\ pc'[u] = c /\ held'[u] = held[u]
      BY <1>1, <2>3
    <3>2. held[u] # Nil => Owner(io')[held[u]] \in {u, Nobody}
      BY <1>2, <2>1, <2>2 DEF FrameOK
    <3>3. QED
      BY <3>1, <3>2 DEF FrameOK
  <2>4. CASE u # t
    <3>1. frame'[u] = frame[u] /\ pc'[u] = pc[u] /\ held'[u] = held[u] /\ pending'[u] = pending[u]
      BY <1>1, <2>4
    <3>2. held[u] # Nil => Owner(io')[held[u]] \in {u, Nobody}
      BY <1>2, <2>1, <2>2 DEF FrameOK
    <3>3. ASSUME frame[u] # Nil, Owner(io)[frame[u]] = u PROVE frame[u] # frame[t]
      <4>1. u # Nobody
        BY StateFacts
      <4>2. QED
        BY <2>1, <2>4, <3>3, <4>1 DEF FrameOK
    <3>4. frame[u] # Nil => /\ Owner(io')[frame[u]] \in {u, Nobody}
                            /\ Owner(io)[frame[u]] = u => Owner(io')[frame[u]] = u
      BY <1>2, <2>1, <2>2, <3>3 DEF FrameOK
    <3>5. QED
      BY <2>1, <3>1, <3>2, <3>4 DEF FrameOK
  <2>5. QED
    BY <2>3, <2>4
<1>5. ASSUME NEW y \in Made PROVE OwnerOK(y)'
  <2>1. CASE y = frame[t]
    BY <1>2, <2>1 DEF OwnerOK
  <2>2. CASE y # frame[t]
    <3>1. Owner(io')[y] = Owner(io)[y] /\ OwnerOK(y) /\ Owner(io)[y] \in Thread \cup {Nobody}
      BY <1>1, <1>2, <2>2
    <3>2. CASE Owner(io)[y] = t
      BY <1>1, <2>2, <3>1, <3>2 DEF OwnerOK
    <3>3. CASE Owner(io)[y] # t
      BY <1>1, <3>1, <3>3 DEF OwnerOK
    <3>4. QED
      BY <3>2, <3>3
  <2>3. QED
    BY <2>1, <2>2
<1>6. QED
  BY <1>2, <1>3, <1>4, <1>5

LEMMA AfterBlockInv ==
  ASSUME IInv, Calm, NEW t \in Thread, AfterBlock(t)
  PROVE  IInv'
<1>1. /\ pc[t] = "after" /\ io' = AfterThunk(io, t) /\ frame' = [frame EXCEPT ![t] = Nil]
      /\ pc' = [pc EXCEPT ![t] = "run"]
      /\ held' = held /\ pending' = pending /\ made' = made /\ closing' = closing
      /\ doomed' = doomed
  BY DEF AfterBlock
<1>2. pc[t] # "exited" /\ doomed' \in SUBSET Made
  BY <1>1, StateFacts
<1>3. /\ Types' /\ ListsOK(io', made')
      /\ \A u \in Thread : FrameOK(u)'
      /\ \A x \in Made : OwnerOK(x)'
  BY <1>1, <1>2, AfterThunkInv
<1>4. ExitOK'
  BY <1>1, StateFacts DEF ExitOK, Calm
<1>5. QED
  BY <1>3, <1>4 DEF IInv, ThreadsOK

LEMMA UnwindInv ==
  ASSUME IInv, NEW t \in Thread, Unwind(t)
  PROVE  IInv'
<1>1. /\ pc[t] = "unwinding" /\ io' = AfterThunk(io, t) /\ frame' = [frame EXCEPT ![t] = Nil]
      /\ pc' = [pc EXCEPT ![t] = "exiting"]
      /\ held' = held /\ pending' = pending /\ made' = made /\ closing' = closing
      /\ doomed' = {x \in Linked(io') : io'.tentry[x].thread = t}
  BY DEF Unwind
<1>2. ListsOK(io', made)
  BY <1>1, AfterThunkOwner
<1>3. doomed' = {x \in Made : Owner(io')[x] = t}
  <2>1. /\ Linked(io') = {x \in Made : Owner(io')[x] # Nobody} /\ t # Nobody
        /\ \A x \in Made : Owner(io')[x] = io'.tentry[x].thread
    BY <1>2, OwnerFacts, StateFacts
  <2>2. QED
    BY <1>1, <2>1
<1>4. pc[t] # "exited" /\ doomed' \in SUBSET Made
  BY <1>1, <1>3
<1>5. /\ Types' /\ ListsOK(io', made')
      /\ \A u \in Thread : FrameOK(u)'
      /\ \A x \in Made : OwnerOK(x)'
  BY <1>1, <1>4, AfterThunkInv
<1>6. ExitOK'
  <2>1. pc \in [Thread -> PCs] /\ ExitOK
    BY StateFacts
  <2>2. \A u \in Thread : pc'[u] \in {"unwinding", "exiting"} => u = t
    BY <1>1, <2>1 DEF ExitOK
  <2>3. QED
    BY <1>3, <2>2 DEF ExitOK
<1>7. QED
  BY <1>5, <1>6 DEF IInv, ThreadsOK

\* A registration is deleted that is in no frame, or whose frame is told.
LEMMA DeleteInv ==
  ASSUME IInv, NEW x \in Made, Owner(io)[x] # Nobody, io' = DeleteTentry(io, x),
         made' = made, pc' = pc, frame' = frame, held' = held, closing' = closing,
         pending' \in [Thread -> SUBSET Made], \A u \in Thread : pending[u] \subseteq pending'[u],
         frame[Owner(io)[x]] # x \/ x \in pending'[Owner(io)[x]],
         doomed' \in SUBSET Made
  PROVE  /\ Types' /\ ListsOK(io', made')
         /\ Owner(io') = [Owner(io) EXCEPT ![x] = Nobody]
         /\ \A u \in Thread : FrameOK(u)'
         /\ \A y \in Made : OwnerOK(y)'
<1>1. /\ made \in Nat /\ ListsOK(io, made) /\ Owner(io) \in [Made -> Thread \cup {Nobody}]
      /\ \A u \in Thread : FrameOK(u) /\ frame[u] \in Pointer /\ held[u] \in Pointer
      /\ \A y \in Made : OwnerOK(y)
  BY StateFacts
<1>2. ListsOK(io', made) /\ Owner(io') = [Owner(io) EXCEPT ![x] = Nobody]
  BY <1>1, DeleteOwner
<1>3. Types'
  BY StateFacts DEF Types
<1>4. \A y \in Made : Owner(io')[y] = IF y = x THEN Nobody ELSE Owner(io)[y]
  BY <1>1, <1>2
<1>5. ASSUME NEW u \in Thread PROVE FrameOK(u)'
  <2>1. FrameOK(u) /\ frame[u] \in Pointer /\ held[u] \in Pointer /\ Owner(io)[x] \in Thread
    BY <1>1
  <2>2. \A i \in Pointer : i # Nil => i \in Made
    BY DEF Pointer
  <2>3. held[u] # Nil => Owner(io')[held[u]] \in {u, Nobody}
    BY <1>4, <2>1, <2>2 DEF FrameOK
  <2>4. frame[u] # Nil => Owner(io')[frame[u]] \in {u, Nobody}
    BY <1>4, <2>1, <2>2 DEF FrameOK
  <2>5. ASSUME frame[u] # Nil, Owner(io)[frame[u]] = u \/ frame[u] \in pending[u]
        PROVE  Owner(io')[frame[u]] = u \/ frame[u] \in pending'[u]
    <3>1. CASE frame[u] = x
      <4>1. u = Owner(io)[x]
        BY <2>1, <2>5, <3>1 DEF FrameOK
      <4>2. QED
        BY <3>1, <4>1
    <3>2. CASE frame[u] # x
      BY <1>4, <2>1, <2>2, <2>5, <3>2
    <3>3. QED
      BY <3>1, <3>2
  <2>6. QED
    BY <2>1, <2>3, <2>4, <2>5 DEF FrameOK
<1>6. ASSUME NEW y \in Made PROVE OwnerOK(y)'
  BY <1>1, <1>4 DEF OwnerOK
<1>7. QED
  BY <1>2, <1>3, <1>5, <1>6

LEMMA DeregisterEventsInv ==
  ASSUME IInv, NEW t \in Thread, DeregisterIOThreadEvents(t)
  PROVE  /\ IInv' /\ LastOf(io, doomed) \in Made /\ Owner(io)[LastOf(io, doomed)] = t
<1> DEFINE x == LastOf(io, doomed)
<1>1. /\ pc[t] = "exiting" /\ doomed # {} /\ io' = DeleteTentry(io, x) /\ doomed' = doomed \ {x}
      /\ made' = made /\ pc' = pc /\ frame' = frame /\ held' = held /\ pending' = pending
      /\ closing' = closing
  BY DEF DeregisterIOThreadEvents
<1>2. /\ doomed = {y \in Made : Owner(io)[y] = t} /\ ListsOK(io, made) /\ FrameOK(t) /\ t # Nobody
      /\ pending \in [Thread -> SUBSET Made] /\ Owner(io) \in [Made -> Thread \cup {Nobody}]
  BY <1>1, StateFacts DEF ExitOK
<1>3. x \in doomed
  <2>1. \A y \in doomed : io.tentry[y].dentry # Nil
    BY <1>2, OwnerFacts
  <2>2. QED
    BY <1>1, <1>2, <2>1, LastFound
<1>4. x \in Made /\ Owner(io)[x] = t /\ frame[t] # x
  BY <1>1, <1>2, <1>3, Pointers DEF FrameOK
<1> HIDE DEF x
<1>5. doomed' \in SUBSET Made
  BY <1>1, <1>2
<1>6. /\ Types' /\ ListsOK(io', made')
      /\ Owner(io') = [Owner(io) EXCEPT ![x] = Nobody]
      /\ \A u \in Thread : FrameOK(u)'
      /\ \A y \in Made : OwnerOK(y)'
  BY <1>1, <1>2, <1>4, <1>5, DeleteInv
<1>7. ExitOK'
  <2>1. ExitOK
    BY StateFacts
  <2>2. doomed' = {y \in Made : Owner(io')[y] = t}
    BY <1>1, <1>2, <1>4, <1>6
  <2>3. QED
    BY <1>1, <2>1, <2>2 DEF ExitOK
<1>8. IInv'
  BY <1>6, <1>7 DEF IInv, ThreadsOK
<1>9. QED
  BY <1>4, <1>8 DEF x

LEMMA DeadInv ==
  ASSUME IInv, NEW t \in Thread, ThreadIsDead(t)
  PROVE  IInv'
<1>1. /\ pc[t] = "exiting" /\ doomed = {} /\ pc' = [pc EXCEPT ![t] = "exited"]
      /\ held' = [held EXCEPT ![t] = Nil]
      /\ io' = io /\ made' = made /\ frame' = frame /\ pending' = pending /\ doomed' = doomed
      /\ closing' = closing
  BY DEF ThreadIsDead
<1>2. /\ pc \in [Thread -> PCs] /\ held \in [Thread -> 0 .. made] /\ made \in Nat /\ ExitOK
      /\ \A u \in Thread : FrameOK(u)
      /\ \A y \in Made : OwnerOK(y) /\ Owner(io)[y] \in Thread \cup {Nobody}
  BY StateFacts
<1>3. \A y \in Made : Owner(io)[y] # t
  <2>1. doomed = {y \in Made : Owner(io)[y] = t}
    BY <1>1, <1>2 DEF ExitOK
  <2>2. QED
    BY <1>1, <2>1
<1>4. Types'
  <2>1. pc' \in [Thread -> PCs] /\ held' \in [Thread -> 0 .. made]
    BY <1>1, <1>2 DEF PCs, Nil
  <2>2. QED
    BY <1>1, <2>1, StateFacts DEF Types
<1>5. ASSUME NEW u \in Thread PROVE FrameOK(u)'
  BY <1>1, <1>2 DEF FrameOK
<1>6. ASSUME NEW y \in Made PROVE OwnerOK(y)'
  BY <1>1, <1>2, <1>3 DEF OwnerOK
<1>7. ExitOK'
  BY <1>1, <1>2 DEF ExitOK
<1>8. ListsOK(io', made')
  BY <1>1, StateFacts
<1>9. QED
  BY <1>4, <1>5, <1>6, <1>7, <1>8 DEF IInv, ThreadsOK

\* The registration that a report of a descriptor wakes.
LEMMA FirstFound ==
  ASSUME IInv, NEW d, NEW modes, Matching(io, d, modes) # {}
  PROVE  LET e == FirstOf(io, Matching(io, d, modes))
             x == FirstTentry(e)
         IN  /\ e \in Used(io) /\ e \in Made /\ x \in On(io, e)
             /\ io.dentry[e].descriptor = d /\ io.dentry[e].mode \in modes
             /\ x \in Made /\ Owner(io)[x] # Nobody /\ Owner(io)[x] = io.tentry[x].thread
             /\ \A y \in On(io, e) : x <= y
<1> DEFINE e == FirstOf(io, Matching(io, d, modes))
           x == FirstTentry(e)
<1>1. ListsOK(io, made)
  BY StateFacts
<1>2. /\ e \in Used(io) /\ e \in Made /\ io.dentry[e].descriptor = d
      /\ io.dentry[e].mode \in modes
  BY <1>1, SearchFinds
<1> HIDE DEF e
<1>3. x = io.dentry[e].first
  BY DEF FirstTentry
<1> HIDE DEF x
<1>4. /\ On(io, e) \in SUBSET Made /\ On(io, e) # {} /\ e # Nil
      /\ IsAbove(x, 0, On(io, e))
  BY <1>1, <1>2, <1>3, ListsTypes DEF ListsOK, DentryOK
<1>5. x \in On(io, e) /\ x # Nil
  BY <1>4, EndsExist
<1>6. x \in Made /\ Owner(io)[x] # Nobody /\ Owner(io)[x] = io.tentry[x].thread
  BY <1>1, <1>4, <1>5, OwnerFacts DEF On
<1>7. \A y \in On(io, e) : x <= y
  <2>1. \A y \in On(io, e) : 0 < y
    BY <1>4, Pointers
  <2>2. QED
    BY <1>4, <1>5, <2>1 DEF IsAbove
<1>8. QED
  BY <1>2, <1>5, <1>6, <1>7 DEF e, x

LEMMA SignalInv ==
  ASSUME IInv, Calm, NEW d, NEW modes, SignalIOThreadEvents(d, modes)
  PROVE  IInv'
<1> DEFINE x == FirstTentry(FirstOf(io, Matching(io, d, modes)))
           t == Owner(io)[x]
<1>1. /\ Matching(io, d, modes) # {}
      /\ pending' = [pending EXCEPT ![io.tentry[x].thread] = @ \cup {x}]
      /\ io' = DeleteTentry(io, x)
      /\ made' = made /\ pc' = pc /\ frame' = frame /\ held' = held /\ doomed' = doomed
      /\ closing' = closing
  BY DEF SignalIOThreadEvents
<1>2. x \in Made /\ t # Nobody /\ t = io.tentry[x].thread
  BY <1>1, FirstFound
<1>3. /\ Owner(io) \in [Made -> Thread \cup {Nobody}] /\ pending \in [Thread -> SUBSET Made]
      /\ doomed \in SUBSET Made
  BY StateFacts
<1> HIDE DEF x
<1>4. t \in Thread
  BY <1>2, <1>3
<1>5. pending' = [pending EXCEPT ![t] = pending[t] \cup {x}]
  BY <1>1, <1>2, <1>3, <1>4
<1>6. /\ pending' \in [Thread -> SUBSET Made] /\ \A u \in Thread : pending[u] \subseteq pending'[u]
      /\ x \in pending'[t]
  <2> HIDE DEF t
  <2>1. QED
    BY <1>2, <1>3, <1>4, <1>5
<1>7. /\ Types' /\ ListsOK(io', made')
      /\ \A u \in Thread : FrameOK(u)'
      /\ \A y \in Made : OwnerOK(y)'
  BY <1>1, <1>2, <1>3, <1>6, DeleteInv
<1>8. ExitOK'
  BY <1>1 DEF ExitOK, Calm
<1>9. QED
  BY <1>7, <1>8 DEF IInv, ThreadsOK

LEMMA NextInv == IInv /\ [Next]_vars => IInv'
<1> SUFFICES ASSUME IInv, [Next]_vars PROVE IInv'
  OBVIOUS
<1>1. ASSUME NEW t \in Thread, Calm, ThreadStep(t) PROVE IInv'
  <2>1. ASSUME NEW d \in Descriptor, NEW m \in Mode,
               RegisterIOThreadEvent(t, d, m) \/ BlockOnIODescriptor(t, d, m)
        PROVE  IInv'
    BY <1>1, <2>1, RegisterInv, BlockInv
  <2>2. QED
    BY <1>1, <2>1, DeregisterInv, SuspendInv, HandleInv, InterruptedInv, AfterBlockInv, ExitInv
       DEF ThreadStep
<1>2. ASSUME Calm, NEW d \in Descriptor, NEW modes \in ReportedModes(d),
             SignalIOThreadEvents(d, modes)
      PROVE  IInv'
  BY <1>2, SignalInv
<1>3. ASSUME NEW t \in Thread, Unwind(t) \/ DeregisterIOThreadEvents(t) \/ ThreadIsDead(t)
      PROVE  IInv'
  BY <1>3, UnwindInv, DeregisterEventsInv, DeadInv
<1>4. CASE UNCHANGED vars
  <2>1. /\ io' = io /\ made' = made /\ pc' = pc /\ frame' = frame /\ held' = held
        /\ pending' = pending /\ doomed' = doomed /\ closing' = closing
    BY <1>4 DEF vars
  <2>2. QED
    BY <2>1 DEF IInv, Types, ThreadsOK, FrameOK, OwnerOK, ExitOK
<1>5. QED
  BY <1>1, <1>2, <1>3, <1>4 DEF Next

-----------------------------------------------------------------------------
(* The theorems. *)

\* Every procedure that registers, signals or withdraws keeps the order of the lists, and what
\* every thread's frame, variable and exit know of them: the invariant of the results below.
THEOREM RegistrationsIInv == Spec => []IInv
  BY InitInv, NextInv, PTL DEF Spec

\* Two cells next to each other in an ordered set point to each other.
LEMMA Neighbours ==
  ASSUME NEW S \in SUBSET Made, NEW up \in [S -> Pointer], NEW down \in [S -> Pointer],
         \A x \in S : IsAbove(up[x], x, S) /\ IsBelow(down[x], x, S), NEW x \in S
  PROVE  /\ up[x] # Nil => up[x] \in S /\ down[up[x]] = x
         /\ down[x] # Nil => down[x] \in S /\ up[down[x]] = x
<1>1. IsAbove(up[x], x, S) /\ IsBelow(down[x], x, S) /\ up[x] \in Pointer /\ down[x] \in Pointer
  OBVIOUS
<1>2. ASSUME up[x] # Nil PROVE up[x] \in S /\ down[up[x]] = x
  <2>1. up[x] \in S
    BY <1>1, <1>2 DEF IsAbove
  <2>2. IsBelow(down[up[x]], up[x], S) /\ down[up[x]] \in Pointer
    BY <2>1
  <2>3. QED
    BY <1>1, <2>1, <2>2, UpAndDown
<1>3. ASSUME down[x] # Nil PROVE down[x] \in S /\ up[down[x]] = x
  <2>1. down[x] \in S
    BY <1>1, <1>3 DEF IsBelow
  <2>2. IsAbove(up[down[x]], down[x], S) /\ up[down[x]] \in Pointer
    BY <2>1
  <2>3. QED
    BY <1>1, <2>1, <2>2, UpAndDown
<1>4. QED
  BY <1>2, <1>3

LEMMA DentryLinks ==
  ASSUME NEW h, NEW n, ListsOK(h, n), NEW d \in Used(h)
  PROVE  LET dentry == h.dentry[d]
         IN  /\ dentry.prev = Nil <=> d = h.head
             /\ dentry.prev # Nil => dentry.prev \in Used(h) /\ h.dentry[dentry.prev].next = d
             /\ dentry.next # Nil => h.dentry[dentry.next].prev = d
             /\ dentry.first # Nil /\ dentry.last \in On(h, d)
<1> DEFINE U == Used(h)
           up == [e \in U |-> h.dentry[e].prev]
           down == [e \in U |-> h.dentry[e].next]
<1>1. /\ h \in ListsType /\ U \in SUBSET Made /\ h.head \in Pointer /\ IsBelow(h.head, Top, U)
      /\ \A e \in U : h.dentry[e].prev \in Pointer /\ h.dentry[e].next \in Pointer
      /\ \A e \in U : DentryOK(h, e)
      /\ On(h, d) \in SUBSET Made /\ On(h, d) # {}
  BY ListsTypes DEF ListsOK
<1>2. up \in [U -> Pointer] /\ down \in [U -> Pointer]
  BY <1>1
<1>3. \A e \in U : IsAbove(up[e], e, U) /\ IsBelow(down[e], e, U)
  BY <1>1 DEF DentryOK
<1>4. /\ up[d] # Nil => up[d] \in U /\ down[up[d]] = d
      /\ down[d] # Nil => down[d] \in U /\ up[down[d]] = d
  <2>1. d \in U
    OBVIOUS
  <2> HIDE DEF up, down, U
  <2>2. QED
    BY <1>1, <1>2, <1>3, <2>1, Neighbours
<1>5. /\ h.dentry[d].prev # Nil => h.dentry[d].prev \in U /\ h.dentry[h.dentry[d].prev].next = d
      /\ h.dentry[d].next # Nil => h.dentry[h.dentry[d].next].prev = d
  BY <1>4
<1>6. h.dentry[d].prev = Nil <=> d = h.head
  <2>1. IsAbove(h.dentry[d].prev, d, U) /\ h.dentry[d].prev \in Pointer
    BY <1>1 DEF DentryOK
  <2> HIDE DEF U
  <2>2. d \in U
    BY DEF U
  <2>3. QED
    BY <1>1, <2>1, <2>2, GreatestHasNoneAbove
<1>7. h.dentry[d].first # Nil /\ h.dentry[d].last \in On(h, d)
  <2>1. IsAbove(h.dentry[d].first, 0, On(h, d)) /\ IsBelow(h.dentry[d].last, Top, On(h, d))
    BY <1>1 DEF DentryOK
  <2>2. QED
    BY <1>1, <2>1, EndsExist
<1>8. QED
  BY <1>5, <1>6, <1>7

LEMMA TentryLinks ==
  ASSUME NEW h, NEW n, ListsOK(h, n), NEW d \in Used(h), NEW x \in On(h, d)
  PROVE  LET tentry == h.tentry[x]
         IN  /\ tentry.dentry = d /\ tentry.thread \in Thread
             /\ tentry.prev = Nil <=> x = h.dentry[d].first
             /\ tentry.next = Nil <=> x = h.dentry[d].last
             /\ tentry.prev # Nil => tentry.prev \in On(h, d) /\ h.tentry[tentry.prev].next = x
             /\ tentry.next # Nil => h.tentry[tentry.next].prev = x
<1> DEFINE S == On(h, d)
           up == [y \in S |-> h.tentry[y].next]
           down == [y \in S |-> h.tentry[y].prev]
<1>1. /\ h \in ListsType /\ d \in Made /\ d # Nil /\ DentryOK(h, d) /\ S \in SUBSET Made
      /\ \A y \in S : h.tentry[y].next \in Pointer /\ h.tentry[y].prev \in Pointer
      /\ h.dentry[d].first \in Pointer /\ h.dentry[d].last \in Pointer
  BY ListsTypes DEF ListsOK
<1>2. \A y \in S : h.tentry[y].dentry = d /\ y \in Made
  BY DEF On
<1>3. \A y \in S : /\ h.tentry[y].thread \in Thread
                   /\ IsAbove(h.tentry[y].next, y, S) /\ IsBelow(h.tentry[y].prev, y, S)
  <2> SUFFICES ASSUME NEW y \in S
               PROVE  /\ h.tentry[y].thread \in Thread
                      /\ IsAbove(h.tentry[y].next, y, S) /\ IsBelow(h.tentry[y].prev, y, S)
    OBVIOUS
  <2>1. TentryOK(h, y)
    BY <1>1, <1>2 DEF ListsOK
  <2>2. QED
    BY <1>2, <2>1 DEF TentryOK
<1>4. up \in [S -> Pointer] /\ down \in [S -> Pointer]
  BY <1>1
<1>5. \A y \in S : IsAbove(up[y], y, S) /\ IsBelow(down[y], y, S)
  BY <1>3
<1>6. /\ up[x] # Nil => up[x] \in S /\ down[up[x]] = x
      /\ down[x] # Nil => down[x] \in S /\ up[down[x]] = x
  <2> HIDE DEF up, down, S
  <2>1. x \in S
    BY DEF S
  <2>2. QED
    BY <1>1, <1>4, <1>5, <2>1, Neighbours
<1>7. /\ h.tentry[x].prev # Nil => h.tentry[x].prev \in S /\ h.tentry[h.tentry[x].prev].next = x
      /\ h.tentry[x].next # Nil => h.tentry[h.tentry[x].next].prev = x
  BY <1>6
<1>8. x \in S
  OBVIOUS
<1>9. IsAbove(h.dentry[d].first, 0, S) /\ IsBelow(h.dentry[d].last, Top, S)
  BY <1>1 DEF DentryOK
<1> HIDE DEF S, up, down
<1>10. h.tentry[x].prev = Nil <=> x = h.dentry[d].first
  BY <1>1, <1>3, <1>8, <1>9, LeastHasNoneBelow
<1>11. h.tentry[x].next = Nil <=> x = h.dentry[d].last
  BY <1>1, <1>3, <1>8, <1>9, GreatestHasNoneAbove
<1>12. QED
  BY <1>2, <1>3, <1>7, <1>8, <1>10, <1>11 DEF S

LEMMA IInvLists == IInv => ListsInv
<1> SUFFICES ASSUME IInv PROVE ListsInv
  OBVIOUS
<1>1. ListsOK(io, made) /\ Dentries(io) = Used(io)
  BY StateFacts, ReachDentries
<1>2. \A d \in Used(io) : Tentries(io, d) = On(io, d)
  BY <1>1, ReachTentries
<1>3. \A d, e \in Used(io) : /\ io.dentry[d].descriptor = io.dentry[e].descriptor
                             /\ io.dentry[d].mode = io.dentry[e].mode
                             => d = e
  BY <1>1 DEF ListsOK, Distinct
<1>4. WellLinked
  <2>1. ASSUME NEW d \in Used(io)
        PROVE  LET dentry == io.dentry[d]
               IN  /\ dentry.prev = Nil <=> d = io.head
                   /\ dentry.prev # Nil => dentry.prev \in Used(io) /\ io.dentry[dentry.prev].next = d
                   /\ dentry.next # Nil => io.dentry[dentry.next].prev = d
                   /\ dentry.first # Nil /\ dentry.last \in On(io, d)
    BY <1>1, DentryLinks
  <2>2. ASSUME NEW d \in Used(io), NEW x \in On(io, d)
        PROVE  LET tentry == io.tentry[x]
               IN  /\ tentry.dentry = d /\ tentry.thread \in Thread
                   /\ tentry.prev = Nil <=> x = io.dentry[d].first
                   /\ tentry.next = Nil <=> x = io.dentry[d].last
                   /\ tentry.prev # Nil => tentry.prev \in On(io, d) /\ io.tentry[tentry.prev].next = x
                   /\ tentry.next # Nil => io.tentry[tentry.next].prev = x
    BY <1>1, TentryLinks
  <2>3. QED
    BY <1>1, <1>2, <1>3, <2>1, <2>2 DEF WellLinked
<1>5. RegistryAgrees
  BY <1>1 DEF ListsOK, Polled, RegistryAgrees
<1>6. QED
  BY <1>4, <1>5 DEF ListsInv

LEMMA IInvRegistrations == IInv => RegistrationsInv
<1> SUFFICES ASSUME IInv PROVE RegistrationsInv
  OBVIOUS
<1>1. /\ ListsOK(io, made) /\ Linked(io) = {x \in Made : Owner(io)[x] # Nobody}
      /\ \A t \in Thread : FrameOK(t) /\ frame[t] \in Pointer /\ t # Nobody
      /\ \A x \in Made : OwnerOK(x)
  BY StateFacts
<1>2. \A x \in Made : Owner(io)[x] = io.tentry[x].thread
  BY <1>1, OwnerFacts
<1>3. ASSUME NEW t \in Thread, pc[t] = "suspended"
      PROVE  frame[t] \in Linked(io) \/ frame[t] \in pending[t]
  <2>1. frame[t] \in Made /\ (Owner(io)[frame[t]] = t \/ frame[t] \in pending[t])
    BY <1>1, <1>3 DEF FrameOK, Pointer
  <2>2. QED
    BY <1>1, <2>1
<1>4. ASSUME NEW x \in Linked(io)
      PROVE  LET t == io.tentry[x].thread IN pc[t] # "exited" /\ x \in {frame[t], held[t]}
  BY <1>1, <1>2 DEF OwnerOK
<1>5. QED
  BY <1>3, <1>4 DEF RegistrationsInv, WaiterRegistered, NoStrayRegistration

\* However registrations are made, signalled and withdrawn, the lists are well formed and
\* the descriptors that the system polls are the ones that have registrations.
THEOREM ListsHold == Spec => []ListsInv
<1>1. IInv => ListsInv
  BY IInvLists
<1>2. QED
  BY <1>1, RegistrationsIInv, PTL

\* A thread suspended in block-on-io-descriptor can be woken, and no registration outlives
\* its thread or the frame or variable that could withdraw it.
THEOREM RegistrationsHold == Spec => []RegistrationsInv
<1>1. IInv => RegistrationsInv
  BY IInvRegistrations
<1>2. QED
  BY <1>1, RegistrationsIInv, PTL

-----------------------------------------------------------------------------
(* The refinement. *)

\* A registration as IOWaiters sees it.
Entry(h, x) ==
  [ticket |-> x, thread |-> h.tentry[x].thread,
   descriptor |-> h.dentry[h.tentry[x].dentry].descriptor,
   mode |-> h.dentry[h.tentry[x].dentry].mode]
WaitingIn(h) == {Entry(h, x) : x \in Linked(h)}

LEMMA WaitingEntries == Waiting = WaitingIn(io) /\ Waiting' = WaitingIn(io')
  BY DEF Waiting, WaitingIn, Entry

LEMMA Tickets == \A h : \A x, y : Entry(h, x).ticket = x /\ (Entry(h, x) = Entry(h, y) => x = y)
  BY DEF Entry

LEMMA DeleteWaiting ==
  ASSUME NEW h, NEW n \in Nat, ListsOK(h, n), NEW x \in Made, Owner(h)[x] # Nobody,
         NEW k, k = DeleteTentry(h, x)
  PROVE  Entry(h, x) \in WaitingIn(h) /\ WaitingIn(k) = WaitingIn(h) \ {Entry(h, x)}
<1>1. h.tentry[x].dentry # Nil /\ Linked(h) = {y \in Made : Owner(h)[y] # Nobody}
      /\ Owner(h) \in [Made -> Thread \cup {Nobody}]
      /\ \A y \in Made : h.tentry[y].dentry # Nil <=> Owner(h)[y] # Nobody
  BY OwnerFacts
<1>2. /\ ListsOK(k, n) /\ Owner(k) = [Owner(h) EXCEPT ![x] = Nobody]
      /\ \A y \in Made \ {x} : /\ k.tentry[y].dentry = h.tentry[y].dentry
                               /\ k.tentry[y].thread = h.tentry[y].thread
      /\ \A d \in Made : /\ k.dentry[d].descriptor = h.dentry[d].descriptor
                         /\ k.dentry[d].mode = h.dentry[d].mode
  BY <1>1, DeleteOwner, DeleteTentryLists
<1>3. Linked(k) = Linked(h) \ {x} /\ x \in Linked(h)
  <2>1. Linked(k) = {y \in Made : Owner(k)[y] # Nobody}
    BY <1>2, OwnerFacts
  <2>2. \A y \in Made : Owner(k)[y] = IF y = x THEN Nobody ELSE Owner(h)[y]
    BY <1>1, <1>2
  <2>3. QED
    BY <1>1, <2>1, <2>2
<1>4. ASSUME NEW y \in Linked(k) PROVE Entry(k, y) = Entry(h, y)
  <2>1. y \in Made \ {x} /\ h.tentry[y].dentry # Nil
    BY <1>1, <1>3
  <2>2. h.tentry[y].dentry \in Made
    BY <2>1, ListsTypes DEF ListsOK, Pointer
  <2>3. QED
    BY <1>2, <2>1, <2>2 DEF Entry
<1>5. WaitingIn(k) = {Entry(h, y) : y \in Linked(h) \ {x}}
  BY <1>3, <1>4 DEF WaitingIn
<1>6. QED
  BY <1>3, <1>5, Tickets DEF WaitingIn

LEMMA RegisterWaiting ==
  ASSUME NEW h, NEW n \in Nat, ListsOK(h, n), n + 1 \in Made, NEW t \in Thread,
         NEW d \in Descriptor, NEW m \in Mode, NEW k, k = Registered(h, n + 1, t, d, m)
  PROVE  WaitingIn(k) = WaitingIn(h)
           \cup {[ticket |-> n + 1, thread |-> t, descriptor |-> d, mode |-> m]}
<1> DEFINE x == n + 1
<1>1. /\ x \in Made /\ ListsOK(k, x) /\ Owner(k) = [Owner(h) EXCEPT ![x] = t]
      /\ \E e \in Made : /\ Added(h, k, x, t, e)
                         /\ k.dentry[e].descriptor = d /\ k.dentry[e].mode = m
  BY RegisteredOwner, RegisteredLists
<1>2. x = n + 1
  OBVIOUS
<1> HIDE DEF x
<1>3. PICK e \in Made : Added(h, k, x, t, e) /\ k.dentry[e].descriptor = d /\ k.dentry[e].mode = m
  BY <1>1
<1>4. /\ Owner(h) \in [Made -> Thread \cup {Nobody}]
      /\ Linked(h) = {y \in Made : Owner(h)[y] # Nobody}
      /\ \A y \in Made : h.tentry[y].dentry # Nil <=> Owner(h)[y] # Nobody
      /\ h.tentry[x].dentry = Nil
  BY <1>1, <1>2, OwnerFacts, Older
<1>5. Linked(k) = Linked(h) \cup {x} /\ x \notin Linked(h)
  <2>1. Linked(k) = {y \in Made : Owner(k)[y] # Nobody} /\ t # Nobody
    BY <1>1, OwnerFacts, IOAssumption
  <2>2. \A y \in Made : Owner(k)[y] = IF y = x THEN t ELSE Owner(h)[y]
    BY <1>1, <1>4
  <2>3. QED
    BY <1>1, <1>4, <2>1, <2>2
<1>6. ASSUME NEW y \in Linked(h) PROVE Entry(k, y) = Entry(h, y)
  <2>1. y \in Made \ {x} /\ h.tentry[y].dentry # Nil
    BY <1>4, <1>5
  <2>2. h.tentry[y].dentry \in Used(h)
    BY <2>1, ListsTypes DEF ListsOK
  <2>3. QED
    BY <1>3, <2>1, <2>2 DEF Added, Entry
<1>7. Entry(k, x) = [ticket |-> x, thread |-> t, descriptor |-> d, mode |-> m]
  BY <1>3 DEF Added, Entry
<1>8. WaitingIn(k) = {Entry(h, y) : y \in Linked(h)} \cup {Entry(k, x)}
  BY <1>5, <1>6 DEF WaitingIn
<1>9. QED
  BY <1>2, <1>7, <1>8 DEF WaitingIn

\* A withdrawal.
LEMMA LeaveStep ==
  ASSUME IInv, NEW x \in Made, Owner(io)[x] # Nobody, io' = DeleteTentry(io, x),
         made' = made, pending' = pending
  PROVE  Waiters!Next
<1>1. Entry(io, x) \in Waiting /\ Waiting' = Waiting \ {Entry(io, x)}
  BY DeleteWaiting, WaitingEntries, StateFacts
<1>2. QED
  BY <1>1 DEF Waiters!Next, Waiters!Leave

LEMMA WithdrawStep ==
  ASSUME IInv, NEW x \in Made, io' = Deregistered(io, x), made' = made, pending' = pending
  PROVE  [Waiters!Next]_Waiters!vars
<1>1. CASE io.tentry[x].dentry = Nil
  <2>1. io' = io
    BY <1>1 DEF Deregistered
  <2>2. Waiting' = Waiting
    BY <2>1, WaitingEntries
  <2>3. QED
    BY <2>2 DEF Waiters!vars
<1>2. CASE io.tentry[x].dentry # Nil
  <2>1. io' = DeleteTentry(io, x) /\ Owner(io)[x] # Nobody
    BY <1>2, OwnerFacts, StateFacts DEF Deregistered
  <2>2. QED
    BY <2>1, LeaveStep
<1>3. QED
  BY <1>1, <1>2

LEMMA AfterThunkStep ==
  ASSUME IInv, NEW t \in Thread, io' = AfterThunk(io, t), made' = made, pending' = pending
  PROVE  [Waiters!Next]_Waiters!vars
<1>1. CASE frame[t] # Nil /\ io.tentry[frame[t]].thread = t
  <2>1. frame[t] \in Made /\ io' = Deregistered(io, frame[t])
    BY <1>1, StateFacts DEF AfterThunk
  <2>2. QED
    BY <2>1, WithdrawStep
<1>2. CASE ~(frame[t] # Nil /\ io.tentry[frame[t]].thread = t)
  <2>1. io' = io
    BY <1>2 DEF AfterThunk
  <2>2. Waiting' = Waiting
    BY <2>1, WaitingEntries
  <2>3. QED
    BY <2>2 DEF Waiters!vars
<1>3. QED
  BY <1>1, <1>2

LEMMA JoinStep ==
  ASSUME IInv, NEW t \in Thread, NEW d \in Descriptor, NEW m \in Mode, NewRegistration(t, d, m),
         pending' = pending
  PROVE  Waiters!Next
<1>1. made < MaxRegistrations /\ made' = made + 1 /\ io' = Registered(io, made + 1, t, d, m)
  BY DEF NewRegistration
<1>2. made \in Nat /\ ListsOK(io, made) /\ made + 1 \in Made
  BY <1>1, StateFacts, RegistrationMade
<1>3. Waiting' = Waiting
        \cup {[ticket |-> made + 1, thread |-> t, descriptor |-> d, mode |-> m]}
  BY <1>1, <1>2, RegisterWaiting, WaitingEntries
<1>4. Waiters!Join(t, d, m)
  BY <1>1, <1>3 DEF Waiters!Join
<1>5. QED
  BY <1>4 DEF Waiters!Next

LEMMA SeeStep ==
  ASSUME NEW t \in Thread, io' = io, made' = made, pending' = [pending EXCEPT ![t] = {}]
  PROVE  Waiters!Next
<1>1. Waiting' = Waiting
  BY WaitingEntries
<1>2. QED
  BY <1>1 DEF Waiters!Next, Waiters!See

\* A report of a descriptor wakes the registration that was made first.
LEMMA WakeStep ==
  ASSUME IInv, NEW d \in Descriptor, NEW modes, SignalIOThreadEvents(d, modes)
  PROVE  Waiters!Next
<1> DEFINE e == FirstOf(io, Matching(io, d, modes))
           x == FirstTentry(e)
           r == Entry(io, x)
           m == io.dentry[e].mode
           line == {q \in Waiting : q.descriptor = d /\ q.mode = m}
<1>1. /\ Matching(io, d, modes) # {}
      /\ pending' = [pending EXCEPT ![io.tentry[x].thread] = @ \cup {x}]
      /\ io' = DeleteTentry(io, x) /\ made' = made
  BY DEF SignalIOThreadEvents
<1>2. /\ e \in Used(io) /\ e \in Made /\ x \in On(io, e)
      /\ io.dentry[e].descriptor = d
      /\ x \in Made /\ Owner(io)[x] # Nobody
      /\ \A y \in On(io, e) : x <= y
  BY <1>1, FirstFound
<1>3. /\ ListsOK(io, made) /\ made \in Nat /\ Distinct(io) /\ io \in ListsType /\ m \in Mode
  BY <1>2, StateFacts, ListsTypes DEF ListsOK
<1> HIDE DEF e, x
<1>4. io.tentry[x].dentry = e
  BY <1>2 DEF On
<1>5. r.ticket = x /\ r.thread = io.tentry[x].thread /\ r.descriptor = d /\ r.mode = m
  BY <1>2, <1>4 DEF Entry
<1>6. r \in Waiting /\ Waiting' = Waiting \ {r}
  BY <1>1, <1>2, <1>3, DeleteWaiting, WaitingEntries
<1>7. r \in line
  BY <1>5, <1>6
<1>8. ASSUME NEW q \in line PROVE r.ticket <= q.ticket
  <2>1. PICK y \in Linked(io) : q = Entry(io, y)
    BY WaitingEntries DEF WaitingIn
  <2>2. /\ y \in Made /\ io.tentry[y].dentry \in Used(io) /\ y \in On(io, io.tentry[y].dentry)
    <3>1. y \in Made /\ io.tentry[y].dentry # Nil
      BY <1>3, ReachLinked
    <3>2. QED
      BY <1>3, <3>1, ListsTypes
  <2>3. /\ q.ticket = y /\ io.dentry[io.tentry[y].dentry].descriptor = d
        /\ io.dentry[io.tentry[y].dentry].mode = m
    BY <2>1 DEF Entry
  <2>4. io.tentry[y].dentry = e
    BY <1>2, <1>3, <2>2, <2>3 DEF Distinct
  <2>5. QED
    BY <1>2, <1>5, <2>2, <2>3, <2>4
<1> HIDE DEF r, line
<1>9. pending' = [pending EXCEPT ![r.thread] = @ \cup {r.ticket}]
  BY <1>1, <1>5
<1>10. Waiters!Wake(d, m)
  BY <1>1, <1>6, <1>7, <1>8, <1>9 DEF Waiters!Wake, line
<1>11. QED
  BY <1>3, <1>10 DEF Waiters!Next

LEMMA StillStep ==
  ASSUME io' = io, made' = made, pending' = pending
  PROVE  UNCHANGED Waiters!vars
<1>1. Waiting' = Waiting
  BY WaitingEntries
<1>2. QED
  BY <1>1 DEF Waiters!vars

LEMMA RefinementInit == Init => Waiters!Init
<1> SUFFICES ASSUME Init PROVE Waiters!Init
  OBVIOUS
<1>1. IInv
  BY InitInv
<1>2. Linked(io) = {}
  <2>1. ListsOK(io, made) /\ \A x \in Made : io.tentry[x].dentry = Nil
    BY <1>1, StateFacts DEF Init, FreeTentry
  <2>2. QED
    BY <2>1, ReachLinked
<1>3. Waiting = {}
  BY <1>2 DEF Waiting
<1>4. QED
  BY <1>3 DEF Init, Waiters!Init

LEMMA RefinementNext == IInv /\ [Next]_vars => [Waiters!Next]_Waiters!vars
<1> SUFFICES ASSUME IInv, [Next]_vars PROVE [Waiters!Next]_Waiters!vars
  OBVIOUS
<1>1. ASSUME NEW t \in Thread, NEW d \in Descriptor, NEW m \in Mode,
             RegisterIOThreadEvent(t, d, m) \/ BlockOnIODescriptor(t, d, m)
      PROVE  Waiters!Next
  <2>1. NewRegistration(t, d, m) /\ pending' = pending
    BY <1>1 DEF RegisterIOThreadEvent, BlockOnIODescriptor
  <2>2. QED
    BY <2>1, JoinStep
<1>2. ASSUME NEW t \in Thread, DeregisterIOThreadEvent(t) PROVE [Waiters!Next]_Waiters!vars
  <2>1. held[t] \in Made /\ io' = Deregistered(io, held[t]) /\ made' = made /\ pending' = pending
    BY <1>2, StateFacts DEF DeregisterIOThreadEvent
  <2>2. QED
    BY <2>1, WithdrawStep
<1>3. ASSUME NEW t \in Thread, SuspendForIO(t) \/ ThreadIsDead(t)
      PROVE  [Waiters!Next]_Waiters!vars
  <2>1. io' = io /\ made' = made /\ pending' = pending
    BY <1>3 DEF SuspendForIO, ThreadIsDead
  <2>2. QED
    BY <2>1, StillStep
<1>4. ASSUME NEW t \in Thread, HandleEvents(t) \/ Interrupted(t) \/ ExitCurrentThread(t)
      PROVE  Waiters!Next
  <2>1. io' = io /\ made' = made /\ pending' = [pending EXCEPT ![t] = {}]
    BY <1>4 DEF HandleEvents, Interrupted, ExitCurrentThread
  <2>2. QED
    BY <2>1, SeeStep
<1>5. ASSUME NEW t \in Thread, AfterBlock(t) \/ Unwind(t) PROVE [Waiters!Next]_Waiters!vars
  <2>1. io' = AfterThunk(io, t) /\ made' = made /\ pending' = pending
    BY <1>5 DEF AfterBlock, Unwind
  <2>2. QED
    BY <2>1, AfterThunkStep
<1>6. ASSUME NEW t \in Thread, DeregisterIOThreadEvents(t) PROVE Waiters!Next
  <2> DEFINE x == LastOf(io, doomed)
  <2>1. x \in Made /\ Owner(io)[x] # Nobody
    BY <1>6, DeregisterEventsInv, StateFacts
  <2>2. io' = DeleteTentry(io, x) /\ made' = made /\ pending' = pending
    BY <1>6 DEF DeregisterIOThreadEvents
  <2> HIDE DEF x
  <2>3. QED
    BY <2>1, <2>2, LeaveStep
<1>7. ASSUME NEW d \in Descriptor, NEW modes, SignalIOThreadEvents(d, modes) PROVE Waiters!Next
  BY <1>7, WakeStep
<1>8. CASE UNCHANGED vars
  BY <1>8, StillStep DEF vars
<1>9. QED
  BY <1>1, <1>2, <1>3, <1>4, <1>5, <1>6, <1>7, <1>8 DEF Next, ThreadStep

\* The lists implement IOWaiters: whatever was withdrawn in between, a report of a descriptor
\* wakes the registration for it that was made first, once, and nothing else wakes one.
THEOREM WaitersRefined == Spec => WaitersSpec
<1>1. Init => Waiters!Init
  BY RefinementInit
<1>2. IInv /\ [Next]_vars => [Waiters!Next]_Waiters!vars
  BY RefinementNext
<1>3. QED
  BY <1>1, <1>2, RegistrationsIInv, PTL DEF Spec, WaitersSpec, Waiters!Spec

=============================================================================
