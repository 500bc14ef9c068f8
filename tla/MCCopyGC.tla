------------------------------ MODULE MCCopyGC ------------------------------
(* Instances of CopyGC for TLC.  Ephemerons e1 and e2, with keys p and q or both with
   the key p, a third one, e3, that reaches p through q, the pairs p and q and a weak
   pair w. *)
EXTENDS CopyGC

CONSTANTS e1, e2, e3, p, q, w

MCKind == [o \in Obj |-> CASE o \in {e1, e2, e3} -> "ephemeron" [] o = w -> "weak" [] OTHER -> "pair"]
OneBucket == [o \in Obj |-> 0]

Choose(choices) == {f \in [Obj -> Value] : \A o \in Obj : f[o] \in choices[o]}
AllHeaps ==
  LET P == Old(p)  Q == Old(q)  E1 == Old(e1)  E2 == Old(e2)
      as == [o \in Obj |-> CASE o = e1 -> {P, Constant} [] o = e2 -> {P, Q} [] o = e3 -> {Q}
                             [] o = p -> {Null, E2, Q}  [] o = q -> {Null, P}
                             [] o = w -> {P, E1, Constant}]
      bs == [o \in Obj |-> CASE o = e1 -> {P, Q, E2}  [] o = e2 -> {Null, P, E1} [] o = e3 -> {P}
                             [] o = p -> {Null, Q}  [] o = q -> {Null}
                             [] o = w -> {Null, Q}]
  IN  [a : Choose(as), b : Choose(bs)]

MCRoots == {<<Old(e1), Old(e2), Old(w)>>, <<Old(w), Old(e1), Constant, Old(p)>>,
            <<Old(e3), Old(e1), Old(e2), Old(q)>>}
=============================================================================
