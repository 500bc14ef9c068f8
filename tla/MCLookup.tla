------------------------------ MODULE MCLookup ------------------------------
(* Instances of Lookup for TLC.  Environment inner is inside outer, which is  *)
(* inside the global environment; apart is a package beside outer.            *)
EXTENDS Lookup

CONSTANTS outer, inner, apart, x, y, p, q, b1, b2, b3, b4

MCParent == [f \in Frames |-> IF f = inner THEN outer ELSE Global]
NoParams == [f \in Frames |-> {}]
MCBlockEnv == [b \in Blocks |-> CASE b \in {b1, b2} -> inner [] b = b3 -> Global [] b = b4 -> apart]

Site(b, n, k) == [block |-> b, name |-> n, kind |-> k]
XAnywhere == {<<e, x>> : e \in {Global, outer, inner}}

\* References of all kinds, while x is defined in one environment after the other.
Defining ==
  [sites |-> {Site(b1, x, "lookup"), Site(b1, x, "assignment"), Site(b2, x, "operator")},
   assign |-> {p, q, Macro}, define |-> XAnywhere, unbind |-> {}, link |-> {}]
\* Calls of x, while it is bound and unbound.
Calling ==
  [sites |-> {Site(b1, x, "operator"), Site(b2, x, "assignment"), Site(b3, x, "global_operator")},
   assign |-> {p, q}, define |-> XAnywhere, unbind |-> XAnywhere, link |-> {}]
\* Bindings that come and go, and a link of x to the binding it inherits.
Unbinding ==
  [sites |-> {Site(b1, x, "lookup"), Site(b2, x, "assignment"), Site(b3, x, "operator")},
   assign |-> {p, q}, define |-> XAnywhere, unbind |-> XAnywhere,
   link |-> {<<outer, x, Global, x>>}]
\* x of outer is linked to y of another package, before or after either is cached.
Linking ==
  [sites |-> {Site(b1, x, "lookup"), Site(b4, y, "operator"), Site(b4, y, "assignment")},
   assign |-> {p, q}, define |-> {<<Global, y>>, <<apart, y>>, <<inner, x>>}, unbind |-> {},
   link |-> {<<outer, x, apart, y>>}]
\* The same for calls of both, with values of their own.
Retargeting ==
  [sites |-> {Site(b1, x, "operator"), Site(b2, x, "assignment"), Site(b4, y, "operator")},
   assign |-> {p, q}, define |-> {<<Global, y>>, <<outer, x>>}, unbind |-> {},
   link |-> {<<outer, x, apart, y>>}]

\* x of outer is linked to y, which the x that it inherits was made one with before.
Aliasing ==
  [sites |-> {Site(b1, x, "lookup")}, assign |-> {p, q}, define |-> {<<Global, y>>},
   unbind |-> {}, link |-> {<<Global, x, Global, y>>, <<outer, x, Global, y>>}]

MCWorkloads == {Defining, Calling, Unbinding, Linking, Retargeting, Aliasing}
MCSites == UNION {w.sites : w \in MCWorkloads}

Symmetry == Permutations(Values)
=============================================================================
