----------------------------- MODULE MCIntegers -----------------------------
(* Instances of IntegerOps for TLC.  With digits of 2 bits, numbers of a few    *)
(* hundred are long, and the sizes of fixnum, digit and double are ordered as   *)
(* on a machine of 32 bits (25, 30 and 53), as they are with digits of 4 bits;  *)
(* with digits of 6 bits, fixnums of 4 and doubles of 3, as on one of 64 bits   *)
(* (57, 62 and 53).  Digits of 4 bits and more have small factors and small     *)
(* denominators, and fixnums of 7 bits are longer than half a word of 10.       *)
(* Each machine has the operands that its families of primitives need.          *)
EXTENDS IntegerOps

Small == [digit |-> 2, fixnum |-> 1, mant |-> 3]
Middle == [digit |-> 4, fixnum |-> 3, mant |-> 7]
Wide == [digit |-> 6, fixnum |-> 4, mant |-> 3]
Long8 == [digit |-> 8, fixnum |-> 7, mant |-> 6]
With(sizes, families, n1, n2, m1, m2) ==
  [digit |-> sizes.digit, fixnum |-> sizes.fixnum, mant |-> sizes.mant,
   families |-> families, n1 |-> n1, n2 |-> n2, m1 |-> m1, m2 |-> m2]

MCMachines ==
  {With(Small, {"arithmetic", "comparison", "bitwise"}, -36, 36, -36, 36),
   With(Long8, {"arithmetic"}, -140, 300, -4, 35),
   With(Small, {"division"}, -8, 1023, -2, 47),
   With(Wide, {"division"}, -20, 600, -8, 9),
   With(Small, {"counts", "words", "doubles"}, -40, 255, -7, 9),
   With(Middle, {"shifts"}, -70, 600, 0, 9),
   With(Middle, {"doubles"}, -300, 2200, -3, 6),
   With(Wide, {"doubles"}, -300, 4200, -3, 6),
   With(Wide, {"streams", "counts", "words"}, -200, 4200, 0, 0)}
=============================================================================
