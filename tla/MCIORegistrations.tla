------------------------- MODULE MCIORegistrations -------------------------
(* Instances of IORegistrations for TLC.  Threads are interchangeable, and    *)
(* so are descriptors.                                                        *)
EXTENDS IORegistrations

Symmetry == Permutations(Thread) \cup Permutations(Descriptor)
=============================================================================
