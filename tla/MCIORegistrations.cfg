CONSTANTS
  t1 = t1
  t2 = t2
  t3 = t3
  d1 = d1
  d2 = d2
  Thread = {t1, t2}
  Descriptor = {d1, d2}
  Nobody = Nobody
  MaxRegistrations = 3
SPECIFICATION Spec
SYMMETRY Symmetry
INVARIANTS
  ListsInv
  RegistrationsInv
PROPERTIES
  WaitersSpec
CHECK_DEADLOCK FALSE
