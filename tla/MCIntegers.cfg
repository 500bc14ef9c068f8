CONSTANT
  Machines <- MCMachines
SPECIFICATION Spec
INVARIANTS
  AlwaysCanonical
  OperationsExact
  DivisionExact
  ConversionsExact
