CONSTANTS
  outer = outer
  inner = inner
  apart = apart
  x = x
  y = y
  p = p
  q = q
  b1 = b1
  b2 = b2
  b3 = b3
  b4 = b4
  Unassigned = Unassigned
  Unbound = Unbound
  Macro = Macro
  Global = Global
  NullEnv = NullEnv
  NoCell = NoCell
  Frames = {outer, inner, apart}
  Parent <- MCParent
  Params <- NoParams
  Symbols = {x, y}
  Values = {p, q}
  Blocks = {b1, b2, b3, b4}
  BlockEnv <- MCBlockEnv
  Sites <- MCSites
  MaxCaches = 7
  Workloads <- MCWorkloads
SPECIFICATION Spec
SYMMETRY Symmetry
INVARIANTS
  ReferencesAgree
  AssignmentsReachBinding
  RecordsInv
  BoundSymbolsHeld
  OnlyInheritedLinksLoop
PROPERTIES
  OperatorsFollow
CHECK_DEADLOCK FALSE
