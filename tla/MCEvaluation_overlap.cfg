SPECIFICATION Spec
CONSTANTS
  Suppliers = {s1}
  Materials = {m1}
  Required = {}
  Criteria = {c1, c2}
  Notices = {n1}
  Keys = {}
  NoKey = NoKey
  Requests = {r1, r2}
  None = None
  CloseAtDeadline = FALSE
SYMMETRY Symmetry
INVARIANTS
  TypeOK
  ReviewBeforeResult
  SheetIsWhole
  EvaluationInv
PROPERTIES
  TerminalFreeze
  LifecycleKept
CHECK_DEADLOCK FALSE
