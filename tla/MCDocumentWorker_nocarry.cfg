SPECIFICATION WorkerSpec
CONSTANTS
  Procs = {p1, p2}
  Targets <- TwoSections
  CarryForward = 0
  MaxRetries = 1
  MaxLosses = 1
  None = None
  Providers = {a, o}
  Registered = {a, o}
  Primary = a
  Fallback = o
  Offline = o
  Threshold = 2
INVARIANT ContextBounded
SYMMETRY Symmetry
CHECK_DEADLOCK FALSE
