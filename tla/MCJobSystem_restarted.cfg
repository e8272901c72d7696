SPECIFICATION SystemSpec
CONSTANTS
  Procs = {p1}
  Targets <- OneParagraph
  CarryForward = 1
  MaxRetries = 0
  MaxLosses = 0
  None = None
  Providers = {a, o}
  Registered = {a, o}
  Primary = a
  Fallback = o
  Offline = o
  Threshold = 2
  Requests = {r1, r2}
PROPERTY NotRestarted
CHECK_DEADLOCK FALSE
