SPECIFICATION PlatformSpec
CONSTANTS
  Procs = {p1, p2}
  Targets <- TwoSections
  CarryForward = 1
  MaxRetries = 2
  MaxLosses = 2
  None = None
  Providers = {a, o}
  Registered = {a, o}
  Primary = a
  Fallback = o
  Offline = o
  Threshold = 2
  People = {u1, u2}
  Mails = {"a", "b"}
  UserRole = {"admin", "member"}
  Super = u1
  SuperMail = "a"
  Clerks = {p1, p2}
  MaxPasswords = 3
  MaxLinks = 2
  NoMail = NoMail
INVARIANTS WholeDocument OfflineIsVisible
PROPERTIES WorkerIsTask SpentLinksRest
SYMMETRY Symmetry
CHECK_DEADLOCK FALSE
