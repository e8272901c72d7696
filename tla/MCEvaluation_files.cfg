SPECIFICATION FairSpec
CONSTANTS
  Suppliers = {s1}
  Materials = {m1, m2}
  Required = {m1}
  Criteria = {c1}
  Notices = {n1}
  Keys = {k1}
  NoKey = NoKey
  Requests = {r1}
  None = None
  CloseAtDeadline = TRUE
INVARIANTS
  SubmittedWasComplete
PROPERTIES
  PortalQuiesces
CHECK_DEADLOCK FALSE
