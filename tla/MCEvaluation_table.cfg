SPECIFICATION Spec
CONSTANTS
  Suppliers = {s1}
  Materials = {m1}
  Required = {m1}
  Criteria = {c1}
  Notices = {}
  Keys = {}
  NoKey = NoKey
  Requests = {r1}
  None = None
  CloseAtDeadline = FALSE
PROPERTIES
  StatusFollowsTable
CHECK_DEADLOCK FALSE
