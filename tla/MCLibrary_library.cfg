SPECIFICATION LibrarySpec
CONSTANTS
  a = a
  b = b
  Materials = {m1, m2}
  PersonFiles = {"scan"}
  JobFiles = {"generated"}
  Sources = {"matched"}
  NoFile = "none"
  Binders = {b1}
  MaxMatJobs = 1
  MaxMatVersion = 3
  Quals = {q1, q2, q3}
  Certs = {a, b}
  Rows <- BothRows
  Renewals = {n1}
  MaxQualVersion = 3
  NoCert = NoCert
  NoRenewal = NoRenewal
  Contents = {t1}
  NoText = NoText
  Requests = {r1, r2}
  MaxFragVersion = 3
  MaxRefs = 2
  NoCopy = NoCopy
  DocTypes = {"commercial", "merged"}
  Sections = {"a", "b"}
  Bodies = {"x", "y"}
  MaxVersions = 3
  x1 = x1
  x2 = x2
  Parts = {x1, x2}
  Bytes = {"good", "bad"}
  Sent <- OneDamaged
  Declared <- AllGood
  Calls = {m1, m2}
  MaxFiles = 1
  Nothing = Nothing
SYMMETRY Symmetry
INVARIANTS
  StatusTellsOrigin
  CertificatesUnique
  ImportIsWhole
  VersionsNumbered
  CurrentIsLatest
  DiffRebuilds
  RecordedWasStored
PROPERTIES
  ReplacesWhatItSaw
CHECK_DEADLOCK FALSE
