SPECIFICATION RunSpec
CONSTANTS
  s1 = s1
  s2 = s2
  c1 = c1
  c2 = c2
  admin = admin
  lead = lead
  Entrants = {s1, s2}
  Suppliers = {s1}
  Staff = {admin, lead}
  RoleOf <- StaffRoles
  Limits = {1, 2}
  MaxItems = 1
  Nobody = Nobody
  Bidders = {s1, s2}
  Amounts = {1, 2}
  MultiRound = TRUE
  MaxRounds = 2
  MaxTime = 2
  MaxQuotes = 2
  Plans <- RoundPlans
  Uploads = {u1}
  NoCopy = NoCopy
  Tenderers <- Listed
  Criteria = {c1, c2}
  Weight <- Thirds
  Scores = {50, 99}
  Formats = {"docx", "pdf"}
  MaxReports = 2
  MaxRisks = 2
  Desks = {d1, d2}
  Codes = {d1, d2}
  Sessions = {i1, i2}
  Requests = {r1}
  None = None
SYMMETRY Symmetry
INVARIANTS
  PublishedIsWhole
  OneQuotePerRound
  CurrentWasQuoted
  RankingIsFair
  ReportsNumbered
  OnePlaceholder
  SessionsInv
  OneSessionPerCode
  TokensTogether
CHECK_DEADLOCK FALSE
