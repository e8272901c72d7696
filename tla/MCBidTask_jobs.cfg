SPECIFICATION FairSpec
CONSTANTS
  Files = {f1}
  Keys = {k1}
  Requests = {r1, r2}
  MaxJobs = 3
  None = None
INVARIANTS BidInv OneOutcome OneJobPerKey StageEarned
PROPERTIES LatestWins Drains
CHECK_DEADLOCK FALSE
