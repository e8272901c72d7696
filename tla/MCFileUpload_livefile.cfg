SPECIFICATION UploadSpec
CONSTANTS
  Parts = {x1}
  Bytes = {"good"}
  Sent <- AllSent
  Declared <- AllGood
  Calls = {c1, c2}
  MaxFiles = 2
  Nothing = Nothing
SYMMETRY Symmetry
INVARIANT LiveFileHasBytes
CHECK_DEADLOCK FALSE
