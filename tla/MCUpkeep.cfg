SPECIFICATION MCSpec
CONSTANTS
  Id = {n1, n2}
  Fetch = {l1, l2}
  Instance = {i1, i2}
  Call = {q1, q2}
  RateLimit = 1
  Address = {a1}
  Starts = {20}
  Widths = {4, 9}
  MaxMarks = 2
  MaxFaults = 1
  MaxCrashes = 1
  MaxSends = 4
  MaxRefusals = 1
  MaxTurns = 3
  MaxRequests = 4
CHECK_DEADLOCK FALSE
INVARIANT TypeOK
INVARIANT OldProfileExplained
INVARIANT LinksAndCallsAreAdmitted
INVARIANT RowsFitTheChoice
INVARIANT AnswersAreRecorded
INVARIANT StrangersStandOut
PROPERTY BellCatchesUp
PROPERTY JobsRecur
PROPERTY RefreshesTakeTurns
