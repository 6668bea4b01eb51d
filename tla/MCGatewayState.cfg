CONSTANTS
  Subjects = {d1, d2}
  Ids = {a, b, c}
  MaxVoice = 2
  MaxAgent = 1
  PerMinute = 1
  TTL = 1
  Minute = 2
  Lag = 1
  MaxTime = 3
  n1 = n1
  n2 = n2
  n3 = n3
  s1 = s1
  s2 = s2
SYMMETRY MCSymmetry
SPECIFICATION MCSpec
CHECK_DEADLOCK FALSE
INVARIANTS TypesOK HoldersExclude   ReplaysAreRefused
PROPERTIES LiveRowsAreFenced AcceptedIsCurrent
