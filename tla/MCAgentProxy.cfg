CONSTANTS
  Ids = {r1, r2}
  Subjects = {s1}
  Profiles = {p1}
  Rates <- MCRates
  Limits <- MCLimits
  Budget = 7
  Million = 3
  MaxTokens = 6
  MaxInt = 24
  MaximumBudget = 15
  Batch = 2
  Days <- MCDays
  MaxRequestsMinute = 1
  MaxConcurrent = 2
  MaxMinutes = 1
  LedgerIds = {q1, q2, q3}
  TwoSubjects = {s1, s2}
  TwoProfiles = {p1, p2}
SYMMETRY MCSymmetry
SPECIFICATION MCSpec
CHECK_DEADLOCK FALSE
INVARIANTS  UsageIsCovered NoDoubleCharge AnswersArePaid BooksBalance
