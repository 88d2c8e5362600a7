\* Two overlapping or successive calls; the four attempts of httpFetch, at most three pages.
SPECIFICATION Spec
CONSTANTS
  Calls = {c1, c2}
  c1 = c1
  c2 = c2
  Sources <- MCSources
  Policies <- MCPolicies
  MaxPages = 3
  Attempts = 4
  RetryAfter = 3
INVARIANTS TypeOK AnswersAreComplete
PROPERTIES LimitsKept CallsEnd
CHECK_DEADLOCK FALSE
