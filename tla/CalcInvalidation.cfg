\* Two roots that read one child, one user, two user writes (number 1 is the
\* initial state), and one failed request or warmNow().
SPECIFICATION Spec
CONSTANTS
  r1 = r1
  r2 = r2
  k = k
  c1 = c1
  Roots = {r1, r2}
  Children = {k}
  Edge <- SharedChild
  Clients = {c1}
  MaxWrites = 3
  MaxDisturbances = 1
INVARIANTS TypeOK SingleWarm StaleIsPending
PROPERTIES WarmingEnds EventuallyFresh
CHECK_DEADLOCK FALSE
