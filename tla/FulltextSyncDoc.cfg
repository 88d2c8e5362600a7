\* No failed request and no bulk write.
SPECIFICATION Spec
CONSTANTS
  e1 = e1
  e2 = e2
  x = x
  c1 = c1
  c2 = c2
  Entities = {e1, e2, x}
  Searchable = {e1, e2}
  Clients = {c1, c2}
  ListLimit = 1
  MaxWrites = 3
  MaxFaults = 0
  MaxBulks = 0
INVARIANTS AlignedWithPrimary
CHECK_DEADLOCK FALSE
