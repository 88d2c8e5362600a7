\* Two searchable entities and one of another type, two callers, three writes,
\* a failed request and a reindex whose listing may be cut off.
SPECIFICATION Spec
CONSTANTS
  e1 = e1
  e2 = e2
  x = x
  c1 = c1
  c2 = c2
  Entities = {e1, e2, x}
  Searchable = {e1, e2}
  Clients = {c1, c2}
  ListLimit = 1
  MaxWrites = 3
  MaxFaults = 1
  MaxBulks = 1
INVARIANTS TypeOK AlignedWhenQuiet
PROPERTIES NeverGoesBack EventuallyAligned
CHECK_DEADLOCK FALSE
