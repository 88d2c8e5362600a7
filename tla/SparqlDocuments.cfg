SPECIFICATION Spec
CONSTANTS
  e1 = e1
  e2 = e2
  t1 = t1
  t2 = t2
  c1 = c1
  c2 = c2
  TypeIRI = TypeIRI
  Entities = {e1, e2}
  Titles = {t1, t2}
  Clients = {c1, c2}
  Docs <- MCDocs
  WriteDepth = 2
  DefaultDepth = 1
  MaxWrites = 3
  MaxFaults = 1
INVARIANTS TypeOK NoOrphans
PROPERTIES ImplementsDocuments StatementKeepsTheRest
SYMMETRY ClientSymmetry
CHECK_DEADLOCK FALSE
