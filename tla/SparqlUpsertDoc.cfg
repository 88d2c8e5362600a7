SPECIFICATION Spec
CONSTANTS
  e1 = e1
  e2 = e2
  t1 = t1
  t2 = t2
  c1 = c1
  c2 = c2
  TypeIRI = TypeIRI
  Entities = {e1, e2}
  Titles = {t1, t2}
  Clients = {c1}
  Docs <- MCDocs
  WriteDepth = 2
  DefaultDepth = 1
  MaxWrites = 4
  MaxFaults = 0
PROPERTY UpsertKeepsStatements
CHECK_DEADLOCK FALSE
