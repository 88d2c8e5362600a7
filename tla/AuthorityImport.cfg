\* Six authorities with up to four records and three names; two failing requests.
SPECIFICATION Spec
CONSTANTS
  RootRecord = "r"
  Worlds <- MCWorlds
  MaxDepth = 3
  MaxFailures = 2
  MaxRejected = 2
INVARIANTS TypeOK OneEntityPerRecord ParentIsCause NoDanglingReference
PROPERTIES AppliedIsComplete MappingEnds
CHECK_DEADLOCK FALSE
