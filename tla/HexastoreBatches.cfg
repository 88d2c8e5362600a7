\* Plain quads, one close, one crash, no aborted transaction.
SPECIFICATION SafetySpec
CONSTANTS
  a = a  b = b  p = p  e = e  g = g  Unspecified = Unspecified
  Terms = {a, b, p, e, g}
  Quads <- PlainQuads
  Calls = {c1, c2, c3}
  FlushThreshold = 3
  MaxOps = 3
  MaxAborts = 0
  MaxCloses = 1
  MaxCrashes = 1
SYMMETRY Symmetry
INVARIANTS TypeOK DictionaryConsistent ReadsAreExact
PROPERTIES ImplementsQuadStore
