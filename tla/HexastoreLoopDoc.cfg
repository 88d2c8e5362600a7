\* A quad that names a new term twice: is what is stored readable?
SPECIFICATION SafetySpec
CONSTANTS
  a = a  b = b  p = p  e = e  g = g  Unspecified = Unspecified
  Terms = {a, b, p, g}
  Quads <- LoopQuads
  Calls = {c1, c2, c3}
  FlushThreshold = 100
  MaxOps = 2
  MaxAborts = 0
  MaxCloses = 0
  MaxCrashes = 0
SYMMETRY Symmetry
INVARIANT IndexedIdsHaveTerms
