\* Three overlapping flush() calls: does an awaited flush persist?
SPECIFICATION SafetySpec
CONSTANTS
  a = a  b = b  p = p  e = e  g = g  Unspecified = Unspecified
  Terms = {a, b, p, e, g}
  Quads <- PlainQuads
  Calls = {c1, c2, c3}
  FlushThreshold = 100
  MaxOps = 2
  MaxAborts = 0
  MaxCloses = 0
  MaxCrashes = 0
SYMMETRY Symmetry
INVARIANT FlushPersists
