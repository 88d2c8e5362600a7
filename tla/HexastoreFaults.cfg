\* A quad that repeats a term, an aborted transaction, a close and a crash.
SPECIFICATION Spec
CONSTANTS
  a = a  b = b  p = p  e = e  g = g  Unspecified = Unspecified
  Terms = {a, b, p, g}
  Quads <- LoopQuads
  Calls = {c1, c2}
  FlushThreshold = 2
  MaxOps = 3
  MaxAborts = 1
  MaxCloses = 1
  MaxCrashes = 0
INVARIANTS SingleFlight NoStrandedCall NothingLeftBuffered IndexesAgree EveryOpOnce
PROPERTIES EventuallySettled FlushReturns
