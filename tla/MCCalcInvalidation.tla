------------------------- MODULE MCCalcInvalidation -------------------------
\* The calc worker on small instances.
EXTENDS CalcInvalidation

CONSTANTS r1, r2, k, c1

\* Both roots read the same child.
SharedChild == [r \in {r1, r2} |-> k]
=============================================================================
