--------------------------- MODULE MCFulltextSync ---------------------------
\* The full-text index sync on small instances.
EXTENDS FulltextSync

CONSTANTS e1, e2, x, c1, c2   \* the entities and the callers
=============================================================================
