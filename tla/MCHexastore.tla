----------------------------- MODULE MCHexastore -----------------------------
(* Instances of Hexastore for TLC. *)
EXTENDS QuadReads, TLC

CONSTANTS a, b, p, e, g   \* the terms

\* Two quads that share three terms in two positions, so that in an index the key of
\* one may stand next to that of the other; each has a term of its own, so that one
\* is stored while the other is unknown.
PlainQuads == {<<a, p, b, g>>, <<b, e, a, g>>}

\* One quad names a new term twice, as <<a> <p> <a>> does.
LoopQuads == {<<a, p, a, g>>, <<a, p, b, g>>}

Symmetry == Permutations(Calls)
==============================================================================
