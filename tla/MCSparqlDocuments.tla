------------------------- MODULE MCSparqlDocuments -------------------------
\* The SPARQL store on small instances.
EXTENDS SparqlDocuments, TLC

CONSTANTS e1, e2, t1, t2, c1, c2

Doc(title, parts, links, back) ==
  [title |-> title, parts |-> parts, links |-> links, stmts |-> {}, back |-> back]

\* One deeper than it is written and linked to an entity, one that has an inverse
\* property and one nested object, one that lacks the required property.
MCDocs == {Doc({t1}, <<{t1}, {t2}, {t1, t2}>>, {e1, e2}, {}),
           Doc({t2}, <<{t2}>>, {}, {e2}),
           Doc({}, <<>>, {e1}, {})}

ClientSymmetry == Permutations({c1, c2})
=============================================================================
