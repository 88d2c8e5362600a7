------------------------------- MODULE QuadReads -------------------------------
(***************************************************************************)
(* The reads of packages/indexeddb-dataset: matchAsync and countQuads      *)
(* turn the bound terms of a pattern into ids and read one range of keys   *)
(* from the index whose leading component is bound (IndexManager,          *)
(* keyrange).  Both flush first, which is Hexastore's Flush; what follows  *)
(* sees the committed database.                                            *)
(*                                                                         *)
(* A pattern is a quad in which some components are Unspecified, or        *)
(* Unbound once the others are ids.                                        *)
(***************************************************************************)
EXTENDS Hexastore, Integers, FiniteSets

CONSTANT Unspecified   \* in place of the null, undefined or variable term of a pattern

ASSUME UnspecifiedAssumption == Unspecified \notin Terms
-----------------------------------------------------------------------------
Unbound  == 0
Infinity == -1   \* greater than every id

(***************************************************************************)
(* Keys are compared element by element, a shorter one precedes its        *)
(* extensions.                                                             *)
(***************************************************************************)
Below(m, n) == m # Infinity /\ (n = Infinity \/ m < n)

Before(u, v) ==
  \/ \E i \in DOMAIN u \cap DOMAIN v : Below(u[i], v[i]) /\ \A j \in 1..(i - 1) : u[j] = v[j]
  \/ Len(u) < Len(v) /\ \A j \in DOMAIN u : u[j] = v[j]

Between(lower, k, upper) ==
  (k = lower \/ Before(lower, k)) /\ (k = upper \/ Before(k, upper))
-----------------------------------------------------------------------------
(***************************************************************************)
(* selectIndex: the index to read and what is known of its keys.  A        *)
(* pattern that binds the graph only is not looked for by its graph.       *)
(***************************************************************************)
GraphOnly(pt) == pt[1] = Unbound /\ pt[2] = Unbound /\ pt[3] = Unbound

Selected(pt) ==
  CASE pt[1] # Unbound -> "spo"
    [] pt[1] = Unbound /\ pt[2] # Unbound -> "pso"
    [] pt[1] = Unbound /\ pt[2] = Unbound /\ pt[3] # Unbound -> "ops"
    [] GraphOnly(pt) -> "spo"

Prefix(pt) == IF GraphOnly(pt) THEN <<>> ELSE Key(Selected(pt), pt)

HasGap(prefix) ==
  \E i, j \in DOMAIN prefix : i < j /\ prefix[i] = Unbound /\ prefix[j] # Unbound

\* buildPrefixRange applied: the keys K between the bound prefix and its last extension.
BoundLength(prefix) ==
  CHOOSE n \in 0..Len(prefix) :
    (\A i \in 1..n : prefix[i] # Unbound) /\ (n < Len(prefix) => prefix[n + 1] = Unbound)

InRange(K, prefix) ==
  LET n     == BoundLength(prefix)
      lower == [i \in 1..n |-> prefix[i]]
      upper == [i \in 1..4 |-> IF i <= n THEN prefix[i] ELSE Infinity]
  IN  IF n = 0 THEN K ELSE {k \in K : Between(lower, k, upper)}

\* decodeKey: each permutation of the components is its own inverse.
Decode(x, k) == Key(x, k)

Fits(pt, ids) == \A i \in 1..4 : pt[i] \in {Unbound, ids[i]}

Scan(db, pt) ==
  {Decode(Selected(pt), k) : k \in InRange(db.idx[Selected(pt)], Prefix(pt))}

\* Mutant of MatchQuads: the range is believed to be exact.
MatchRange(db, pt) == Scan(db, pt)

MatchQuads(db, pt) == {ids \in Scan(db, pt) : Fits(pt, ids)}

\* Without a gap in the prefix the keys in the range are counted, not read.
CountQuads(db, pt) ==
  Cardinality(IF HasGap(Prefix(pt)) THEN MatchQuads(db, pt) ELSE Scan(db, pt))
-----------------------------------------------------------------------------
(***************************************************************************)
(* From terms to ids and back, by the caches or the committed dictionary.  *)
(***************************************************************************)
Known(t) == termToId[t] # NoId \/ t \in Range(disk.terms)
IdOf(t)  == IF termToId[t] # NoId THEN termToId[t] ELSE IdIn(disk.terms, t)
TermOf(i) == IF i \in DOMAIN idToTerm THEN idToTerm[i] ELSE disk.terms[i]

Resolvable(pt) == \A i \in 1..4 : pt[i] # Unspecified => Known(pt[i])
Resolved(pt) == [i \in 1..4 |-> IF pt[i] = Unspecified THEN Unbound ELSE IdOf(pt[i])]

Matches(pt) == {[i \in 1..4 |-> TermOf(ids[i])] : ids \in MatchQuads(disk, Resolved(pt))}
Count(pt)   == CountQuads(disk, Resolved(pt))
-----------------------------------------------------------------------------
(***************************************************************************)
(* Properties                                                              *)
(***************************************************************************)
TermPatterns ==
  {[i \in 1..4 |-> IF i \in bound THEN q[i][i] ELSE Unspecified] :
     bound \in SUBSET (1..4), q \in [1..4 -> Quads]}

\* A read has awaited a flush() of its own, and its transaction waits for a running
\* writer of the same stores.
CanRead ==
  /\ isOpen
  /\ \E c \in Calls : calls[c].st = "ok"
  /\ txq # <<>> => ~Head(txq).live

\* Whatever batch was committed or lost last and whatever the caches hold, a read
\* finds the committed quads that match its pattern and no others, and counts as
\* many; a count by graph alone counts all quads.
ReadsAreExact ==
  CanRead =>
    \A content \in {Content(disk)}, pt \in TermPatterns :
      LET expected == {q \in content : \A i \in 1..4 : pt[i] \in {Unspecified, q[i]}}
      IN  IF Resolvable(pt)
          THEN /\ Matches(pt) = expected
               /\ Count(pt) = Cardinality(expected) \/ GraphOnly(Resolved(pt))
          ELSE expected = {}
==============================================================================
