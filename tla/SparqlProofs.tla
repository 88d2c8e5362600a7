---------------------------- MODULE SparqlProofs ----------------------------
(***************************************************************************)
(* Theorems about SparqlDocuments, for any number of entities, clients and *)
(* documents, and for any depth of nested objects.                         *)
(***************************************************************************)
EXTENDS SparqlDocuments, FiniteSetTheorems, TLAPS

(***************************************************************************)
(* The invariant: the triples are a forest with a tree for every document. *)
(***************************************************************************)
Shapes == (Entities \X {"a"} \X {TypeIRI})
          \cup (Entities \X {"link"} \X Entities)
          \cup ((Entities \cup Nat) \X {"title"} \X Titles)
          \cup ((Entities \cup Nat) \X {"part"} \X Nat)
          \cup (Entities \X {"stmt"} \X Nat)
          \cup (Nat \X {"value"} \X Titles)

\* The anonymous objects of a store.
Known(S) == ({t[1] : t \in S} \cup {t[3] : t \in S}) \cap Nat

\* Each has a document it belongs to and a depth in it, no deeper than a save writes, and
\* is the object of one triple, whose subject is the document or is one level above.
Grows(S, owner, rank) ==
  /\ \A b \in Known(S) :
       /\ rank[b] = 1 \/ rank[b] <= WriteDepth
       /\ <<owner[b], "a", TypeIRI>> \in S
       /\ \E t \in S : t[3] = b
  /\ \A t, u \in S : t[3] \in Nat /\ u[3] = t[3] => t = u
  /\ \A t \in S : t[3] \in Nat =>
       \/ t[1] \in Entities /\ owner[t[3]] = t[1] /\ rank[t[3]] = 1
       \/ t[1] \in Nat /\ owner[t[3]] = owner[t[1]] /\ rank[t[3]] = rank[t[1]] + 1

Owners(S) == [Known(S) -> Entities]
Ranks(S)  == [Known(S) -> 1..(WriteDepth + 1)]

Forest(S) ==
  /\ S \subseteq Shapes /\ IsFiniteSet(Known(S))
  /\ \E owner \in Owners(S), rank \in Ranks(S) : Grows(S, owner, rank)

DocType  == [title : SUBSET Titles, parts : Seq(SUBSET Titles), links : SUBSET Entities,
             stmts : SUBSET Titles, back : SUBSET Entities]
CallType == [st : {"save", "sync"}, kind : {"upsert", "statement"}, e : Entities,
             doc : DocType, readable : BOOLEAN, alone : BOOLEAN]
CallsInv == calls \in [Clients -> {IdleCall} \cup CallType]

IInv == /\ Forest(triples) /\ CallsInv
        /\ writes \in 0..MaxWrites /\ faults \in 0..MaxFaults
-----------------------------------------------------------------------------
(***************************************************************************)
(* Numbers.  The provers know no induction; that a set of numbers has a    *)
(* least element takes its place.                                          *)
(***************************************************************************)
LEMMA LeastElement ==
  ASSUME NEW S \in SUBSET Nat, S # {}
  PROVE  \E n \in S : \A m \in S : n <= m
<1> DEFINE T == {1..n : n \in S}
<1>1. \A n \in S : 1..n \in FiniteSubsetsOf(Nat)
  BY FS_Interval DEF FiniteSubsetsOf
<1>2. T \subseteq FiniteSubsetsOf(Nat) /\ T # {}
  BY <1>1
<1>3. PICK x \in T : \A y \in T : ~ (<<y, x>> \in StrictSubsetOrdering(Nat))
  BY <1>2, FS_StrictSubsetOrderingWellFounded, WFMin
<1>4. PICK n \in S : x = 1..n
  BY <1>3
<1>5. ASSUME NEW m \in S, m < n PROVE FALSE
  <2>1. 1..m \subseteq 1..n /\ 1..m # 1..n
    <3>1. n \in 1..n /\ n \notin 1..m
      BY <1>5
    <3> QED
      BY <1>5, <3>1
  <2>2. <<1..m, 1..n>> \in StrictSubsetOrdering(Nat)
    BY <2>1 DEF StrictSubsetOrdering
  <2> QED
    BY <1>3, <1>4, <2>2
<1> QED
  BY <1>5

Below(F, b) == {a \in F : a < b}

\* A finite set of numbers has an element with k smaller ones, for every k there is room
\* for.
LEMMA ElementAt ==
  ASSUME NEW F \in SUBSET Nat, IsFiniteSet(F), NEW k \in Nat, k < Cardinality(F)
  PROVE  \E b \in F : Cardinality(Below(F, b)) = k
<1> DEFINE G == {n \in Nat : n < Cardinality(F) /\ \A b \in F : Cardinality(Below(F, b)) # n}
<1>1. SUFFICES ASSUME k \in G PROVE FALSE
  OBVIOUS
<1>2. PICK n \in G : \A m \in G : n <= m
  BY <1>1, LeastElement
<1>3. n \in Nat /\ n < Cardinality(F) /\ Cardinality(F) \in Nat
      /\ \A b \in F : Cardinality(Below(F, b)) # n
  BY FS_CardinalityType
<1>4. \A m \in Nat : m < n => \E b \in F : Cardinality(Below(F, b)) = m
  BY <1>2, <1>3
<1> HIDE DEF G
<1>5. CASE n = 0
  <2>1. F # {}
    <3>1. F = {} => Cardinality(F) = 0
      BY FS_EmptySet, Zenon
    <3> QED
      BY <1>3, <1>5, <3>1
  <2>2. PICK b \in F : \A a \in F : b <= a
    BY <2>1, LeastElement
  <2>3. Below(F, b) = {}
    <3>1. \A a \in F : a \in Nat /\ b \in Nat /\ b <= a
      BY <2>2
    <3>2. \A a \in F : ~(a < b)
      BY <3>1
    <3> QED
      BY <3>2 DEF Below
  <2>4. Cardinality(Below(F, b)) = 0
    BY <2>3, FS_EmptySet, Zenon
  <2> QED
    BY <1>3, <1>5, <2>4
<1>6. CASE n > 0
  <2>1. PICK b \in F : Cardinality(Below(F, b)) = n - 1
    BY <1>3, <1>4, <1>6
  <2> DEFINE upTo == Below(F, b) \cup {b}
  <2>2. Below(F, b) \in SUBSET F /\ b \notin Below(F, b)
    BY DEF Below
  <2>3. IsFiniteSet(Below(F, b))
    BY <2>2, FS_Subset
  <2>4. Cardinality(upTo) = Cardinality(Below(F, b)) + 1
    BY <2>2, <2>3, FS_AddElement, Zenon
  <2>5. F \ upTo # {}
    <3>1. F = upTo => Cardinality(F) = Cardinality(upTo)
      OBVIOUS
    <3>2. Cardinality(upTo) = n
      BY <1>3, <1>6, <2>1, <2>4
    <3> HIDE DEF upTo
    <3>3. F # upTo
      BY <1>3, <3>1, <3>2
    <3> USE DEF upTo
    <3> QED
      BY <2>2, <3>3
  <2>6. PICK a \in F \ upTo : \A x \in F \ upTo : a <= x
    BY <2>5, LeastElement
  <2>7. ASSUME NEW x \in F PROVE x < a <=> x \in upTo
    <3>1. x \in upTo <=> x <= b
      BY DEF Below
    <3>2. a > b
      BY <2>6, <3>1 DEF Below
    <3>3. x \notin upTo => a <= x
      BY <2>6
    <3> QED
      BY <3>1, <3>2, <3>3
  <2>8. Below(F, a) = upTo
    BY <2>2, <2>7 DEF Below
  <2>9. a \in F /\ n - 1 + 1 = n
    BY <1>3, <2>6
  <2> QED
    BY <1>3, <2>1, <2>4, <2>8, <2>9
<1> QED
  BY <1>3, <1>5, <1>6

\* The blank nodes of a save: distinct numbers that the store does not know.
LEMMA FreshNodes ==
  ASSUME NEW S, NEW n \in Nat, IsFiniteSet(Known(S))
  PROVE  /\ Fresh(S, n) \in [1..n -> Nat \ Known(S)]
         /\ \A i, j \in 1..n : Fresh(S, n)[i] = Fresh(S, n)[j] => i = j
<1> DEFINE used == Known(S)
           free == (1..(Cardinality(used) + n)) \ used
           f == Fresh(S, n)
<1>1. f = [i \in 1..n |-> CHOOSE b \in free : Cardinality(Below(free, b)) = i - 1]
  BY DEF Fresh, Known, Below
<1>2. Cardinality(used) \in Nat
  BY FS_CardinalityType
<1>3. IsFiniteSet(free) /\ free \subseteq Nat /\ Cardinality(free) >= n
  <2> DEFINE top == Cardinality(used) + n
  <2>1. top \in Nat
    BY <1>2
  <2> HIDE DEF top
  <2>2. IsFiniteSet(1..top) /\ Cardinality(1..top) = top
    BY <2>1, FS_Interval
  <2>3. IsFiniteSet((1..top) \cap used) /\ Cardinality((1..top) \cap used) <= Cardinality(used)
    BY FS_Intersection
  <2>4. Cardinality((1..top) \cap used) \in Nat
    BY <2>3, FS_CardinalityType
  <2>5. IsFiniteSet(free) /\ Cardinality(free) = top - Cardinality((1..top) \cap used)
    BY <2>2, FS_Difference DEF top
  <2> QED
    BY <1>2, <2>2, <2>3, <2>4, <2>5 DEF top
<1> HIDE DEF free, f
<1>4. Cardinality(free) \in Nat
  BY <1>3, FS_CardinalityType
<1>5. ASSUME NEW i \in 1..n
      PROVE  f[i] \in free /\ Cardinality(Below(free, f[i])) = i - 1
  <2>1. \E b \in free : Cardinality(Below(free, b)) = i - 1
    BY <1>3, <1>4, ElementAt
  <2>2. f[i] = CHOOSE b \in free : Cardinality(Below(free, b)) = i - 1
    BY <1>1
  <2> QED
    BY <2>1, <2>2
<1>6. free \subseteq Nat \ used
  BY <1>3 DEF free
<1>7. f \in [1..n -> Nat \ used]
  BY <1>1, <1>5, <1>6
<1>8. \A i, j \in 1..n : f[i] = f[j] => i = j
  BY <1>5
<1> QED
  BY <1>7, <1>8 DEF f
-----------------------------------------------------------------------------
(***************************************************************************)
(* What a deletion follows.                                                *)
(***************************************************************************)
LEMMA Names ==
  /\ \A x \in Entities : x \notin Nat
  /\ \A x \in Titles : x \notin Nat
  /\ TypeIRI \notin Nat
BY NamesAssumption

\* An anonymous object is known, and stands behind a predicate that is followed.
LEMMA Edges ==
  ASSUME NEW S, S \subseteq Shapes, NEW t \in S
  PROVE  /\ t[3] \in Nat => /\ t[3] \in Known(S) /\ t[3] \notin Entities
                            /\ t[2] \in {"part", "stmt"}
         /\ t[1] \in Nat => t[1] \in Known(S) /\ t[1] \notin Entities
         /\ t[1] \in Entities \cup Nat
         /\ t[2] \in Followed /\ t[3] \notin Entities => t[3] \in Nat
<1>1. t \in Shapes
  OBVIOUS
<1>2. t[1] \in Entities \cup Nat
  BY <1>1 DEF Shapes
<1>3. t[3] \in Nat => t[2] \in {"part", "stmt"}
  BY <1>1, Names DEF Shapes
<1>4. t[2] \in Followed /\ t[3] \notin Entities => t[3] \in Nat
  BY <1>1 DEF Shapes, Followed
<1>5. (t[3] \in Nat => t[3] \in Known(S)) /\ (t[1] \in Nat => t[1] \in Known(S))
  BY DEF Known
<1> QED
  BY <1>2, <1>3, <1>4, <1>5, Names

\* The anonymous objects of e's document down to depth n.
Upto(e, owner, rank, n) ==
  {e} \cup {b \in Known(triples) : owner[b] = e /\ rank[b] <= n}

LEMMA OneLevel ==
  ASSUME triples \subseteq Shapes, NEW owner \in Owners(triples), NEW rank \in Ranks(triples),
         Grows(triples, owner, rank), NEW e \in Entities, NEW n \in Nat, n > 0
  PROVE  Upto(e, owner, rank, n)
           = Upto(e, owner, rank, n - 1) \cup Owned(Upto(e, owner, rank, n - 1))
<1> DEFINE U == Upto(e, owner, rank, n - 1)
<1>1. \A b \in Known(triples) : rank[b] \in Nat /\ rank[b] >= 1 /\ b \in Nat
  BY BoundsAssumption DEF Ranks, Known
<1>2. ASSUME NEW o \in Owned(U) PROVE o \in Upto(e, owner, rank, n)
  <2>1. PICK t \in triples : t[1] \in U /\ t[2] \in Followed /\ t[3] \notin Entities /\ o = t[3]
    BY <1>2 DEF Owned, Anonymous
  <2>2. t[3] \in Nat /\ t[3] \in Known(triples)
    BY <2>1, Edges
  <2>3. CASE t[1] \in Entities /\ owner[t[3]] = t[1] /\ rank[t[3]] = 1
    <3>1. t[1] = e
      BY <2>1, <2>3, Names DEF Upto, Known
    <3> QED
      BY <2>1, <2>2, <2>3, <3>1 DEF Upto
  <2>4. CASE t[1] \in Nat /\ owner[t[3]] = owner[t[1]] /\ rank[t[3]] = rank[t[1]] + 1
    <3>1. t[1] \in Known(triples) /\ owner[t[1]] = e /\ rank[t[1]] <= n - 1
      BY <2>1, <2>4, Names DEF Upto
    <3>2. rank[t[3]] <= n
      BY <1>1, <2>4, <3>1
    <3> QED
      BY <2>1, <2>2, <2>4, <3>1, <3>2 DEF Upto
  <2> QED
    BY <2>2, <2>3, <2>4 DEF Grows
<1>3. ASSUME NEW b \in Known(triples), owner[b] = e, rank[b] <= n
      PROVE  b \in Owned(U)
  <2>1. PICK t \in triples : t[3] = b
    BY DEF Grows
  <2>2. t[3] \in Nat /\ t[2] \in Followed /\ Anonymous(t[3])
    BY <1>1, <2>1, Edges DEF Followed, Anonymous
  <2>3. CASE t[1] \in Entities /\ owner[t[3]] = t[1] /\ rank[t[3]] = 1
    <3>1. t[1] \in U
      BY <1>3, <2>1, <2>3 DEF Upto
    <3> QED
      BY <2>1, <2>2, <3>1 DEF Owned
  <2>4. CASE t[1] \in Nat /\ owner[t[3]] = owner[t[1]] /\ rank[t[3]] = rank[t[1]] + 1
    <3>1. t[1] \in Known(triples)
      BY <2>4, Edges
    <3>2. rank[t[1]] <= n - 1 /\ owner[t[1]] = e
      BY <1>1, <1>3, <2>1, <2>4, <3>1
    <3>3. t[1] \in U
      BY <3>1, <3>2 DEF Upto
    <3> QED
      BY <2>1, <2>2, <3>3 DEF Owned
  <2> QED
    BY <2>2, <2>3, <2>4 DEF Grows
<1>4. U \subseteq Upto(e, owner, rank, n)
  BY <1>1 DEF Upto
<1>5. Upto(e, owner, rank, n) \subseteq U \cup Owned(U)
  BY <1>3 DEF Upto
<1> QED
  BY <1>2, <1>4, <1>5

LEMMA SubjectsAre ==
  ASSUME triples \subseteq Shapes, NEW owner \in Owners(triples), NEW rank \in Ranks(triples),
         Grows(triples, owner, rank), NEW e \in Entities, NEW d \in Nat
  PROVE  Subjects(e, d) = Upto(e, owner, rank, d)
<1> DEFINE Rule(f) == [n \in 0..d |-> IF n = 0 THEN {e} ELSE f[n-1] \cup Owned(f[n-1])]
           g == [n \in 0..d |-> Upto(e, owner, rank, n)]
           f == CHOOSE h : h = Rule(h)
<1>1. Subjects(e, d) = f[d]
  BY DEF Subjects
<1>2. Upto(e, owner, rank, 0) = {e}
  <2>1. \A b \in Known(triples) : rank[b] \in Nat /\ rank[b] >= 1
    BY BoundsAssumption DEF Ranks
  <2> QED
    BY <2>1 DEF Upto
<1>3. g = Rule(g)
  <2>1. ASSUME NEW n \in 0..d PROVE g[n] = Rule(g)[n]
    <3>1. CASE n = 0
      BY <1>2, <3>1
    <3>2. CASE n # 0
      <4>1. n \in Nat /\ n > 0 /\ n - 1 \in 0..d
        BY <3>2
      <4>2. g[n] = Upto(e, owner, rank, n) /\ g[n - 1] = Upto(e, owner, rank, n - 1)
        BY <4>1
      <4> QED
        BY <3>2, <4>1, <4>2, OneLevel
    <3> QED
      BY <3>1, <3>2
  <2> QED
    BY <2>1
<1>4. f = Rule(f)
  BY <1>3
<1> HIDE DEF f
<1>5. \A n \in 0..d : f[n] = g[n]
  <2> DEFINE G == {n \in 0..d : f[n] # g[n]}
  <2>1. SUFFICES ASSUME G # {} PROVE FALSE
    OBVIOUS
  <2>2. PICK n \in G : \A m \in G : n <= m
    <3>1. G \in SUBSET Nat
      OBVIOUS
    <3> HIDE DEF G
    <3> QED
      BY <2>1, <3>1, LeastElement
  <2>3. n \in 0..d /\ f[n] # g[n]
    OBVIOUS
  <2>4. CASE n = 0
    <3>1. f[0] = {e}
      BY <1>4
    <3>2. g[0] = {e}
      BY <1>2
    <3> QED
      BY <2>3, <2>4, <3>1, <3>2
  <2>5. CASE n # 0
    <3>1. n - 1 \in 0..d /\ n - 1 \notin G
      BY <2>2, <2>3, <2>5
    <3>2. f[n - 1] = g[n - 1]
      BY <3>1
    <3>3. f[n] = f[n-1] \cup Owned(f[n-1])
      BY <1>4, <2>3, <2>5
    <3>4. g[n] = g[n-1] \cup Owned(g[n-1])
      BY <1>3, <2>3, <2>5
    <3> QED
      BY <2>3, <3>2, <3>3, <3>4
  <2> QED
    BY <2>4, <2>5
<1> QED
  BY <1>1, <1>5
-----------------------------------------------------------------------------
(***************************************************************************)
(* Deleting a document, inserting one, changing links.                     *)
(***************************************************************************)
LEMMA DepthIsEnough ==
  ASSUME NEW n \in Nat, n = 1 \/ n <= WriteDepth
  PROVE  DeleteDepth \in Nat /\ n <= DeleteDepth /\ WriteDepth + 1 \in Nat /\ n <= WriteDepth + 1
BY BoundsAssumption DEF DeleteDepth

\* A deletion takes the tree of e and nothing else.
LEMMA CutIsTree ==
  ASSUME triples \subseteq Shapes, NEW owner \in Owners(triples), NEW rank \in Ranks(triples),
         Grows(triples, owner, rank), NEW e \in Entities
  PROVE  /\ Typed(e) => Description(e) =
              {t \in triples : t[1] = e \/ (t[1] \in Nat /\ owner[t[1]] = e)}
         /\ ~Typed(e) => Description(e) = {} /\ \A b \in Known(triples) : owner[b] # e
<1>1. \A b \in Known(triples) : rank[b] <= DeleteDepth
  <2>1. \A b \in Known(triples) : rank[b] \in Nat
    BY BoundsAssumption DEF Ranks
  <2>2. \A b \in Known(triples) : rank[b] = 1 \/ rank[b] <= WriteDepth
    BY DEF Grows
  <2>3. \A n \in Nat : n = 1 \/ n <= WriteDepth => n <= DeleteDepth
    BY DepthIsEnough
  <2> QED
    BY <2>1, <2>2, <2>3
<1>2. DeleteDepth \in Nat
  BY BoundsAssumption DEF DeleteDepth
<1>3. Subjects(e, DeleteDepth) = {e} \cup {b \in Known(triples) : owner[b] = e}
  BY <1>1, <1>2, SubjectsAre DEF Upto
<1>4. \A t \in triples : t[1] \in Nat <=> t[1] \in Known(triples)
  BY Edges DEF Known
<1>5. Typed(e) => Description(e) =
        {t \in triples : t[1] = e \/ (t[1] \in Nat /\ owner[t[1]] = e)}
  BY <1>3, <1>4 DEF Description
<1>6. ~Typed(e) => \A b \in Known(triples) : owner[b] # e
  BY DEF Typed, Grows
<1> QED
  BY <1>5, <1>6 DEF Description

LEMMA CutLeavesForest ==
  ASSUME Forest(triples), NEW e \in Entities
  PROVE  LET kept == triples \ Description(e)
         IN  /\ kept \subseteq Shapes /\ IsFiniteSet(Known(kept))
             /\ \E owner \in Owners(kept), rank \in Ranks(kept) :
                  Grows(kept, owner, rank) /\ \A b \in Known(kept) : owner[b] # e
<1> DEFINE kept == triples \ Description(e)
<1>1. PICK owner \in Owners(triples), rank \in Ranks(triples) : Grows(triples, owner, rank)
  BY DEF Forest
<1>2. triples \subseteq Shapes /\ IsFiniteSet(Known(triples))
  BY DEF Forest
<1>3. Known(kept) \subseteq Known(triples) /\ kept \subseteq triples
  BY DEF Known
<1>4. IsFiniteSet(Known(kept))
  BY <1>2, <1>3, FS_Subset
<1>5. \A t \in kept : t[1] # e \/ ~Typed(e)
  BY <1>1, <1>2, CutIsTree
<1>6. \A t \in kept : t[1] \in Nat => owner[t[1]] # e
  <2> SUFFICES ASSUME NEW t \in kept, t[1] \in Nat PROVE owner[t[1]] # e
    OBVIOUS
  <2>1. t \in triples /\ t[1] \in Known(triples)
    BY <1>2, <1>3, Edges
  <2> QED
    BY <1>1, <1>2, <2>1, CutIsTree
<1>7. \A t \in triples : t[1] # e /\ (t[1] \in Nat => owner[t[1]] # e) => t \in kept
  BY <1>1, <1>2, CutIsTree
<1>8. \A t \in kept : t[3] \in Nat => owner[t[3]] # e
  <2> SUFFICES ASSUME NEW t \in kept, t[3] \in Nat PROVE owner[t[3]] # e
    OBVIOUS
  <2>1. t \in triples /\ t[3] \in Known(triples)
    BY <1>2, <1>3, Edges
  <2>2. CASE t[1] \in Entities /\ owner[t[3]] = t[1]
    BY <1>1, <1>2, <1>5, <2>1, <2>2, CutIsTree
  <2>3. CASE t[1] \in Nat /\ owner[t[3]] = owner[t[1]]
    BY <1>6, <2>3
  <2> QED
    BY <1>1, <2>1, <2>2, <2>3 DEF Grows
<1>9. \A b \in Known(kept) : owner[b] # e
  BY <1>6, <1>8 DEF Known
<1> DEFINE own == [b \in Known(kept) |-> owner[b]]
           rk  == [b \in Known(kept) |-> rank[b]]
<1>10. own \in Owners(kept) /\ rk \in Ranks(kept)
  BY <1>3 DEF Owners, Ranks
<1>11. ASSUME NEW b \in Known(kept)
       PROVE  /\ rank[b] = 1 \/ rank[b] <= WriteDepth
              /\ <<owner[b], "a", TypeIRI>> \in kept
              /\ \E t \in kept : t[3] = b
  <2>1. b \in Known(triples) /\ owner[b] # e /\ owner[b] \in Entities /\ b \in Nat
    BY <1>3, <1>9 DEF Owners, Known
  <2>2. PICK t \in triples : t[3] = b
    BY <1>1, <2>1 DEF Grows
  <2>3. t[1] # e /\ (t[1] \in Nat => owner[t[1]] # e)
    BY <1>1, <2>1, <2>2, Names DEF Grows
  <2>4. <<owner[b], "a", TypeIRI>> \in kept
    <3>1. <<owner[b], "a", TypeIRI>> \in triples
      BY <1>1, <2>1 DEF Grows
    <3> QED
      BY <1>7, <2>1, <3>1, Names
  <2> QED
    BY <1>1, <1>7, <2>1, <2>2, <2>3, <2>4 DEF Grows
<1>12. \A t, u \in kept : t[3] \in Nat /\ u[3] = t[3] => t = u
  BY <1>1, <1>3 DEF Grows
<1>13. \A t \in kept : t[3] \in Nat =>
         \/ t[1] \in Entities /\ owner[t[3]] = t[1] /\ rank[t[3]] = 1
         \/ t[1] \in Nat /\ owner[t[3]] = owner[t[1]] /\ rank[t[3]] = rank[t[1]] + 1
  BY <1>1, <1>3 DEF Grows
<1>14. \A t \in kept : /\ t[3] \in Nat => t[3] \in Known(kept)
                       /\ t[1] \in Nat => t[1] \in Known(kept)
  BY DEF Known
<1> HIDE DEF kept
<1>15. Grows(kept, own, rk)
  BY <1>11, <1>12, <1>13, <1>14 DEF Grows
<1>16. \A b \in Known(kept) : own[b] # e
  BY <1>9
<1> QED
  BY <1>2, <1>3, <1>4, <1>10, <1>15, <1>16 DEF kept

\* Links lead to entities, whatever becomes of them.
LEMMA LinksLeaveForest ==
  ASSUME NEW S, Forest(S), NEW N \in SUBSET Shapes,
         \A t : t[2] # "link" => (t \in S <=> t \in N)
  PROVE  Forest(N)
<1>1. PICK owner \in Owners(S), rank \in Ranks(S) : Grows(S, owner, rank)
  BY DEF Forest
<1>2. S \subseteq Shapes /\ IsFiniteSet(Known(S))
  BY DEF Forest
<1>3. \A t \in S \cup N : t[3] \in Nat => t \in S /\ t \in N
  BY <1>2, Edges
<1>4. \A t \in S \cup N : t[2] = "link" => t[1] \notin Nat
  <2>1. \A t \in Shapes : t[2] = "link" => t[1] \in Entities
    BY DEF Shapes
  <2> QED
    BY <1>2, <2>1, Names
<1>5. Known(N) = Known(S)
  <2>1. \A t \in S \cup N : t[1] \in Nat => t \in S /\ t \in N
    BY <1>4
  <2> QED
    BY <1>3, <2>1 DEF Known
<1>6. \A x : <<x, "a", TypeIRI>> \in S <=> <<x, "a", TypeIRI>> \in N
  OBVIOUS
<1>7. \A b \in Known(N) : \E t \in N : t[3] = b
  BY <1>1, <1>3, <1>5 DEF Grows, Known
<1>8. Grows(N, owner, rank)
  BY <1>1, <1>3, <1>5, <1>6, <1>7 DEF Grows
<1> QED
  BY <1>1, <1>2, <1>5, <1>8 DEF Forest, Owners, Ranks

(***************************************************************************)
(* What a save inserts: a tree of fresh nodes.                             *)
(***************************************************************************)
LEMMA Values ==
  ASSUME NEW T, IsFiniteSet(T)
  PROVE  Cardinality(T) \in Nat /\ SetToSeq(T) \in [1..Cardinality(T) -> T]
<1>1. Cardinality(T) \in Nat /\ ExistsBijection(1..Cardinality(T), T)
  BY FS_CardinalityType
<1>2. \E f \in [1..Cardinality(T) -> T] : IsInjective(f)
  BY <1>1 DEF ExistsBijection, Bijection, Injection
<1> QED
  BY <1>1, <1>2 DEF SetToSeq

\* The nodes of the nested objects come first, one below the other, then those of the
\* statements, right below the entity.
NewTree(N, e, depth, bn) ==
  /\ N \subseteq Shapes /\ <<e, "a", TypeIRI>> \in N
  /\ \A i \in DOMAIN bn : \E t \in N : t[3] = bn[i]
  /\ \A t \in N : t[1] = e \/ \E i \in DOMAIN bn : t[1] = bn[i]
  /\ \A t \in N : t[3] \in Nat => \E i \in DOMAIN bn :
       /\ t[3] = bn[i]
       /\ i = 1 \/ i > depth => t[1] = e
       /\ i > 1 /\ i <= depth => i - 1 \in DOMAIN bn /\ t[1] = bn[i-1]
  /\ \A t, u \in N : t[3] \in Nat /\ u[3] = t[3] => t = u

LEMMA NewTriples ==
  ASSUME NEW e \in Entities, NEW d \in DocType,
         NEW bn \in [1..(Len(d.parts) + Cardinality(d.stmts)) -> Nat],
         \A i, j \in DOMAIN bn : bn[i] = bn[j] => i = j
  PROVE  NewTree(DocTriples(e, d, bn), e, Len(d.parts), bn)
<1> DEFINE N == DocTriples(e, d, bn)
           depth == Len(d.parts)
           m == Cardinality(d.stmts)
           values == SetToSeq(d.stmts)
           parent(i) == IF i = 1 THEN e ELSE bn[i-1]
           Part(i) == <<parent(i), "part", bn[i]>>
           Stmt(i) == <<e, "stmt", bn[depth + i]>>
<1>1. /\ d.title \subseteq Titles /\ d.links \subseteq Entities /\ d.stmts \subseteq Titles
      /\ d.parts \in Seq(SUBSET Titles)
  BY DEF DocType
<1>2. m \in Nat /\ values \in [1..m -> d.stmts]
  BY <1>1, DocsAssumption, FS_Subset, Values
<1>3. depth \in Nat /\ \A i \in 1..depth : d.parts[i] \subseteq Titles
  BY <1>1
<1> HIDE DEF depth, m, values
<1>4. /\ DOMAIN bn = 1..(depth + m)
      /\ \A i \in 1..depth : i \in DOMAIN bn /\ bn[i] \in Nat /\ (i # 1 => i - 1 \in DOMAIN bn)
      /\ \A i \in 1..m : depth + i \in DOMAIN bn /\ bn[depth + i] \in Nat
  BY <1>2, <1>3 DEF depth, m
<1>5. \A i \in 1..depth : parent(i) \in Entities \cup Nat
  BY <1>4
<1>6. N = {<<e, "a", TypeIRI>>}
          \cup {<<e, "title", v>> : v \in d.title}
          \cup {<<e, "link", b>> : b \in d.links}
          \cup {Part(i) : i \in 1..depth}
          \cup (UNION {{<<bn[i], "title", v>> : v \in d.parts[i]} : i \in 1..depth})
          \cup {Stmt(i) : i \in 1..m}
          \cup {<<bn[depth + i], "value", values[i]>> : i \in 1..m}
  BY <1>2 DEF DocTriples, depth, values
<1> HIDE DEF N
<1>7. ASSUME NEW t \in N
      PROVE  \/ t = <<e, "a", TypeIRI>>
             \/ t[1] = e /\ t[2] \in {"title", "link"} /\ t[3] \notin Nat /\ t \in Shapes
             \/ \E i \in 1..depth : t = Part(i)
             \/ \E i \in 1..depth : t[1] = bn[i] /\ t[3] \notin Nat /\ t \in Shapes
             \/ \E i \in 1..m : t = Stmt(i)
             \/ \E i \in 1..m : t[1] = bn[depth + i] /\ t[3] \notin Nat /\ t \in Shapes
  <2>1. CASE t \in {<<e, "title", v>> : v \in d.title}
    BY <1>1, <2>1, Names DEF Shapes
  <2>2. CASE t \in {<<e, "link", b>> : b \in d.links}
    BY <1>1, <2>2, Names DEF Shapes
  <2>3. CASE t \in UNION {{<<bn[i], "title", v>> : v \in d.parts[i]} : i \in 1..depth}
    <3>1. PICK i \in 1..depth : \E v \in d.parts[i] : t = <<bn[i], "title", v>>
      BY <2>3
    <3>2. PICK v \in d.parts[i] : t = <<bn[i], "title", v>>
      BY <3>1
    <3> QED
      BY <1>3, <1>4, <3>2, Names DEF Shapes
  <2>4. CASE t \in {<<bn[depth + i], "value", values[i]>> : i \in 1..m}
    <3>1. PICK i \in 1..m : t = <<bn[depth + i], "value", values[i]>>
      BY <2>4
    <3>2. values[i] \in Titles
      BY <1>1, <1>2
    <3>3. bn[depth + i] \in Nat
      BY <1>4
    <3>4. t[1] = bn[depth + i] /\ t[3] = values[i]
      BY <3>1
    <3>5. t \in Shapes
      BY <3>1, <3>2, <3>3 DEF Shapes
    <3> QED
      BY <3>2, <3>4, <3>5, Names
  <2>5. CASE t \in {Part(i) : i \in 1..depth} \/ t \in {Stmt(i) : i \in 1..m}
    BY <2>5
  <2> HIDE DEF Part, Stmt
  <2> QED
    BY <1>6, <2>1, <2>2, <2>3, <2>4, <2>5
<1>8. \A i \in 1..depth : Part(i) \in N
  BY <1>6
<1>9. \A i \in 1..m : Stmt(i) \in N
  BY <1>6
<1>10. N \subseteq Shapes
  <2>1. <<e, "a", TypeIRI>> \in Shapes
    BY DEF Shapes
  <2>2. \A i \in 1..depth : Part(i) \in Shapes
    BY <1>4, <1>5 DEF Shapes
  <2>3. \A i \in 1..m : Stmt(i) \in Shapes
    BY <1>4 DEF Shapes
  <2> HIDE DEF Part, Stmt
  <2> QED
    BY <1>7, <2>1, <2>2, <2>3
<1>11. <<e, "a", TypeIRI>> \in N
  BY <1>6
<1>12. ASSUME NEW i \in DOMAIN bn PROVE \E t \in N : t[3] = bn[i]
  <2>1. CASE i <= depth
    <3>1. i \in 1..depth /\ Part(i)[3] = bn[i]
      BY <1>3, <1>4, <2>1
    <3> QED
      BY <1>8, <3>1
  <2>2. CASE i > depth
    <3>1. i - depth \in 1..m /\ depth + (i - depth) = i
      BY <1>2, <1>3, <1>4, <2>2
    <3>2. Stmt(i - depth)[3] = bn[i]
      BY <3>1
    <3> QED
      BY <1>9, <3>1, <3>2
  <2> QED
    BY <1>3, <1>4, <2>1, <2>2
<1>13. ASSUME NEW t \in N PROVE t[1] = e \/ \E i \in DOMAIN bn : t[1] = bn[i]
  <2>1. CASE \E i \in 1..depth : t = Part(i)
    BY <1>4, <2>1
  <2>2. \A i \in 1..m : Stmt(i)[1] = e
    OBVIOUS
  <2> HIDE DEF Part, Stmt
  <2> QED
    BY <1>4, <1>7, <2>1, <2>2
<1>14. ASSUME NEW t \in N, t[3] \in Nat
       PROVE  (\E i \in 1..depth : t = Part(i)) \/ (\E i \in 1..m : t = Stmt(i))
  <2>1. t # <<e, "a", TypeIRI>>
    BY <1>14, Names
  <2> HIDE DEF Part, Stmt
  <2> QED
    BY <1>7, <1>14, <2>1
<1>15. ASSUME NEW t \in N, t[3] \in Nat
       PROVE  \E i \in DOMAIN bn :
                /\ t[3] = bn[i]
                /\ i = 1 \/ i > depth => t[1] = e
                /\ i > 1 /\ i <= depth => i - 1 \in DOMAIN bn /\ t[1] = bn[i-1]
  <2>1. CASE \E i \in 1..depth : t = Part(i)
    BY <1>3, <1>4, <2>1
  <2>2. CASE \E i \in 1..m : t = Stmt(i)
    <3>1. PICK i \in 1..m : t = Stmt(i)
      BY <2>2
    <3>2. depth + i \in DOMAIN bn /\ depth + i > depth
      BY <1>2, <1>3, <1>4
    <3> QED
      BY <1>3, <3>1, <3>2
  <2> QED
    BY <1>14, <1>15, <2>1, <2>2
<1>16. ASSUME NEW t \in N, NEW u \in N, t[3] \in Nat, u[3] = t[3] PROVE t = u
  <2>1. u[3] \in Nat
    BY <1>16
  <2>2. \A i \in 1..depth : Part(i)[3] = bn[i]
    OBVIOUS
  <2>3. \A i \in 1..m : Stmt(i)[3] = bn[depth + i]
    OBVIOUS
  <2>4. \A i, j \in 1..depth : bn[i] = bn[j] => i = j
    BY <1>4
  <2>5. \A i, j \in 1..m : bn[depth + i] = bn[depth + j] => i = j
    <3>1. \A i, j \in 1..m : depth + i = depth + j => i = j
      BY <1>2, <1>3
    <3> QED
      BY <1>4, <3>1
  <2>6. \A i \in 1..depth, j \in 1..m : bn[i] # bn[depth + j]
    <3>1. \A i \in 1..depth, j \in 1..m : i # depth + j
      BY <1>2, <1>3
    <3> QED
      BY <1>4, <3>1
  <2> HIDE DEF Part, Stmt
  <2> QED
    BY <1>14, <1>16, <2>1, <2>2, <2>3, <2>4, <2>5, <2>6
<1> QED
  BY <1>3, <1>10, <1>11, <1>12, <1>13, <1>15, <1>16 DEF NewTree, N, depth

\* A fresh tree for an entity that has none makes a forest again.
LEMMA NewTreeGrows ==
  ASSUME NEW S, S \subseteq Shapes, IsFiniteSet(Known(S)),
         NEW owner \in Owners(S), NEW rank \in Ranks(S), Grows(S, owner, rank),
         NEW e \in Entities, NEW d \in DocType, Len(d.parts) <= WriteDepth
  PROVE  LET n == Len(d.parts) + Cardinality(d.stmts)
         IN  Forest(S \cup DocTriples(e, d, Fresh(S, n)))
<1> DEFINE depth == Len(d.parts)
           n == depth + Cardinality(d.stmts)
           bn == Fresh(S, n)
           N == DocTriples(e, d, bn)
           All == S \cup N
           nodes == {bn[i] : i \in 1..n}
<1>1. depth \in Nat /\ n \in Nat
  <2>1. IsFiniteSet(d.stmts) /\ d.parts \in Seq(SUBSET Titles)
    BY DocsAssumption, FS_Subset DEF DocType
  <2>2. Cardinality(d.stmts) \in Nat
    BY <2>1, FS_CardinalityType
  <2> QED
    BY <2>1, <2>2
<1> HIDE DEF n
<1>2. bn \in [1..n -> Nat \ Known(S)] /\ \A i, j \in 1..n : bn[i] = bn[j] => i = j
  BY <1>1, FreshNodes
<1> HIDE DEF bn
<1>3. /\ N \subseteq Shapes /\ <<e, "a", TypeIRI>> \in N
      /\ \A i \in 1..n : \E t \in N : t[3] = bn[i]
      /\ \A t \in N : t[1] \in Nat => \E i \in 1..n : t[1] = bn[i]
      /\ \A t \in N : t[3] \in Nat => \E i \in 1..n :
           /\ t[3] = bn[i]
           /\ i = 1 \/ i > depth => t[1] = e
           /\ i > 1 /\ i <= depth => i - 1 \in 1..n /\ t[1] = bn[i-1]
      /\ \A t, u \in N : t[3] \in Nat /\ u[3] = t[3] => t = u
  <2>1. bn \in [1..n -> Nat] /\ DOMAIN bn = 1..n
    BY <1>2
  <2>2. NewTree(N, e, depth, bn)
    BY <1>2, <2>1, NewTriples DEF n
  <2> HIDE DEF N, depth
  <2> QED
    BY <2>1, <2>2, Names DEF NewTree
<1> HIDE DEF N, depth
<1>4. nodes \subseteq Nat /\ nodes \cap Known(S) = {}
  BY <1>2
<1>5. Known(All) = Known(S) \cup nodes
  <2>1. \A t \in N : (t[1] \in Nat => t[1] \in nodes) /\ (t[3] \in Nat => t[3] \in nodes)
    BY <1>3
  <2>2. \A b \in nodes : b \in Nat /\ \E t \in N : t[3] = b
    BY <1>3, <1>4
  <2> HIDE DEF nodes
  <2>3. Known(N) = nodes
    BY <2>1, <2>2 DEF Known
  <2>4. Known(All) = Known(S) \cup Known(N)
    BY DEF Known
  <2> QED
    BY <2>3, <2>4
<1>6. IsFiniteSet(Known(All))
  <2>1. IsFiniteSet(1..n)
    BY <1>1, FS_Interval
  <2>2. IsFiniteSet(nodes)
    <3>1. bn \in Surjection(1..n, nodes)
      BY <1>2 DEF Surjection
    <3> QED
      BY <2>1, <3>1, FS_Surjection
  <2> QED
    BY <1>5, <2>2, FS_Union
<1>7. PICK at \in [nodes -> 1..n] : \A i \in 1..n : at[bn[i]] = i
  <2> DEFINE f == [b \in nodes |-> CHOOSE i \in 1..n : bn[i] = b]
  <2>1. ASSUME NEW b \in nodes PROVE f[b] \in 1..n /\ bn[f[b]] = b
    <3>1. \E i \in 1..n : bn[i] = b
      OBVIOUS
    <3> QED
      BY <3>1
  <2>2. f \in [nodes -> 1..n]
    BY <2>1
  <2>3. \A i \in 1..n : bn[i] \in nodes
    OBVIOUS
  <2> HIDE DEF f, nodes
  <2>4. \A i \in 1..n : f[bn[i]] = i
    BY <1>2, <2>1, <2>3
  <2> QED
    BY <2>2, <2>4
<1> DEFINE own == [b \in Known(All) |-> IF b \in Known(S) THEN owner[b] ELSE e]
           rk  == [b \in Known(All) |-> IF b \in Known(S) THEN rank[b]
                                        ELSE IF at[b] <= depth THEN at[b] ELSE 1]
<1>8. own \in Owners(All)
  BY DEF Owners
<1>9. rk \in Ranks(All)
  <2>1. 1 \in 1..(WriteDepth + 1) /\ \A i \in 1..depth : i \in 1..(WriteDepth + 1)
    BY <1>1, BoundsAssumption DEF depth
  <2>2. \A b \in Known(S) : rank[b] \in 1..(WriteDepth + 1)
    BY DEF Ranks
  <2>3. \A b \in nodes : at[b] \in 1..n /\ (at[b] <= depth => at[b] \in 1..depth)
    BY <1>1, <1>7
  <2> QED
    BY <1>5, <2>1, <2>2, <2>3 DEF Ranks
<1>10. \A b \in Known(S) : b \in Known(All) /\ own[b] = owner[b] /\ rk[b] = rank[b]
  BY <1>5
<1>11. \A i \in 1..n : /\ bn[i] \in Known(All) /\ own[bn[i]] = e
                       /\ rk[bn[i]] = IF i <= depth THEN i ELSE 1
  BY <1>4, <1>5, <1>7
<1>12. \A t \in S : /\ t[3] \in Nat => t[3] \in Known(S)
                    /\ t[1] \in Nat => t[1] \in Known(S)
  BY DEF Known
<1>13. \A t \in N : t[3] \in Nat => t[3] \notin Known(S)
  BY <1>2, <1>3
<1>14. depth <= WriteDepth
  BY DEF depth
<1> HIDE DEF own, rk, nodes
<1>15. ASSUME NEW b \in Known(All)
       PROVE  /\ rk[b] = 1 \/ rk[b] <= WriteDepth
              /\ <<own[b], "a", TypeIRI>> \in All
              /\ \E t \in All : t[3] = b
  <2>1. CASE b \in Known(S)
    BY <1>10, <2>1 DEF Grows
  <2>2. CASE b \in nodes
    <3>1. PICK i \in 1..n : b = bn[i]
      BY <2>2 DEF nodes
    <3>2. rk[b] = 1 \/ rk[b] <= WriteDepth
      BY <1>1, <1>11, <1>14, <3>1, BoundsAssumption
    <3> QED
      BY <1>3, <1>11, <3>1, <3>2
  <2> QED
    BY <1>5, <2>1, <2>2
<1>16. ASSUME NEW t \in All, NEW u \in All, t[3] \in Nat, u[3] = t[3] PROVE t = u
  <2>1. CASE t \in S /\ u \in S
    BY <1>16, <2>1 DEF Grows
  <2>2. CASE t \in N /\ u \in N
    BY <1>3, <1>16, <2>2
  <2>3. CASE t[3] \in Known(S)
    BY <1>13, <1>16, <2>1, <2>3
  <2> QED
    BY <1>12, <1>16, <2>1, <2>2, <2>3
<1>17. ASSUME NEW t \in All, t[3] \in Nat
       PROVE  \/ t[1] \in Entities /\ own[t[3]] = t[1] /\ rk[t[3]] = 1
              \/ t[1] \in Nat /\ own[t[3]] = own[t[1]] /\ rk[t[3]] = rk[t[1]] + 1
  <2>1. CASE t \in S
    BY <1>10, <1>12, <1>17, <2>1 DEF Grows
  <2>2. CASE t \in N
    <3>1. PICK i \in 1..n : /\ t[3] = bn[i]
                            /\ i = 1 \/ i > depth => t[1] = e
                            /\ i > 1 /\ i <= depth => i - 1 \in 1..n /\ t[1] = bn[i-1]
      BY <1>3, <1>17, <2>2
    <3>2. CASE i = 1 \/ i > depth
      <4>1. rk[bn[i]] = 1
        BY <1>1, <1>11, <3>2
      <4> QED
        BY <1>11, <3>1, <3>2, <4>1
    <3>3. CASE i > 1 /\ i <= depth
      <4>1. i - 1 \in 1..n /\ i - 1 <= depth /\ t[1] = bn[i - 1]
        BY <1>1, <3>1, <3>3
      <4>2. rk[bn[i]] = i /\ rk[bn[i - 1]] = i - 1 /\ own[bn[i - 1]] = e /\ own[bn[i]] = e
        BY <1>11, <3>3, <4>1
      <4>3. bn[i - 1] \in Nat
        BY <1>2, <4>1
      <4> QED
        BY <3>1, <4>1, <4>2, <4>3
    <3> QED
      BY <1>1, <3>2, <3>3
  <2> QED
    BY <2>1, <2>2
<1> HIDE DEF All
<1>18. Grows(All, own, rk)
  BY <1>15, <1>16, <1>17 DEF Grows
<1>19. All \subseteq Shapes
  BY <1>3 DEF All
<1> QED
  BY <1>6, <1>8, <1>9, <1>18, <1>19 DEF Forest, All, N, bn, n, depth
-----------------------------------------------------------------------------
(***************************************************************************)
(* The calls.                                                              *)
(***************************************************************************)
LEMMA LoadedDocs ==
  ASSUME triples \subseteq Shapes, NEW e \in Entities
  PROVE  LoadDocument(e) \in DocType /\ NoDoc \in DocType
<1>1. \A s : Objects(s, "title") \subseteq Titles /\ Objects(s, "value") \subseteq Titles
             /\ Objects(s, "link") \subseteq Entities
  <2>1. \A t \in Shapes : /\ t[2] \in {"title", "value"} => t[3] \in Titles
                          /\ t[2] = "link" => t[3] \in Entities
    BY DEF Shapes
  <2> QED
    BY <2>1 DEF Objects
<1>2. Statements(e) \subseteq Titles
  BY <1>1 DEF Statements
<1>3. Parts(e) \in Seq(SUBSET Titles)
  <2> DEFINE lvl[n \in 0..WriteDepth] ==
               IF n = 0 THEN {e} ELSE UNION {Objects(b, "part") : b \in lvl[n-1]}
             deep == {m \in 1..WriteDepth : lvl[m] # {}}
             at(n) == UNION {Objects(b, "title") : b \in lvl[n]}
  <2>1. Parts(e) = [n \in 1..Cardinality(deep) |-> at(n)]
    BY DEF Parts
  <2>2. \A n : at(n) \subseteq Titles
    BY <1>1
  <2>3. Cardinality(deep) \in Nat
    <3>1. IsFiniteSet(1..WriteDepth) /\ deep \in SUBSET (1..WriteDepth)
      BY BoundsAssumption, FS_Interval
    <3> HIDE DEF deep
    <3> QED
      BY <3>1, FS_Subset, FS_CardinalityType
  <2> HIDE DEF deep, at
  <2> QED
    BY <2>1, <2>2, <2>3
<1>4. Linking(e) \subseteq Entities /\ LinkedTo(e) \subseteq Entities
  BY <1>1 DEF Linking, LinkedTo
<1>5. NoDoc \in DocType
  BY DEF NoDoc, DocType
<1> QED
  BY <1>1, <1>2, <1>3, <1>4, <1>5 DEF LoadDocument, DocType

LEMMA StartKeeps ==
  ASSUME IInv, NEW c \in Clients, NEW e \in Entities, NEW kind \in {"upsert", "statement"},
         NEW doc \in DocType, Start(c, e, kind, doc), faults' \in 0..MaxFaults
  PROVE  IInv'
<1>1. triples' = triples /\ writes' \in 0..MaxWrites
  BY BoundsAssumption DEF Start, IInv
<1>2. CallsInv'
  <2> DEFINE call == [st |-> "save", kind |-> kind, e |-> e, doc |-> doc,
                      readable |-> Readable(e), alone |-> TRUE]
  <2>1. call \in CallType
    BY DEF CallType, Readable, Complete
  <2>2. calls' = [calls EXCEPT ![c] = call]
    BY DEF Start
  <2> HIDE DEF call
  <2> QED
    BY <2>1, <2>2 DEF IInv, CallsInv
<1> QED
  BY <1>1, <1>2 DEF IInv

LEMMA UpsertKeeps ==
  ASSUME IInv, NEW c \in Clients, NEW e \in Entities, NEW d \in Docs,
         Upsert(c, e, d) \/ UpsertUnread(c, e, d)
  PROVE  IInv'
<1>1. LoadDocument(e) \in DocType /\ NoDoc \in DocType /\ d \in DocType
  BY LoadedDocs, DocsAssumption DEF IInv, Forest, DocType
<1>2. \A p \in DocType : CarryOver(d, p) \in DocType
  BY <1>1 DEF CarryOver, DocType
<1>3. faults' \in 0..MaxFaults
  BY BoundsAssumption DEF Upsert, UpsertUnread, IInv
<1>4. \E doc \in DocType : Start(c, e, "upsert", doc)
  BY <1>1, <1>2 DEF Upsert, UpsertUnread
<1> QED
  BY <1>3, <1>4, StartKeeps

LEMMA WriteStatementKeeps ==
  ASSUME IInv, NEW c \in Clients, NEW e \in Entities, NEW v \in Titles,
         WriteStatement(c, e, v)
  PROVE  IInv'
<1>1. LoadDocument(e) \in DocType
  BY LoadedDocs DEF IInv, Forest
<1>2. AddStatement(LoadDocument(e), v) \in DocType
  BY <1>1 DEF AddStatement, DocType
<1>3. faults' \in 0..MaxFaults /\ Start(c, e, "statement", AddStatement(LoadDocument(e), v))
  BY DEF WriteStatement, IInv
<1> QED
  BY <1>2, <1>3, StartKeeps

LEMMA StepKeepsCalls ==
  ASSUME CallsInv, NEW c \in Clients, NEW next \in {IdleCall} \cup CallType, Step(c, next)
  PROVE  CallsInv'
<1>1. [IdleCall EXCEPT !.alone = FALSE] = IdleCall
  <2>1. DOMAIN IdleCall = {"st", "alone"} /\ IdleCall.alone = FALSE
    BY DEF IdleCall
  <2>2. IdleCall = [f \in DOMAIN IdleCall |-> IdleCall[f]]
    BY DEF IdleCall
  <2>3. [IdleCall EXCEPT !.alone = FALSE]
          = [f \in DOMAIN IdleCall |-> IF f = "alone" THEN FALSE ELSE IdleCall[f]]
    OBVIOUS
  <2>4. \A f \in DOMAIN IdleCall : (IF f = "alone" THEN FALSE ELSE IdleCall[f]) = IdleCall[f]
    BY <2>1
  <2> QED
    BY <2>2, <2>3, <2>4
<1>2. \A x \in CallType : [x EXCEPT !.alone = FALSE] \in CallType
  BY DEF CallType
<1>3. \A x \in Clients : [calls[x] EXCEPT !.alone = FALSE] \in {IdleCall} \cup CallType
  BY <1>1, <1>2 DEF CallsInv
<1> QED
  BY <1>3 DEF CallsInv, Step

LEMMA CallFields ==
  ASSUME CallsInv, NEW c \in Clients, calls[c].st # "idle"
  PROVE  calls[c] \in CallType /\ calls[c].e \in Entities /\ calls[c].doc \in DocType
BY DEF CallsInv, CallType, IdleCall

LEMMA CleanDocs ==
  ASSUME NEW e \in Entities, NEW d \in DocType
  PROVE  Clean(e, d) \in DocType /\ Len(Clean(e, d).parts) <= WriteDepth
<1> DEFINE depth == IF Len(d.parts) < WriteDepth THEN Len(d.parts) ELSE WriteDepth
<1>1. d.parts \in Seq(SUBSET Titles) /\ depth \in 0..Len(d.parts) /\ depth <= WriteDepth
  BY BoundsAssumption DEF DocType
<1>2. Clean(e, d) = [d EXCEPT !.parts = SubSeq(d.parts, 1, depth), !.links = d.links \ {e}]
  BY DEF Clean, DocType
<1> HIDE DEF depth
<1>3. SubSeq(d.parts, 1, depth) \in Seq(SUBSET Titles) /\ Len(SubSeq(d.parts, 1, depth)) = depth
  BY <1>1
<1> QED
  BY <1>1, <1>2, <1>3 DEF DocType

LEMMA SaveKeeps ==
  ASSUME IInv, NEW c \in Clients, Save(c) PROVE IInv'
<1> DEFINE e == calls[c].e
           d == Clean(e, calls[c].doc)
           kept == triples \ Description(e)
           anon == Len(d.parts) + Cardinality(d.stmts)
<1>1. /\ calls[c] \in CallType /\ e \in Entities /\ calls[c].doc \in DocType
      /\ triples' = kept \cup DocTriples(e, d, Fresh(kept, anon))
      /\ Step(c, [calls[c] EXCEPT !.st = "sync"])
      /\ writes' = writes /\ faults' = faults
  BY CallFields DEF Save, IInv
<1>2. d \in DocType /\ Len(d.parts) <= WriteDepth
  BY <1>1, CleanDocs
<1>3. [calls[c] EXCEPT !.st = "sync"] \in CallType
  BY <1>1 DEF CallType
<1>4. CallsInv'
  BY <1>1, <1>3, StepKeepsCalls DEF IInv
<1> HIDE DEF d, e
<1>5. /\ kept \subseteq Shapes /\ IsFiniteSet(Known(kept))
      /\ \E owner \in Owners(kept), rank \in Ranks(kept) : Grows(kept, owner, rank)
  BY <1>1, CutLeavesForest DEF IInv
<1> HIDE DEF kept
<1>6. Forest(kept \cup DocTriples(e, d, Fresh(kept, anon)))
  BY <1>1, <1>2, <1>5, NewTreeGrows
<1> QED
  BY <1>1, <1>4, <1>6 DEF IInv

LEMMA SyncKeeps ==
  ASSUME IInv, NEW c \in Clients, Sync(c) PROVE IInv'
<1> DEFINE e == calls[c].e
           back == calls[c].doc.back
           old == {<<b, "link", e>> : b \in {x \in Entities : Typed(x)}}
           new == {<<b, "link", e>> : b \in back}
<1>1. /\ e \in Entities /\ back \subseteq Entities
      /\ triples' = (triples \ old) \cup new
      /\ Step(c, IdleCall) /\ writes' = writes /\ faults' = faults
  BY CallFields DEF Sync, IInv, InverseSync, DocType
<1>2. CallsInv'
  BY <1>1, StepKeepsCalls DEF IInv
<1>3. triples' \subseteq Shapes
  BY <1>1 DEF IInv, Forest, Shapes
<1>4. \A t : t[2] # "link" => (t \in triples <=> t \in triples')
  BY <1>1
<1>5. Forest(triples')
  BY <1>3, <1>4, LinksLeaveForest DEF IInv
<1> QED
  BY <1>1, <1>2, <1>5 DEF IInv

LEMMA CallFailsKeeps ==
  ASSUME IInv, NEW c \in Clients, CallFails(c) PROVE IInv'
<1>1. triples' = triples /\ writes' = writes /\ faults' \in 0..MaxFaults
  BY BoundsAssumption DEF CallFails, IInv
<1>2. CallsInv'
  BY DEF CallFails, IInv, CallsInv
<1> QED
  BY <1>1, <1>2 DEF IInv

LEMMA RemoveDocumentKeeps ==
  ASSUME IInv, NEW c \in Clients, NEW e \in Entities, RemoveDocument(c, e) PROVE IInv'
<1>1. /\ triples' = triples \ Description(e) /\ writes' \in 0..MaxWrites /\ faults' = faults
      /\ Step(c, IdleCall)
  BY BoundsAssumption DEF RemoveDocument, IInv
<1>2. CallsInv'
  BY <1>1, StepKeepsCalls DEF IInv
<1>3. Forest(triples')
  BY <1>1, CutLeavesForest DEF IInv, Forest
<1> QED
  BY <1>1, <1>2, <1>3 DEF IInv
-----------------------------------------------------------------------------
(***************************************************************************)
(* The theorems.                                                           *)
(***************************************************************************)
LEMMA InitInvariant == Init => IInv
<1> SUFFICES ASSUME Init PROVE IInv
  OBVIOUS
<1>1. triples = {} /\ Known(triples) = {}
  BY DEF Init, Known
<1>2. IsFiniteSet(Known(triples))
  BY <1>1, FS_EmptySet, Zenon
<1>3. [b \in {} |-> b] \in Owners(triples) /\ [b \in {} |-> b] \in Ranks(triples)
  BY <1>1 DEF Owners, Ranks
<1>4. \A owner, rank : Grows(triples, owner, rank)
  BY <1>1 DEF Grows
<1>5. Forest(triples)
  BY <1>1, <1>2, <1>3, <1>4 DEF Forest
<1>6. CallsInv /\ writes \in 0..MaxWrites /\ faults \in 0..MaxFaults
  BY BoundsAssumption DEF Init, CallsInv
<1> QED
  BY <1>5, <1>6 DEF IInv

LEMMA NextInvariant == IInv /\ [Next]_vars => IInv'
<1> SUFFICES ASSUME IInv, [Next]_vars PROVE IInv'
  OBVIOUS
<1>1. CASE UNCHANGED vars
  BY <1>1 DEF vars, IInv, CallsInv
<1>2. CASE Next
  BY <1>2, UpsertKeeps, WriteStatementKeeps, RemoveDocumentKeeps, SaveKeeps, SyncKeeps,
     CallFailsKeeps DEF Next
<1> QED
  BY <1>1, <1>2

\* The strengthened invariant holds of every reachable state of the SPARQL store.
THEOREM SparqlInvariant == Spec => []IInv
BY InitInvariant, NextInvariant, PTL DEF Spec

\* Every reachable state is well typed: which triples there are follows the schema.
THEOREM SparqlTypeCorrect == Spec => []TypeOK
<1>1. IInv => TypeOK
  <2> SUFFICES ASSUME IInv PROVE TypeOK
    OBVIOUS
  <2>1. triples \subseteq Shapes /\ BlankNodes = Known(triples)
    BY DEF IInv, Forest, BlankNodes, Known
  <2>2. ASSUME NEW t \in triples
        PROVE  \/ t[1] \in Entities /\ t[2] = "a" /\ t[3] = TypeIRI
               \/ t[1] \in Entities /\ t[2] = "link" /\ t[3] \in Entities
               \/ t[1] \in Entities \cup BlankNodes /\ t[2] = "title" /\ t[3] \in Titles
               \/ t[1] \in Entities \cup BlankNodes /\ t[2] = "part" /\ t[3] \in BlankNodes
               \/ t[1] \in Entities /\ t[2] = "stmt" /\ t[3] \in BlankNodes
               \/ t[1] \in BlankNodes /\ t[2] = "value" /\ t[3] \in Titles
    <3>1. (t[1] \in Nat => t[1] \in BlankNodes) /\ (t[3] \in Nat => t[3] \in BlankNodes)
      BY <2>1, Edges
    <3>2. t \in Shapes
      BY <2>1
    <3> QED
      BY <3>1, <3>2 DEF Shapes
  <2>3. ASSUME NEW c \in Clients
        PROVE  /\ calls[c].st \in {"idle", "save", "sync"}
               /\ calls[c].st # "idle" =>
                    /\ calls[c].e \in Entities /\ calls[c].kind \in {"upsert", "statement"}
                    /\ calls[c].doc.title \subseteq Titles /\ calls[c].doc.stmts \subseteq Titles
                    /\ calls[c].doc.links \cup calls[c].doc.back \subseteq Entities
    BY DEF IInv, CallsInv, CallType, DocType, IdleCall
  <2> QED
    BY <2>2, <2>3 DEF IInv, TypeOK
<1> QED
  BY <1>1, SparqlInvariant, PTL

\* However saves, removals, inverse syncs and failures overlap, and however deep objects
\* are nested, every anonymous object belongs to exactly one stored document.
THEOREM NoOrphanIsLeft == Spec => []NoOrphans
<1>1. IInv => NoOrphans
  <2> SUFFICES ASSUME IInv, NEW b \in BlankNodes
               PROVE  /\ Cardinality({t \in triples : t[3] = b}) = 1
                      /\ Cardinality({e \in Entities : Typed(e) /\ b \in Subjects(e, WriteDepth + 1)}) = 1
    BY DEF NoOrphans
  <2>1. PICK owner \in Owners(triples), rank \in Ranks(triples) : Grows(triples, owner, rank)
    BY DEF IInv, Forest
  <2>2. b \in Known(triples) /\ b \in Nat /\ b \notin Entities /\ triples \subseteq Shapes
    BY Names DEF IInv, Forest, BlankNodes, Known
  <2>3. PICK t \in triples : t[3] = b
    BY <2>1, <2>2 DEF Grows
  <2>4. {u \in triples : u[3] = b} = {t}
    BY <2>1, <2>2, <2>3 DEF Grows
  <2>5. rank[b] <= WriteDepth + 1 /\ WriteDepth + 1 \in Nat
    BY <2>1, <2>2, BoundsAssumption DEF Ranks
  <2>6. \A e \in Entities : b \in Subjects(e, WriteDepth + 1) <=> owner[b] = e
    BY <2>1, <2>2, <2>5, SubjectsAre DEF Upto
  <2>7. owner[b] \in Entities /\ Typed(owner[b])
    BY <2>1, <2>2 DEF Owners, Grows, Typed
  <2>8. {e \in Entities : Typed(e) /\ b \in Subjects(e, WriteDepth + 1)} = {owner[b]}
    BY <2>6, <2>7
  <2> QED
    BY <2>4, <2>8, FS_Singleton, Zenon
<1> QED
  BY <1>1, SparqlInvariant, PTL

\* Neither a save nor a removal deletes a triple of another document, nested objects and
\* statements included, or adds one to it.
OthersStay ==
  [][\A c \in Clients, e \in Entities :
       (Save(c) /\ calls[c].e = e) \/ RemoveDocument(c, e) =>
       \A b \in Entities \ {e} :
         /\ Description(b) \subseteq triples'
         /\ \A t \in triples' \ triples : t[1] \notin Subjects(b, DeleteDepth)]_vars

THEOREM OtherDocumentsStay == Spec => OthersStay
<1> DEFINE Stay(e, b) ==
      /\ Description(b) \subseteq triples'
      /\ \A t \in triples' \ triples : t[1] \notin Subjects(b, DeleteDepth)
<1>1. ASSUME IInv, NEW c \in Clients, NEW e \in Entities,
             (Save(c) /\ calls[c].e = e) \/ RemoveDocument(c, e), NEW b \in Entities \ {e}
      PROVE  Stay(e, b)
  <2>1. PICK owner \in Owners(triples), rank \in Ranks(triples) : Grows(triples, owner, rank)
    BY <1>1 DEF IInv, Forest
  <2>2. triples \subseteq Shapes /\ b \in Entities
    BY <1>1 DEF IInv, Forest
  <2> DEFINE kept == triples \ Description(e)
  <2>3. Description(b) \subseteq kept
    <3> SUFFICES ASSUME NEW t \in Description(b) PROVE t \in kept
      OBVIOUS
    <3>1. Typed(b) /\ t \in triples /\ (t[1] = b \/ (t[1] \in Nat /\ owner[t[1]] = b))
      BY <2>1, <2>2, CutIsTree DEF Description
    <3>2. ~(t[1] = e \/ (t[1] \in Nat /\ owner[t[1]] = e))
      BY <1>1, <3>1, Names
    <3> QED
      BY <1>1, <2>1, <2>2, <3>1, <3>2, CutIsTree
  <2>4. CASE RemoveDocument(c, e)
    BY <2>3, <2>4 DEF RemoveDocument
  <2>5. CASE Save(c) /\ calls[c].e = e
    <3> DEFINE d == Clean(e, calls[c].doc)
               n == Len(d.parts) + Cardinality(d.stmts)
               bn == Fresh(kept, n)
               N == DocTriples(e, d, bn)
    <3>1. calls[c].doc \in DocType /\ triples' = kept \cup N
      BY <1>1, <2>5, CallFields DEF Save, IInv
    <3>2. d \in DocType
      BY <1>1, <3>1, CleanDocs
    <3>3. n \in Nat
      <4>1. IsFiniteSet(d.stmts) /\ d.parts \in Seq(SUBSET Titles)
        BY <3>2, DocsAssumption, FS_Subset DEF DocType
      <4> QED
        BY <4>1, FS_CardinalityType
    <3>4. IsFiniteSet(Known(kept))
      BY <1>1, CutLeavesForest DEF IInv
    <3>5. bn \in [1..n -> Nat \ Known(kept)] /\ \A i, j \in 1..n : bn[i] = bn[j] => i = j
      <4> HIDE DEF n, kept
      <4> QED
        BY <3>3, <3>4, FreshNodes
    <3> HIDE DEF bn, d, kept
    <3>6. NewTree(N, e, Len(d.parts), bn)
      <4>1. bn \in [1..n -> Nat] /\ DOMAIN bn = 1..n
        BY <3>5
      <4> QED
        BY <1>1, <3>2, <3>5, <4>1, NewTriples
    <3>7. \A x \in Known(triples) : owner[x] = b => x \in Known(kept)
      <4> SUFFICES ASSUME NEW x \in Known(triples), owner[x] = b PROVE x \in Known(kept)
        OBVIOUS
      <4>1. PICK t \in triples : t[3] = x
        BY <2>1 DEF Grows
      <4>2. x \in Nat
        BY DEF Known
      <4>3. ~(t[1] = e \/ (t[1] \in Nat /\ owner[t[1]] = e))
        BY <1>1, <2>1, <4>1, <4>2, Names DEF Grows
      <4>4. t \in kept
        BY <1>1, <2>1, <2>2, <4>1, <4>3, CutIsTree DEF kept
      <4> QED
        BY <4>1, <4>2, <4>4 DEF Known
    <3>8. Subjects(b, DeleteDepth) \subseteq {b} \cup {x \in Known(triples) : owner[x] = b}
      <4>1. DeleteDepth \in Nat
        BY BoundsAssumption DEF DeleteDepth
      <4> QED
        BY <2>1, <2>2, <4>1, SubjectsAre DEF Upto
    <3>9. ASSUME NEW t \in N PROVE t[1] # b /\ t[1] \notin Known(kept)
      <4>1. t[1] = e \/ \E i \in 1..n : t[1] = bn[i]
        BY <3>5, <3>6 DEF NewTree
      <4>2. \A i \in 1..n : bn[i] \in Nat /\ bn[i] \notin Known(kept)
        BY <3>5
      <4> HIDE DEF n
      <4> QED
        BY <1>1, <2>2, <4>1, <4>2, Names DEF Known
    <3> QED
      BY <2>3, <3>1, <3>7, <3>8, <3>9 DEF kept
  <2> QED
    BY <1>1, <2>4, <2>5
<1>2. IInv /\ [Next]_vars => \A c \in Clients, e \in Entities :
        (Save(c) /\ calls[c].e = e) \/ RemoveDocument(c, e) =>
        \A b \in Entities \ {e} : Stay(e, b)
  BY <1>1
<1> QED
  BY <1>2, SparqlInvariant, PTL DEF OthersStay, Spec

-----------------------------------------------------------------------------
(***************************************************************************)
(* Reading a document: the same with the triples as a parameter.           *)
(***************************************************************************)
ObjectsIn(S, s, p) == {t[3] : t \in {u \in S : u[1] = s /\ u[2] = p}}

OwnedIn(S, X) ==
  {t[3] : t \in {u \in S : u[1] \in X /\ u[2] \in Followed /\ Anonymous(u[3])}}

NextParts(S, X) == UNION {ObjectsIn(S, b, "part") : b \in X}

\* The nested objects at each level, and the subjects up to each.
LevelsOf(S, e, f) == [n \in 0..WriteDepth |-> IF n = 0 THEN {e} ELSE NextParts(S, f[n-1])]
ReachedOf(S, e, f) ==
  [n \in 0..(WriteDepth + 1) |-> IF n = 0 THEN {e} ELSE f[n-1] \cup OwnedIn(S, f[n-1])]

Levels(S, e)  == CHOOSE f : f = LevelsOf(S, e, f)
Reached(S, e) == CHOOSE f : f = ReachedOf(S, e, f)

PartsIn(S, e) ==
  [n \in 1..Cardinality({m \in 1..WriteDepth : Levels(S, e)[m] # {}}) |->
     UNION {ObjectsIn(S, b, "title") : b \in Levels(S, e)[n]}]

\* StoredDoc() with the links given.
DocIn(S, e, links) ==
  [typed |-> <<e, "a", TypeIRI>> \in S, title |-> ObjectsIn(S, e, "title"),
   parts |-> PartsIn(S, e), links |-> links,
   stmts |-> UNION {ObjectsIn(S, b, "value") : b \in ObjectsIn(S, e, "stmt")},
   anon |-> Cardinality(Reached(S, e)[WriteDepth + 1] \ {e})]

\* What the model reads is what these read of the current triples, and of the next ones.
LEMMA StoredDocIs ==
  ASSUME NEW e
  PROVE  /\ StoredDoc(e) = DocIn(triples, e, ObjectsIn(triples, e, "link"))
         /\ StoredDoc(e)' = DocIn(triples', e, ObjectsIn(triples', e, "link"))
<1>1. \A s, p : /\ Objects(s, p) = ObjectsIn(triples, s, p)
                /\ Objects(s, p)' = ObjectsIn(triples', s, p)
  BY DEF Objects, ObjectsIn
<1>2. Parts(e) = PartsIn(triples, e) /\ Parts(e)' = PartsIn(triples', e)
  BY DEF Parts, PartsIn, Objects, ObjectsIn, Levels, LevelsOf, NextParts
<1>3. /\ Subjects(e, WriteDepth + 1) = Reached(triples, e)[WriteDepth + 1]
      /\ Subjects(e, WriteDepth + 1)' = Reached(triples', e)[WriteDepth + 1]
  BY DEF Subjects, Reached, ReachedOf, Owned, OwnedIn
<1>4. Statements(e) = UNION {ObjectsIn(triples, b, "value") : b \in ObjectsIn(triples, e, "stmt")}
      /\ Statements(e)' = UNION {ObjectsIn(triples', b, "value") : b \in ObjectsIn(triples', e, "stmt")}
  BY <1>1 DEF Statements
<1> QED
  BY <1>1, <1>2, <1>3, <1>4 DEF StoredDoc, DocIn, Typed

\* Induction over the numbers up to d, with a set in place of the predicate.
LEMMA Reaches ==
  ASSUME NEW d \in Nat, NEW P, 0 \in P, \A n \in 1..d : n - 1 \in P => n \in P
  PROVE  \A n \in 0..d : n \in P
<1> DEFINE G == (0..d) \ P
<1>1. SUFFICES ASSUME G # {} PROVE FALSE
  OBVIOUS
<1>2. PICK n \in G : \A m \in G : n <= m
  <2>1. G \in SUBSET Nat
    OBVIOUS
  <2> HIDE DEF G
  <2> QED
    BY <1>1, <2>1, LeastElement
<1>3. n \in 1..d /\ n - 1 \in 0..d /\ ~(n <= n - 1)
  OBVIOUS
<1> QED
  BY <1>2, <1>3

\* A rule that gives every level from the one before has a solution.
LEMMA LevelsRecurse ==
  ASSUME NEW S, NEW e
  PROVE  \A n \in 0..WriteDepth :
           Levels(S, e)[n] = IF n = 0 THEN {e} ELSE NextParts(S, Levels(S, e)[n - 1])
<1> DEFINE Rule(k, f) == [n \in 0..k |-> IF n = 0 THEN {e} ELSE NextParts(S, f[n-1])]
           P == {k \in Nat : \E f : f = Rule(k, f)}
<1>1. 0 \in P
  <2> DEFINE h == [n \in 0..0 |-> {e}]
  <2>1. \A n \in 0..0 : h[n] = Rule(0, h)[n]
    OBVIOUS
  <2>2. h = Rule(0, h)
    BY <2>1
  <2> QED
    BY <2>2
<1>2. ASSUME NEW k \in 1..(WriteDepth), k - 1 \in P PROVE k \in P
  <2>1. PICK f : f = Rule(k - 1, f)
    BY <1>2
  <2> DEFINE h == [n \in 0..k |-> IF n = k THEN NextParts(S, f[k - 1]) ELSE f[n]]
  <2>2. ASSUME NEW n \in 0..k PROVE h[n] = Rule(k, h)[n]
    <3>1. CASE n = k
      <4>1. h[n - 1] = f[k - 1]
        BY <3>1
      <4> QED
        BY <3>1, <4>1
    <3>2. CASE n # k
      <4>1. n \in 0..(k - 1) /\ h[n] = f[n]
        BY <3>2
      <4>2. f[n] = IF n = 0 THEN {e} ELSE NextParts(S, f[n - 1])
        BY <2>1, <4>1
      <4>3. n # 0 => h[n - 1] = f[n - 1]
        BY <4>1
      <4> QED
        BY <4>1, <4>2, <4>3
    <3> QED
      BY <3>1, <3>2
  <2>3. h = Rule(k, h)
    BY <2>2
  <2>4. k \in Nat
    OBVIOUS
  <2> HIDE DEF h, Rule
  <2> QED
    BY <2>3, <2>4, Zenon
<1>3. WriteDepth \in P
  <2>1. WriteDepth \in Nat /\ WriteDepth \in 0..(WriteDepth)
    BY BoundsAssumption
  <2> HIDE DEF P
  <2> QED
    BY <1>1, <1>2, <2>1, Reaches
<1>4. PICK f : f = Rule(WriteDepth, f)
  BY <1>3
<1>5. f = LevelsOf(S, e, f)
  BY <1>4, Zenon DEF LevelsOf
<1> DEFINE g == Levels(S, e)
<1>6. g = LevelsOf(S, e, g)
  BY <1>5, Zenon DEF Levels
<1> HIDE DEF g
<1>7. \A n \in 0..(WriteDepth) : g[n] = LevelsOf(S, e, g)[n]
  BY <1>6
<1>8. \A n \in 0..(WriteDepth) : g[n] = IF n = 0 THEN {e} ELSE NextParts(S, g[n - 1])
  BY <1>7 DEF LevelsOf
<1> QED
  BY <1>8 DEF g

\* The same for the subjects.
LEMMA ReachedRecurses ==
  ASSUME NEW S, NEW e
  PROVE  \A n \in 0..(WriteDepth + 1) :
           Reached(S, e)[n] = IF n = 0 THEN {e}
                              ELSE Reached(S, e)[n - 1] \cup OwnedIn(S, Reached(S, e)[n - 1])
<1> DEFINE Rule(k, f) == [n \in 0..k |-> IF n = 0 THEN {e} ELSE f[n-1] \cup OwnedIn(S, f[n-1])]
           P == {k \in Nat : \E f : f = Rule(k, f)}
<1>1. 0 \in P
  <2> DEFINE h == [n \in 0..0 |-> {e}]
  <2>1. \A n \in 0..0 : h[n] = Rule(0, h)[n]
    OBVIOUS
  <2>2. h = Rule(0, h)
    BY <2>1
  <2> QED
    BY <2>2
<1>2. ASSUME NEW k \in 1..(WriteDepth + 1), k - 1 \in P PROVE k \in P
  <2>1. PICK f : f = Rule(k - 1, f)
    BY <1>2
  <2> DEFINE h == [n \in 0..k |-> IF n = k THEN f[k - 1] \cup OwnedIn(S, f[k - 1]) ELSE f[n]]
  <2>2. ASSUME NEW n \in 0..k PROVE h[n] = Rule(k, h)[n]
    <3>1. CASE n = k
      <4>1. h[n - 1] = f[k - 1]
        BY <3>1
      <4> QED
        BY <3>1, <4>1
    <3>2. CASE n # k
      <4>1. n \in 0..(k - 1) /\ h[n] = f[n]
        BY <3>2
      <4>2. f[n] = IF n = 0 THEN {e} ELSE f[n - 1] \cup OwnedIn(S, f[n - 1])
        BY <2>1, <4>1
      <4>3. n # 0 => h[n - 1] = f[n - 1]
        BY <4>1
      <4> QED
        BY <4>1, <4>2, <4>3
    <3> QED
      BY <3>1, <3>2
  <2>3. h = Rule(k, h)
    BY <2>2
  <2>4. k \in Nat
    OBVIOUS
  <2> HIDE DEF h, Rule
  <2> QED
    BY <2>3, <2>4, Zenon
<1>3. WriteDepth + 1 \in P
  <2>1. WriteDepth + 1 \in Nat /\ WriteDepth + 1 \in 0..(WriteDepth + 1)
    BY BoundsAssumption
  <2> HIDE DEF P
  <2> QED
    BY <1>1, <1>2, <2>1, Reaches
<1>4. PICK f : f = Rule(WriteDepth + 1, f)
  BY <1>3
<1>5. f = ReachedOf(S, e, f)
  BY <1>4, Zenon DEF ReachedOf
<1> DEFINE g == Reached(S, e)
<1>6. g = ReachedOf(S, e, g)
  BY <1>5, Zenon DEF Reached
<1> HIDE DEF g
<1>7. \A n \in 0..(WriteDepth + 1) : g[n] = ReachedOf(S, e, g)[n]
  BY <1>6
<1>8. \A n \in 0..(WriteDepth + 1) : g[n] = IF n = 0 THEN {e} ELSE g[n - 1] \cup OwnedIn(S, g[n - 1])
  BY <1>7 DEF ReachedOf
<1> QED
  BY <1>8 DEF g

\* The stores S and T have the same triples, links aside, about the subjects K, which no
\* anonymous object leads out of.
SameAround(S, T, K) ==
  /\ \A t \in S \cup T : t[1] \in K /\ t[2] # "link" => t \in S /\ t \in T
  /\ \A t \in S : t[1] \in K /\ t[3] \in Nat => t[3] \in K

\* Then every step of a read that starts there gives the same.
SameValues(S, T, K) ==
  /\ \A b \in K, p \in {"title", "part", "stmt", "value"} :
       ObjectsIn(S, b, p) = ObjectsIn(T, b, p)
  /\ \A b \in K : ObjectsIn(S, b, "part") \subseteq K /\ ObjectsIn(S, b, "stmt") \subseteq K
  /\ \A X \in SUBSET K : OwnedIn(S, X) = OwnedIn(T, X) /\ OwnedIn(S, X) \subseteq K

LEMMA SameObjects ==
  ASSUME NEW S, S \subseteq Shapes, NEW T, T \subseteq Shapes, NEW K, SameAround(S, T, K)
  PROVE  SameValues(S, T, K)
<1>1. ASSUME NEW b \in K, NEW p \in {"title", "part", "stmt", "value"}
      PROVE  ObjectsIn(S, b, p) = ObjectsIn(T, b, p)
  <2>1. \A t : t[1] = b /\ t[2] = p => (t \in S <=> t \in T)
    BY DEF SameAround
  <2> QED
    BY <2>1 DEF ObjectsIn
<1>2. ASSUME NEW b \in K
      PROVE  ObjectsIn(S, b, "part") \subseteq K /\ ObjectsIn(S, b, "stmt") \subseteq K
  <2>1. \A t \in Shapes : t[2] \in {"part", "stmt"} => t[3] \in Nat
    BY DEF Shapes
  <2>2. ASSUME NEW p \in {"part", "stmt"}, NEW t \in S, t[1] = b, t[2] = p PROVE t[3] \in K
    BY <2>1, <2>2 DEF SameAround
  <2> QED
    BY <2>2 DEF ObjectsIn
<1>3. ASSUME NEW X \in SUBSET K
      PROVE  OwnedIn(S, X) = OwnedIn(T, X) /\ OwnedIn(S, X) \subseteq K
  <2>1. \A t \in S \cup T : t[2] \in Followed /\ Anonymous(t[3]) => t[3] \in Nat /\ t[2] # "link"
    <3>1. \A t \in Shapes : t[2] = "link" => t[3] \in Entities
      BY DEF Shapes
    <3>2. \A t \in S \cup T : t[2] \in Followed /\ t[3] \notin Entities => t[3] \in Nat
      BY Edges
    <3> QED
      BY <3>1, <3>2 DEF Anonymous
  <2>2. \A t : t[1] \in X /\ t[2] \in Followed /\ Anonymous(t[3]) => (t \in S <=> t \in T)
    BY <2>1 DEF SameAround
  <2>3. OwnedIn(S, X) = OwnedIn(T, X)
    BY <2>2 DEF OwnedIn
  <2>4. OwnedIn(S, X) \subseteq K
    BY <2>1 DEF OwnedIn, SameAround
  <2> QED
    BY <2>3, <2>4
<1> QED
  BY <1>1, <1>2, <1>3 DEF SameValues

\* A read does not leave K, and finds the same in both.
LEMMA SameLevels ==
  ASSUME NEW S, S \subseteq Shapes, NEW T, T \subseteq Shapes, NEW K, SameAround(S, T, K),
         NEW e \in K
  PROVE  \A n \in 0..WriteDepth :
           Levels(S, e)[n] = Levels(T, e)[n] /\ Levels(S, e)[n] \in SUBSET K
<1>0. SameValues(S, T, K)
  BY SameObjects
<1> DEFINE P == {n \in Nat : Levels(S, e)[n] = Levels(T, e)[n] /\ Levels(S, e)[n] \in SUBSET K}
<1> DEFINE LevelOf(U, n) == IF n = 0 THEN {e} ELSE NextParts(U, Levels(U, e)[n - 1])
<1>1. /\ \A n \in 0..WriteDepth : Levels(S, e)[n] = LevelOf(S, n)
      /\ \A n \in 0..WriteDepth : Levels(T, e)[n] = LevelOf(T, n)
  <2>1. \A n \in 0..WriteDepth : Levels(S, e)[n] = LevelOf(S, n)
    BY LevelsRecurse
  <2>2. \A n \in 0..WriteDepth : Levels(T, e)[n] = LevelOf(T, n)
    BY LevelsRecurse
  <2> QED
    BY <2>1, <2>2
<1>2. 0 \in P
  <2>1. 0 \in Nat /\ 0 \in 0..WriteDepth
    BY BoundsAssumption
  <2>2. Levels(S, e)[0] = {e} /\ Levels(T, e)[0] = {e}
    BY <1>1, <2>1
  <2> QED
    BY <2>1, <2>2
<1>3. ASSUME NEW n \in 1..WriteDepth, n - 1 \in P PROVE n \in P
  <2> DEFINE X == Levels(S, e)[n - 1]
  <2>1. X = Levels(T, e)[n - 1] /\ X \in SUBSET K
    BY <1>3
  <2>2. n \in 0..WriteDepth /\ n # 0 /\ n \in Nat
    BY BoundsAssumption
  <2>3. Levels(S, e)[n] = NextParts(S, X) /\ Levels(T, e)[n] = NextParts(T, X)
    BY <1>1, <2>1, <2>2
  <2> HIDE DEF X
  <2>4. \A b \in X : /\ ObjectsIn(S, b, "part") = ObjectsIn(T, b, "part")
                     /\ ObjectsIn(S, b, "part") \subseteq K
    <3>1. \A b \in K : /\ ObjectsIn(S, b, "part") = ObjectsIn(T, b, "part")
                       /\ ObjectsIn(S, b, "part") \subseteq K
      BY <1>0 DEF SameValues
    <3> QED
      BY <2>1, <3>1
  <2>5. NextParts(S, X) = NextParts(T, X) /\ NextParts(S, X) \subseteq K
    BY <2>4 DEF NextParts
  <2> QED
    BY <2>2, <2>3, <2>5
<1> HIDE DEF P
<1>4. \A n \in 0..WriteDepth : n \in P
  BY <1>2, <1>3, Reaches, BoundsAssumption
<1> QED
  BY <1>4 DEF P

LEMMA SameReached ==
  ASSUME NEW S, S \subseteq Shapes, NEW T, T \subseteq Shapes, NEW K, SameAround(S, T, K),
         NEW e \in K
  PROVE  \A n \in 0..(WriteDepth + 1) :
           Reached(S, e)[n] = Reached(T, e)[n] /\ Reached(S, e)[n] \in SUBSET K
<1>0. SameValues(S, T, K)
  BY SameObjects
<1> DEFINE P == {n \in Nat : Reached(S, e)[n] = Reached(T, e)[n] /\ Reached(S, e)[n] \in SUBSET K}
<1> DEFINE ReachedIn(U, n) == IF n = 0 THEN {e}
                              ELSE Reached(U, e)[n - 1] \cup OwnedIn(U, Reached(U, e)[n - 1])
<1>1. /\ \A n \in 0..(WriteDepth + 1) : Reached(S, e)[n] = ReachedIn(S, n)
      /\ \A n \in 0..(WriteDepth + 1) : Reached(T, e)[n] = ReachedIn(T, n)
  <2>1. \A n \in 0..(WriteDepth + 1) : Reached(S, e)[n] = ReachedIn(S, n)
    BY ReachedRecurses
  <2>2. \A n \in 0..(WriteDepth + 1) : Reached(T, e)[n] = ReachedIn(T, n)
    BY ReachedRecurses
  <2> QED
    BY <2>1, <2>2
<1>2. 0 \in P
  <2>1. 0 \in Nat /\ 0 \in 0..(WriteDepth + 1)
    BY BoundsAssumption
  <2>2. Reached(S, e)[0] = {e} /\ Reached(T, e)[0] = {e}
    BY <1>1, <2>1
  <2> QED
    BY <2>1, <2>2
<1>3. ASSUME NEW n \in 1..(WriteDepth + 1), n - 1 \in P PROVE n \in P
  <2> DEFINE X == Reached(S, e)[n - 1]
  <2>1. X = Reached(T, e)[n - 1] /\ X \in SUBSET K
    BY <1>3
  <2>2. n \in 0..(WriteDepth + 1) /\ n # 0 /\ n \in Nat
    BY BoundsAssumption
  <2>3. Reached(S, e)[n] = X \cup OwnedIn(S, X) /\ Reached(T, e)[n] = X \cup OwnedIn(T, X)
    BY <1>1, <2>1, <2>2
  <2> HIDE DEF X
  <2>4. OwnedIn(S, X) = OwnedIn(T, X) /\ OwnedIn(S, X) \subseteq K
    BY <1>0, <2>1 DEF SameValues
  <2> QED
    BY <2>1, <2>2, <2>3, <2>4
<1> HIDE DEF P
<1>4. \A n \in 0..(WriteDepth + 1) : n \in P
  BY <1>2, <1>3, Reaches, BoundsAssumption
<1> QED
  BY <1>4 DEF P

\* What is read of an entity depends on the triples about it and its anonymous objects.
LEMMA SameDocs ==
  ASSUME NEW S, S \subseteq Shapes, NEW T, T \subseteq Shapes, NEW K, SameAround(S, T, K),
         NEW e \in K, NEW links
  PROVE  DocIn(S, e, links) = DocIn(T, e, links)
<1>0. SameValues(S, T, K)
  BY SameObjects
<1>1. (<<e, "a", TypeIRI>> \in S) = (<<e, "a", TypeIRI>> \in T)
  <2>1. <<e, "a", TypeIRI>>[1] = e /\ <<e, "a", TypeIRI>>[2] = "a"
    OBVIOUS
  <2> QED
    BY <2>1 DEF SameAround
<1>2. PartsIn(S, e) = PartsIn(T, e)
  <2>1. \A m \in 0..WriteDepth :
          Levels(S, e)[m] = Levels(T, e)[m] /\ Levels(S, e)[m] \in SUBSET K
    BY SameLevels
  <2> DEFINE deep == {m \in 1..WriteDepth : Levels(S, e)[m] # {}}
  <2>2. deep = {m \in 1..WriteDepth : Levels(T, e)[m] # {}}
    BY <2>1, BoundsAssumption
  <2>3. Cardinality(deep) \in Nat /\ Cardinality(deep) <= WriteDepth
    <3>1. deep \in SUBSET (1..WriteDepth)
      OBVIOUS
    <3> HIDE DEF deep
    <3>2. IsFiniteSet(1..WriteDepth) /\ Cardinality(1..WriteDepth) = WriteDepth
      BY BoundsAssumption, FS_Interval
    <3>3. IsFiniteSet(deep) /\ Cardinality(deep) <= Cardinality(1..WriteDepth)
      BY <3>1, <3>2, FS_Subset
    <3> QED
      BY <3>2, <3>3, FS_CardinalityType
  <2>4. ASSUME NEW n \in 1..Cardinality(deep)
        PROVE  UNION {ObjectsIn(S, b, "title") : b \in Levels(S, e)[n]}
                 = UNION {ObjectsIn(T, b, "title") : b \in Levels(T, e)[n]}
    <3>1. n \in 0..WriteDepth
      <4> HIDE DEF deep
      <4> QED
        BY <2>3, BoundsAssumption
    <3>2. Levels(S, e)[n] = Levels(T, e)[n] /\ Levels(S, e)[n] \in SUBSET K
      BY <2>1, <3>1
    <3>3. \A b \in Levels(S, e)[n] : ObjectsIn(S, b, "title") = ObjectsIn(T, b, "title")
      <4>1. \A b \in K : ObjectsIn(S, b, "title") = ObjectsIn(T, b, "title")
        BY <1>0 DEF SameValues
      <4> QED
        BY <3>2, <4>1
    <3> QED
      BY <3>2, <3>3
  <2> HIDE DEF deep
  <2> QED
    BY <2>2, <2>4 DEF PartsIn, deep
<1>3. Reached(S, e)[WriteDepth + 1] = Reached(T, e)[WriteDepth + 1]
  <2>1. WriteDepth + 1 \in 0..(WriteDepth + 1)
    BY BoundsAssumption
  <2>2. \A n \in 0..(WriteDepth + 1) :
          Reached(S, e)[n] = Reached(T, e)[n] /\ Reached(S, e)[n] \in SUBSET K
    BY SameReached
  <2> QED
    BY <2>1, <2>2
<1>4. ObjectsIn(S, e, "title") = ObjectsIn(T, e, "title")
  BY <1>0 DEF SameValues
<1>5. UNION {ObjectsIn(S, b, "value") : b \in ObjectsIn(S, e, "stmt")}
        = UNION {ObjectsIn(T, b, "value") : b \in ObjectsIn(T, e, "stmt")}
  <2>1. ObjectsIn(S, e, "stmt") = ObjectsIn(T, e, "stmt") /\ ObjectsIn(S, e, "stmt") \subseteq K
    BY <1>0 DEF SameValues
  <2>2. \A b \in ObjectsIn(S, e, "stmt") : ObjectsIn(S, b, "value") = ObjectsIn(T, b, "value")
    BY <1>0, <2>1 DEF SameValues
  <2> QED
    BY <2>1, <2>2
<1> QED
  BY <1>1, <1>2, <1>3, <1>4, <1>5, Zenon DEF DocIn

\* An entity without triples of its own.
LEMMA NothingStored ==
  ASSUME NEW e, NEW links
  PROVE  DocIn({}, e, links) = [typed |-> FALSE, title |-> {}, parts |-> <<>>, links |-> links,
                                stmts |-> {}, anon |-> 0]
<1>1. \A b, p, X : ObjectsIn({}, b, p) = {} /\ OwnedIn({}, X) = {} /\ NextParts({}, X) = {}
  BY DEF ObjectsIn, OwnedIn, NextParts
<1>2. PartsIn({}, e) = <<>>
  <2> DEFINE deep == {m \in 1..WriteDepth : Levels({}, e)[m] # {}}
  <2>1. \A m \in 0..WriteDepth :
          Levels({}, e)[m] = IF m = 0 THEN {e} ELSE NextParts({}, Levels({}, e)[m - 1])
    BY LevelsRecurse
  <2>2. \A m \in 1..WriteDepth : Levels({}, e)[m] = {}
    BY <1>1, <2>1, BoundsAssumption
  <2>3. deep = {}
    BY <2>2
  <2>4. Cardinality(deep) = 0
    BY <2>3, FS_EmptySet, Zenon
  <2> HIDE DEF deep
  <2>5. PartsIn({}, e) = [n \in 1..0 |-> UNION {ObjectsIn({}, b, "title") : b \in Levels({}, e)[n]}]
    BY <2>4 DEF PartsIn, deep
  <2> QED
    BY <2>5
<1>3. Reached({}, e)[WriteDepth + 1] \ {e} = {}
  <2> DEFINE P == {n \in Nat : Reached({}, e)[n] = {e}}
  <2>1. \A n \in 0..(WriteDepth + 1) :
          Reached({}, e)[n] = IF n = 0 THEN {e}
                              ELSE Reached({}, e)[n - 1] \cup OwnedIn({}, Reached({}, e)[n - 1])
    BY ReachedRecurses
  <2>2. 0 \in P
    <3>1. 0 \in Nat /\ 0 \in 0..(WriteDepth + 1)
      BY BoundsAssumption
    <3> QED
      BY <2>1, <3>1
  <2>3. ASSUME NEW n \in 1..(WriteDepth + 1), n - 1 \in P PROVE n \in P
    <3>1. n \in 0..(WriteDepth + 1) /\ n # 0 /\ n \in Nat
      BY BoundsAssumption
    <3>2. Reached({}, e)[n - 1] = {e}
      BY <2>3
    <3> QED
      BY <1>1, <2>1, <3>1, <3>2
  <2> HIDE DEF P
  <2>4. WriteDepth + 1 \in Nat /\ WriteDepth + 1 \in 0..(WriteDepth + 1)
    BY BoundsAssumption
  <2>5. WriteDepth + 1 \in P
    BY <2>2, <2>3, <2>4, Reaches
  <2> QED
    BY <2>5 DEF P
<1>4. Cardinality(Reached({}, e)[WriteDepth + 1] \ {e}) = 0
  BY <1>3, FS_EmptySet, Zenon
<1>5. UNION {ObjectsIn({}, b, "value") : b \in ObjectsIn({}, e, "stmt")} = {}
  BY <1>1
<1>6. (<<e, "a", TypeIRI>> \in {}) = FALSE
  OBVIOUS
<1> QED
  BY <1>1, <1>2, <1>4, <1>5, <1>6, Zenon DEF DocIn

\* The values of the document d in the triples N, whose anonymous objects are bn.
HasValues(N, e, d, bn) ==
  LET depth == Len(d.parts)
      node(n) == IF n = 0 THEN e ELSE bn[n]
  IN  /\ ObjectsIn(N, e, "title") = d.title
      /\ \A n \in 0..depth :
           ObjectsIn(N, node(n), "part") = IF n < depth THEN {bn[n + 1]} ELSE {}
      /\ \A n \in 1..depth : ObjectsIn(N, bn[n], "title") = d.parts[n]
      /\ UNION {ObjectsIn(N, b, "value") : b \in ObjectsIn(N, e, "stmt")} = d.stmts
      /\ ObjectsIn(N, e, "link") = d.links

\* Every value of a finite set has its place in the sequence.
LEMMA AllValues ==
  ASSUME NEW T, IsFiniteSet(T)
  PROVE  {SetToSeq(T)[i] : i \in 1..Cardinality(T)} = T
<1>1. Cardinality(T) \in Nat /\ ExistsBijection(1..Cardinality(T), T)
  BY FS_CardinalityType
<1>2. PICK b \in Bijection(1..Cardinality(T), T) : TRUE
  BY <1>1 DEF ExistsBijection
<1>3. \E f \in [1..Cardinality(T) -> T] : IsInjective(f)
  BY <1>2 DEF Bijection, Injection
<1>4. SetToSeq(T) \in [1..Cardinality(T) -> T] /\ IsInjective(SetToSeq(T))
  BY <1>3 DEF SetToSeq
<1> DEFINE f == SetToSeq(T)
           R == {f[i] : i \in 1..Cardinality(T)}
<1>5. f \in Injection(1..Cardinality(T), T) /\ f \in Bijection(1..Cardinality(T), R)
  BY <1>4 DEF Injection, Bijection, Surjection, IsInjective
<1> HIDE DEF f
<1>6. R \in SUBSET T
  BY <1>5 DEF Injection
<1>7. IsFiniteSet(1..Cardinality(T)) /\ Cardinality(1..Cardinality(T)) = Cardinality(T)
  BY <1>1, FS_Interval
<1> HIDE DEF R
<1>8. Cardinality(R) = Cardinality(T)
  BY <1>5, <1>7, FS_Bijection DEF ExistsBijection
<1>9. R = T
  BY <1>6, <1>8, FS_Subset
<1> QED
  BY <1>9 DEF R, f

\* The triples that a save inserts have the values of the document, each in its place.
LEMMA NewValues ==
  ASSUME NEW e \in Entities, NEW d \in DocType,
         NEW bn \in [1..(Len(d.parts) + Cardinality(d.stmts)) -> Nat],
         \A i, j \in DOMAIN bn : bn[i] = bn[j] => i = j
  PROVE  HasValues(DocTriples(e, d, bn), e, d, bn)
<1> DEFINE N == DocTriples(e, d, bn)
           depth == Len(d.parts)
           m == Cardinality(d.stmts)
           values == SetToSeq(d.stmts)
           node(n) == IF n = 0 THEN e ELSE bn[n]
<1>1. /\ d.title \subseteq Titles /\ d.links \subseteq Entities /\ d.stmts \subseteq Titles
      /\ d.parts \in Seq(SUBSET Titles)
  BY DEF DocType
<1>2. /\ m \in Nat /\ values \in [1..m -> d.stmts]
      /\ {values[i] : i \in 1..m} = d.stmts
  BY <1>1, DocsAssumption, FS_Subset, Values, AllValues
<1>3. depth \in Nat /\ \A i \in 1..depth : d.parts[i] \subseteq Titles
  BY <1>1
<1>4. N \subseteq Shapes
  BY NewTriples DEF NewTree
<1> HIDE DEF depth, m, values
<1>5. /\ DOMAIN bn = 1..(depth + m) /\ e \notin Nat
      /\ \A i \in 1..depth : i \in DOMAIN bn /\ bn[i] \in Nat
      /\ \A i \in 1..m : depth + i \in DOMAIN bn /\ bn[depth + i] \in Nat
  BY <1>2, <1>3, Names DEF depth, m
<1>6. N = {<<e, "a", TypeIRI>>}
          \cup {<<e, "title", v>> : v \in d.title}
          \cup {<<e, "link", b>> : b \in d.links}
          \cup {<<IF i = 1 THEN e ELSE bn[i - 1], "part", bn[i]>> : i \in 1..depth}
          \cup (UNION {{<<bn[i], "title", v>> : v \in d.parts[i]} : i \in 1..depth})
          \cup {<<e, "stmt", bn[depth + i]>> : i \in 1..m}
          \cup {<<bn[depth + i], "value", values[i]>> : i \in 1..m}
  BY <1>2 DEF DocTriples, depth, values
<1> HIDE DEF N
<1>7. \A s, o : <<s, "title", o>> \in N <=>
        (s = e /\ o \in d.title) \/ \E i \in 1..depth : s = bn[i] /\ o \in d.parts[i]
  BY <1>6
<1>8. \A s, o : <<s, "link", o>> \in N <=> s = e /\ o \in d.links
  BY <1>6
<1>9. \A s, o : <<s, "part", o>> \in N <=>
        \E i \in 1..depth : s = (IF i = 1 THEN e ELSE bn[i - 1]) /\ o = bn[i]
  BY <1>6
<1>10. \A s, o : <<s, "stmt", o>> \in N <=> s = e /\ \E i \in 1..m : o = bn[depth + i]
  BY <1>6
<1>11. \A s, o : <<s, "value", o>> \in N <=> \E i \in 1..m : s = bn[depth + i] /\ o = values[i]
  BY <1>6
<1>12. \A s, p, o : o \in ObjectsIn(N, s, p) <=> <<s, p, o>> \in N
  <2>1. \A t \in Shapes : t = <<t[1], t[2], t[3]>>
    BY DEF Shapes
  <2>2. \A t \in N : t = <<t[1], t[2], t[3]>>
    BY <1>4, <2>1
  <2> QED
    BY <2>2 DEF ObjectsIn
<1>13. ObjectsIn(N, e, "title") = d.title
  <2>1. \A i \in 1..depth : e # bn[i]
    BY <1>5
  <2>2. \A o : <<e, "title", o>> \in N <=> o \in d.title
    BY <1>7, <2>1
  <2> QED
    BY <1>12, <2>2
<1>14. ObjectsIn(N, e, "link") = d.links
  BY <1>8, <1>12
<1>15. ASSUME NEW n \in 1..depth PROVE ObjectsIn(N, bn[n], "title") = d.parts[n]
  <2>1. \A i \in 1..depth : bn[n] = bn[i] => n = i
    BY <1>5
  <2>2. bn[n] # e
    BY <1>5
  <2>3. \A o : <<bn[n], "title", o>> \in N <=> o \in d.parts[n]
    BY <1>7, <2>1, <2>2
  <2> QED
    BY <1>12, <2>3
<1>16. ASSUME NEW n \in 0..depth
       PROVE  ObjectsIn(N, node(n), "part") = IF n < depth THEN {bn[n + 1]} ELSE {}
  <2>1. \A i \in 1..depth : node(n) = (IF i = 1 THEN e ELSE bn[i - 1]) <=> i = n + 1
    <3> SUFFICES ASSUME NEW i \in 1..depth
                 PROVE  node(n) = (IF i = 1 THEN e ELSE bn[i - 1]) <=> i = n + 1
      OBVIOUS
    <3>1. CASE n = 0 /\ i = 1
      BY <3>1
    <3>2. CASE n = 0 /\ i # 1
      <4>1. i - 1 \in 1..depth /\ i # n + 1
        BY <1>3, <3>2
      <4> QED
        BY <1>5, <3>2, <4>1
    <3>3. CASE n # 0 /\ i = 1
      <4>1. n \in 1..depth /\ i # n + 1
        BY <1>3, <3>3
      <4> QED
        BY <1>5, <3>3, <4>1
    <3>4. CASE n # 0 /\ i # 1
      <4>1. n \in 1..depth /\ i - 1 \in 1..depth /\ (i = n + 1 <=> i - 1 = n)
        BY <1>3, <3>4
      <4> QED
        BY <1>5, <3>4, <4>1
    <3> QED
      BY <3>1, <3>2, <3>3, <3>4
  <2>2. \A o : o \in ObjectsIn(N, node(n), "part") <=> \E i \in 1..depth : i = n + 1 /\ o = bn[i]
    <3> HIDE DEF node
    <3>1. \A o : <<node(n), "part", o>> \in N <=>
            \E i \in 1..depth : node(n) = (IF i = 1 THEN e ELSE bn[i - 1]) /\ o = bn[i]
      BY <1>9
    <3>2. \A o : <<node(n), "part", o>> \in N <=> \E i \in 1..depth : i = n + 1 /\ o = bn[i]
      BY <2>1, <3>1
    <3> QED
      BY <1>12, <3>2
  <2>3. n + 1 \in 1..depth <=> n < depth
    BY <1>3
  <2> HIDE DEF node
  <2> QED
    BY <2>2, <2>3
<1>17. UNION {ObjectsIn(N, b, "value") : b \in ObjectsIn(N, e, "stmt")} = d.stmts
  <2>1. \A o : o \in ObjectsIn(N, e, "stmt") <=> \E i \in 1..m : o = bn[depth + i]
    BY <1>10, <1>12
  <2>2. \A i, j \in 1..m : bn[depth + i] = bn[depth + j] => i = j
    <3>1. \A i, j \in 1..m : depth + i = depth + j => i = j
      BY <1>2, <1>3
    <3> QED
      BY <1>5, <3>1
  <2>3. \A i \in 1..m : ObjectsIn(N, bn[depth + i], "value") = {values[i]}
    <3> SUFFICES ASSUME NEW i \in 1..m
                 PROVE  ObjectsIn(N, bn[depth + i], "value") = {values[i]}
      OBVIOUS
    <3>1. \A o : <<bn[depth + i], "value", o>> \in N <=> o = values[i]
      BY <1>11, <2>2
    <3>2. \A o : o \in ObjectsIn(N, bn[depth + i], "value") <=> o = values[i]
      BY <1>12, <3>1, Zenon
    <3> DEFINE X == ObjectsIn(N, bn[depth + i], "value")
    <3> HIDE DEF X
    <3>3. X = {values[i]}
      BY <3>2 DEF X
    <3> QED
      BY <3>3 DEF X
  <2>4. ObjectsIn(N, e, "stmt") = {bn[depth + i] : i \in 1..m}
    BY <2>1
  <2> DEFINE X(i) == ObjectsIn(N, bn[depth + i], "value")
  <2>5. UNION {ObjectsIn(N, b, "value") : b \in {bn[depth + i] : i \in 1..m}}
          = UNION {X(i) : i \in 1..m}
    OBVIOUS
  <2>6. \A i \in 1..m : X(i) = {values[i]}
    BY <2>3
  <2> HIDE DEF X
  <2>7. UNION {X(i) : i \in 1..m} = UNION {{values[i]} : i \in 1..m}
    BY <2>6
  <2>8. UNION {{values[i]} : i \in 1..m} = {values[i] : i \in 1..m}
    OBVIOUS
  <2> QED
    BY <1>2, <2>4, <2>5, <2>7, <2>8
<1> QED
  BY <1>13, <1>14, <1>15, <1>16, <1>17 DEF HasValues, N, depth

\* Level by level, the nested objects of an inserted document are those it was given.
LEMMA NewParts ==
  ASSUME NEW e \in Entities, NEW d \in DocType, Len(d.parts) <= WriteDepth,
         NEW bn \in [1..(Len(d.parts) + Cardinality(d.stmts)) -> Nat],
         NEW N, HasValues(N, e, d, bn)
  PROVE  PartsIn(N, e) = d.parts
<1> DEFINE depth == Len(d.parts)
           node(n) == IF n = 0 THEN e ELSE bn[n]
           level(n) == IF n = 0 THEN {e} ELSE IF n <= depth THEN {bn[n]} ELSE {}
           deep == {m \in 1..WriteDepth : Levels(N, e)[m] # {}}
           P == {n \in Nat : Levels(N, e)[n] = level(n)}
<1>1. d.parts \in Seq(SUBSET Titles) /\ depth \in Nat /\ WriteDepth \in Nat
  BY BoundsAssumption DEF DocType
<1>2. /\ \A n \in 0..depth : ObjectsIn(N, node(n), "part") = IF n < depth THEN {bn[n + 1]} ELSE {}
      /\ \A n \in 1..depth : ObjectsIn(N, bn[n], "title") = d.parts[n]
  BY DEF HasValues
<1>3. depth <= WriteDepth
  OBVIOUS
<1> HIDE DEF depth
<1>4. \A n \in 0..WriteDepth :
        Levels(N, e)[n] = IF n = 0 THEN {e} ELSE NextParts(N, Levels(N, e)[n - 1])
  BY LevelsRecurse
<1>5. 0 \in P
  BY <1>1, <1>4
<1>6. ASSUME NEW n \in 1..WriteDepth, n - 1 \in P PROVE n \in P
  <2>1. n \in Nat /\ n # 0 /\ n \in 0..WriteDepth /\ n - 1 \in Nat
    BY <1>1
  <2>2. Levels(N, e)[n] = NextParts(N, level(n - 1))
    BY <1>4, <1>6, <2>1
  <2>3. CASE n <= depth
    <3>1. n - 1 \in 0..depth /\ n - 1 < depth /\ n - 1 + 1 = n
      BY <1>1, <2>1, <2>3
    <3>2. level(n - 1) = {node(n - 1)}
      BY <1>1, <2>3, <3>1
    <3>3. ObjectsIn(N, node(n - 1), "part") = {bn[n]}
      BY <1>2, <3>1
    <3> HIDE DEF node
    <3>4. NextParts(N, {node(n - 1)}) = {bn[n]}
      BY <3>3 DEF NextParts
    <3>5. level(n) = {bn[n]}
      BY <2>1, <2>3
    <3> QED
      BY <2>1, <2>2, <3>2, <3>4, <3>5
  <2>4. CASE n = depth + 1
    <3>1. n - 1 = depth /\ depth \in 0..depth /\ ~(n <= depth)
      BY <1>1, <2>4
    <3>2. level(depth) = {node(depth)} /\ level(n) = {}
      BY <1>1, <2>1, <3>1
    <3>3. ObjectsIn(N, node(depth), "part") = {}
      <4>1. ~(depth < depth)
        BY <1>1
      <4> HIDE DEF node
      <4> QED
        BY <1>2, <3>1, <4>1
    <3> HIDE DEF node
    <3>4. NextParts(N, {node(depth)}) = {}
      BY <3>3 DEF NextParts
    <3> HIDE DEF level
    <3> QED
      BY <2>1, <2>2, <3>1, <3>2, <3>4
  <2>5. CASE n > depth + 1
    <3>1. level(n - 1) = {} /\ level(n) = {}
      BY <1>1, <2>1, <2>5
    <3>2. NextParts(N, {}) = {}
      BY DEF NextParts
    <3> HIDE DEF level
    <3> QED
      BY <2>1, <2>2, <3>1, <3>2
  <2> QED
    BY <1>1, <2>1, <2>3, <2>4, <2>5
<1>7. \A n \in 0..WriteDepth : n \in P
  <2> HIDE DEF P
  <2> QED
    BY <1>1, <1>5, <1>6, Reaches
<1>8. \A n \in 0..WriteDepth : Levels(N, e)[n] = level(n)
  BY <1>7
<1>9. deep = 1..depth
  <2>1. \A n \in 1..WriteDepth : Levels(N, e)[n] # {} <=> n <= depth
    <3>1. \A n \in 1..WriteDepth : n # 0 /\ n \in 0..WriteDepth
      BY <1>1
    <3>2. \A n \in 1..WriteDepth : level(n) # {} <=> n <= depth
      BY <3>1
    <3> HIDE DEF level
    <3> QED
      BY <1>8, <3>1, <3>2
  <2> QED
    BY <1>1, <1>3, <2>1
<1>10. Cardinality(deep) = depth
  <2>1. Cardinality(1..depth) = depth
    BY <1>1, FS_Interval
  <2> HIDE DEF deep
  <2> QED
    BY <1>9, <2>1
<1>11. PartsIn(N, e) = [n \in 1..depth |-> UNION {ObjectsIn(N, b, "title") : b \in Levels(N, e)[n]}]
  <2> HIDE DEF deep
  <2> QED
    BY <1>10 DEF PartsIn, deep
<1>12. ASSUME NEW n \in 1..depth
       PROVE  UNION {ObjectsIn(N, b, "title") : b \in Levels(N, e)[n]} = d.parts[n]
  <2>1. n \in 0..WriteDepth /\ n # 0 /\ n <= depth
    BY <1>1, <1>3
  <2>2. Levels(N, e)[n] = {bn[n]}
    BY <1>8, <2>1
  <2>3. UNION {ObjectsIn(N, b, "title") : b \in {bn[n]}} = ObjectsIn(N, bn[n], "title")
    OBVIOUS
  <2> QED
    BY <1>2, <2>2, <2>3
<1>13. d.parts = [n \in 1..depth |-> d.parts[n]]
  BY <1>1 DEF depth
<1> QED
  BY <1>11, <1>12, <1>13

\* The anonymous objects within reach of an inserted document are its new nodes.
LEMMA NewNodes ==
  ASSUME NEW N, NEW e \in Entities, NEW depth \in Nat, depth <= WriteDepth, NEW n \in Nat,
         NEW bn \in [1..n -> Nat], \A i, j \in DOMAIN bn : bn[i] = bn[j] => i = j,
         NewTree(N, e, depth, bn)
  PROVE  Cardinality(Reached(N, e)[WriteDepth + 1] \ {e}) = n
<1> DEFINE top == WriteDepth + 1
           upTo(k) == IF k = 0 THEN {e} ELSE {e} \cup {bn[i] : i \in {j \in 1..n : j <= k \/ j > depth}}
           P == {k \in Nat : Reached(N, e)[k] = upTo(k)}
           nodes == {bn[i] : i \in 1..n}
<1>1. top \in Nat /\ depth < top /\ top # 0
  BY BoundsAssumption
<1>2. /\ DOMAIN bn = 1..n /\ N \subseteq Shapes /\ e \notin Nat
      /\ \A i \in 1..n : bn[i] \in Nat /\ \E t \in N : t[3] = bn[i]
      /\ \A t \in N : t[3] \in Nat => \E i \in 1..n :
           /\ t[3] = bn[i]
           /\ i = 1 \/ i > depth => t[1] = e
           /\ i > 1 /\ i <= depth => i - 1 \in 1..n /\ t[1] = bn[i - 1]
  BY Names DEF NewTree
<1>3. \A t \in N : t[2] \in Followed /\ Anonymous(t[3]) <=> t[3] \in Nat
  <2>1. \A t \in N : t[2] \in Followed /\ t[3] \notin Entities => t[3] \in Nat
    BY <1>2, Edges
  <2>2. \A t \in N : t[3] \in Nat => t[3] \notin Entities /\ t[2] \in {"part", "stmt"}
    BY <1>2, Edges
  <2> QED
    BY <2>1, <2>2 DEF Anonymous, Followed
<1>4. \A k \in 0..top : Reached(N, e)[k] = IF k = 0 THEN {e}
                         ELSE Reached(N, e)[k - 1] \cup OwnedIn(N, Reached(N, e)[k - 1])
  BY ReachedRecurses
<1> HIDE DEF top
<1>5. 0 \in P
  <2>1. 0 \in Nat /\ 0 \in 0..top
    BY <1>1
  <2> QED
    BY <1>4, <2>1
<1>6. ASSUME NEW k \in 1..top, k - 1 \in P PROVE k \in P
  <2>1. k \in Nat /\ k # 0 /\ k \in 0..top /\ k - 1 \in Nat
    BY <1>1
  <2> DEFINE X == upTo(k - 1)
  <2>2. Reached(N, e)[k] = X \cup OwnedIn(N, X)
    BY <1>4, <1>6, <2>1
  <2>3. X \subseteq upTo(k) /\ e \in X
    BY <2>1
  <2>4. ASSUME NEW o \in OwnedIn(N, X) PROVE o \in upTo(k)
    <3>1. PICK t \in N : t[1] \in X /\ t[3] \in Nat /\ o = t[3]
      BY <1>3, <2>4 DEF OwnedIn
    <3>2. PICK i \in 1..n : /\ t[3] = bn[i]
                            /\ i = 1 \/ i > depth => t[1] = e
                            /\ i > 1 /\ i <= depth => i - 1 \in 1..n /\ t[1] = bn[i - 1]
      BY <1>2, <3>1
    <3>3. CASE i = 1 \/ i > depth
      BY <2>1, <3>1, <3>2, <3>3
    <3>4. CASE i > 1 /\ i <= depth
      <4>1. i - 1 \in 1..n /\ bn[i - 1] \in X
        BY <3>1, <3>2, <3>4
      <4>2. k - 1 # 0
        BY <1>2, <4>1
      <4>3. PICK j \in 1..n : bn[i - 1] = bn[j] /\ (j <= k - 1 \/ j > depth)
        BY <1>2, <4>1, <4>2
      <4>4. i - 1 = j
        BY <1>2, <4>1, <4>3
      <4>5. i <= k
        BY <2>1, <3>4, <4>3, <4>4
      <4> QED
        BY <2>1, <3>1, <3>2, <4>5
    <3> QED
      BY <3>3, <3>4
  <2>5. ASSUME NEW i \in 1..n, i <= k \/ i > depth PROVE bn[i] \in X \cup OwnedIn(N, X)
    <3>1. PICK t \in N : t[3] = bn[i]
      BY <1>2
    <3>2. PICK j \in 1..n : /\ t[3] = bn[j]
                            /\ j = 1 \/ j > depth => t[1] = e
                            /\ j > 1 /\ j <= depth => j - 1 \in 1..n /\ t[1] = bn[j - 1]
      BY <1>2, <3>1
    <3>3. j = i /\ t[3] \in Nat
      BY <1>2, <3>1, <3>2
    <3>4. t[1] \in X
      <4>1. CASE i = 1 \/ i > depth
        BY <2>3, <3>2, <3>3, <4>1
      <4>2. CASE i > 1 /\ i <= depth
        <5>1. i <= k /\ i - 1 <= k - 1 /\ k - 1 # 0
          BY <2>1, <2>5, <4>2
        <5>2. i - 1 \in 1..n /\ t[1] = bn[i - 1]
          BY <3>2, <3>3, <4>2
        <5> QED
          BY <5>1, <5>2
      <4> QED
        BY <4>1, <4>2
    <3> HIDE DEF X
    <3>5. t[3] \in OwnedIn(N, X)
      BY <1>3, <3>3, <3>4 DEF OwnedIn
    <3> QED
      BY <3>1, <3>5
  <2>6. upTo(k) \subseteq X \cup OwnedIn(N, X)
    <3>1. upTo(k) = {e} \cup {bn[i] : i \in {j \in 1..n : j <= k \/ j > depth}}
      BY <2>1
    <3> HIDE DEF X
    <3> QED
      BY <2>3, <2>5, <3>1
  <2>7. Reached(N, e)[k] = upTo(k)
    <3> HIDE DEF X, upTo
    <3> QED
      BY <2>2, <2>3, <2>4, <2>6
  <2> QED
    BY <2>1, <2>7
<1>7. top \in P
  <2> HIDE DEF P
  <2> QED
    <3>1. \A k \in 0..top : k \in P
      BY <1>1, <1>5, <1>6, Reaches
    <3> QED
      BY <1>1, <3>1
<1>8. Reached(N, e)[top] \ {e} = nodes
  <2>1. {j \in 1..n : j <= top \/ j > depth} = 1..n
    BY <1>1
  <2>2. Reached(N, e)[top] = {e} \cup nodes
    BY <1>1, <1>7, <2>1
  <2> QED
    BY <1>2, <2>2
<1>9. bn \in Bijection(1..n, nodes)
  BY <1>2 DEF Bijection, Injection, Surjection, IsInjective
<1>10. IsFiniteSet(1..n) /\ Cardinality(1..n) = n
  BY FS_Interval
<1> HIDE DEF nodes
<1>11. Cardinality(nodes) = n
  BY <1>9, <1>10, FS_Bijection DEF ExistsBijection
<1> QED
  BY <1>8, <1>11 DEF top

\* A save stores the document that it was given.
LEMMA NewDoc ==
  ASSUME NEW e \in Entities, NEW d \in DocType, Len(d.parts) <= WriteDepth,
         NEW bn \in [1..(Len(d.parts) + Cardinality(d.stmts)) -> Nat],
         \A i, j \in DOMAIN bn : bn[i] = bn[j] => i = j, NEW links
  PROVE  DocIn(DocTriples(e, d, bn), e, links)
           = [typed |-> TRUE, title |-> d.title, parts |-> d.parts, links |-> links,
              stmts |-> d.stmts, anon |-> Len(d.parts) + Cardinality(d.stmts)]
<1> DEFINE N == DocTriples(e, d, bn)
           depth == Len(d.parts)
           n == depth + Cardinality(d.stmts)
<1>1. NewTree(N, e, depth, bn) /\ HasValues(N, e, d, bn)
  BY NewTriples, NewValues
<1>2. depth \in Nat /\ n \in Nat
  <2>1. IsFiniteSet(d.stmts) /\ d.parts \in Seq(SUBSET Titles)
    BY DocsAssumption, FS_Subset DEF DocType
  <2> QED
    BY <2>1, FS_CardinalityType
<1> HIDE DEF N
<1>3. PartsIn(N, e) = d.parts
  BY <1>1, NewParts
<1>4. Cardinality(Reached(N, e)[WriteDepth + 1] \ {e}) = n
  <2>1. bn \in [1..n -> Nat] /\ depth <= WriteDepth
    OBVIOUS
  <2> HIDE DEF n, depth
  <2> QED
    BY <1>1, <1>2, <2>1, NewNodes
<1>5. (<<e, "a", TypeIRI>> \in N) = TRUE
  BY <1>1 DEF NewTree
<1>6. /\ ObjectsIn(N, e, "title") = d.title
      /\ UNION {ObjectsIn(N, b, "value") : b \in ObjectsIn(N, e, "stmt")} = d.stmts
  BY <1>1 DEF HasValues
<1> QED
  BY <1>3, <1>4, <1>5, <1>6, Zenon DEF DocIn, N

-----------------------------------------------------------------------------
(***************************************************************************)
(* What each request makes of the documents.                               *)
(***************************************************************************)
\* An entity that is not stored has links at most: inverse properties gave it those.
TitlesTyped ==
  \A t \in triples : t[2] = "title" /\ t[1] \in Entities => <<t[1], "a", TypeIRI>> \in triples

\* An entity with its anonymous objects.
Tree(e, owner) == {e} \cup {b \in Known(triples) : owner[b] = e}

\* No triple leads from a tree to an anonymous object outside it.
LEMMA TreeIsClosed ==
  ASSUME IInv, NEW owner \in Owners(triples), NEW rank \in Ranks(triples),
         Grows(triples, owner, rank), NEW e \in Entities,
         NEW t \in triples, t[1] \in Tree(e, owner), t[3] \in Nat
  PROVE  t[3] \in Tree(e, owner)
<1>1. t[3] \in Known(triples) /\ triples \subseteq Shapes
  BY Edges DEF IInv, Forest
<1>2. CASE t[1] \in Entities /\ owner[t[3]] = t[1]
  BY <1>1, <1>2, Names DEF Tree, Known
<1>3. CASE t[1] \in Nat /\ owner[t[3]] = owner[t[1]]
  BY <1>1, <1>3, Names DEF Tree
<1> QED
  BY <1>2, <1>3 DEF Grows

\* What a save or a removal leaves of the trees of the others.
LEMMA CutElsewhere ==
  ASSUME IInv, NEW owner \in Owners(triples), NEW rank \in Ranks(triples),
         Grows(triples, owner, rank), NEW e \in Entities, NEW x \in Entities \ {e}
  PROVE  /\ \A t \in triples : t[1] \in Tree(x, owner) => t \notin Description(e)
         /\ \A b \in Tree(x, owner) : b \in Nat => b \in Known(triples \ Description(e))
<1> DEFINE kept == triples \ Description(e)
<1>1. triples \subseteq Shapes
  BY DEF IInv, Forest
<1>2. ASSUME NEW t \in triples, t[1] \in Tree(x, owner) PROVE t \notin Description(e)
  <2>1. ~(t[1] = e \/ (t[1] \in Nat /\ owner[t[1]] = e))
    BY <1>2, Names DEF Tree, Known
  <2> QED
    BY <1>1, <2>1, CutIsTree
<1>3. ASSUME NEW b \in Tree(x, owner), b \in Nat PROVE b \in Known(kept)
  <2>1. b \in Known(triples) /\ owner[b] = x
    BY <1>3, Names DEF Tree
  <2>2. PICK t \in triples : t[3] = b
    BY <2>1 DEF Grows
  <2>3. ~(t[1] = e \/ (t[1] \in Nat /\ owner[t[1]] = e))
    BY <1>3, <2>1, <2>2, Names DEF Grows
  <2>4. t \notin Description(e)
    BY <1>1, <2>2, <2>3, CutIsTree
  <2> QED
    BY <1>3, <2>2, <2>4 DEF Known
<1> QED
  BY <1>2, <1>3

\* A removal.
LEMMA RemovedDocs ==
  ASSUME IInv, NEW e \in Entities, Typed(e), triples' = triples \ Description(e)
  PROVE  /\ StoredDoc(e)' = [typed |-> FALSE, title |-> {}, parts |-> <<>>, links |-> {},
                             stmts |-> {}, anon |-> 0]
         /\ \A x \in Entities \ {e} : StoredDoc(x)' = StoredDoc(x)
<1>1. PICK owner \in Owners(triples), rank \in Ranks(triples) : Grows(triples, owner, rank)
  BY DEF IInv, Forest
<1>2. triples \subseteq Shapes /\ triples' \subseteq Shapes
  BY DEF IInv, Forest
<1>3. \A t \in triples' : t[1] # e
  BY <1>1, <1>2, CutIsTree
<1>4. StoredDoc(e)' = [typed |-> FALSE, title |-> {}, parts |-> <<>>, links |-> {},
                       stmts |-> {}, anon |-> 0]
  <2>1. SameAround({}, triples', {e}) /\ {} \subseteq Shapes
    BY <1>3 DEF SameAround
  <2>2. DocIn({}, e, {}) = DocIn(triples', e, {})
    BY <1>2, <2>1, SameDocs
  <2>3. ObjectsIn(triples', e, "link") = {}
    BY <1>3 DEF ObjectsIn
  <2> QED
    BY <2>2, <2>3, StoredDocIs, NothingStored
<1>5. ASSUME NEW x \in Entities \ {e} PROVE StoredDoc(x)' = StoredDoc(x)
  <2>1. \A t \in triples : t[1] \in Tree(x, owner) => t \in triples'
    BY <1>1, CutElsewhere
  <2>2. \A t \in triples : t[1] \in Tree(x, owner) /\ t[3] \in Nat => t[3] \in Tree(x, owner)
    BY <1>1, TreeIsClosed
  <2>3. SameAround(triples, triples', Tree(x, owner)) /\ x \in Tree(x, owner)
    BY <2>1, <2>2 DEF SameAround, Tree
  <2>4. \A links : DocIn(triples, x, links) = DocIn(triples', x, links)
    BY <1>2, <2>3, SameDocs
  <2>5. ObjectsIn(triples, x, "link") = ObjectsIn(triples', x, "link")
    BY <2>1, <2>3 DEF ObjectsIn
  <2> QED
    BY <2>4, <2>5, StoredDocIs
<1> QED
  BY <1>4, <1>5

\* The links are a field of their own.
LEMMA OwnLinks ==
  ASSUME NEW S, NEW e, NEW old, NEW links
  PROVE  /\ DocIn(S, e, links) = [DocIn(S, e, old) EXCEPT !.links = links]
         /\ DocIn(S, e, links).links = links
<1>1. DocIn(S, e, links).links = links
  BY DEF DocIn
<1> DEFINE ty == <<e, "a", TypeIRI>> \in S
           ti == ObjectsIn(S, e, "title")
           pa == PartsIn(S, e)
           st == UNION {ObjectsIn(S, b, "value") : b \in ObjectsIn(S, e, "stmt")}
           an == Cardinality(Reached(S, e)[WriteDepth + 1] \ {e})
           D(l) == [typed |-> ty, title |-> ti, parts |-> pa, links |-> l, stmts |-> st, anon |-> an]
<1>2. \A l : DocIn(S, e, l) = D(l)
  BY Zenon DEF DocIn
<1> HIDE DEF ty, ti, pa, st, an
<1>3. D(links) = [D(old) EXCEPT !.links = links]
  OBVIOUS
<1> HIDE DEF D
<1> QED
  BY <1>1, <1>2, <1>3

\* What a save of client c does to the triples: it leaves `kept` of them, and inserts those
\* of the cleaned document d, whose n anonymous objects are the new nodes bn.
Saves(c, e, d, n, kept, bn) ==
  /\ e = calls[c].e /\ d = Clean(e, calls[c].doc) /\ Len(d.parts) <= WriteDepth
  /\ n = Len(d.parts) + Cardinality(d.stmts) /\ kept = triples \ Description(e)
  /\ bn \in [1..n -> Nat \ Known(kept)] /\ \A i, j \in 1..n : bn[i] = bn[j] => i = j
  /\ triples' = kept \cup DocTriples(e, d, bn)

LEMMA SavedDocs ==
  ASSUME IInv, TitlesTyped, NEW c \in Clients, NEW e \in Entities, NEW d \in DocType,
         NEW n \in Nat, NEW kept, NEW bn, Saves(c, e, d, n, kept, bn)
  PROVE  /\ StoredDoc(e)' = [typed |-> TRUE, title |-> d.title, parts |-> d.parts,
                             links |-> d.links \cup (IF Typed(e) THEN {} ELSE StoredDoc(e).links),
                             stmts |-> d.stmts, anon |-> n]
         /\ \A x \in Entities \ {e} : StoredDoc(x)' = StoredDoc(x)
<1> DEFINE N == DocTriples(e, d, bn)
<1>0. /\ Len(d.parts) <= WriteDepth /\ n = Len(d.parts) + Cardinality(d.stmts)
      /\ kept = triples \ Description(e) /\ triples' = kept \cup N
  BY DEF Saves
<1>1. PICK owner \in Owners(triples), rank \in Ranks(triples) : Grows(triples, owner, rank)
  BY DEF IInv, Forest
<1>2. triples \subseteq Shapes /\ kept \subseteq triples
  BY <1>0 DEF IInv, Forest
<1>4. bn \in [1..n -> Nat \ Known(kept)] /\ \A i, j \in 1..n : bn[i] = bn[j] => i = j
  BY DEF Saves
<1>5. bn \in [1..n -> Nat] /\ DOMAIN bn = 1..n
  BY <1>4
<1>6. NewTree(N, e, Len(d.parts), bn) /\ HasValues(N, e, d, bn)
  BY <1>0, <1>4, <1>5, NewTriples, NewValues
<1>7. \A links : DocIn(N, e, links) = [typed |-> TRUE, title |-> d.title, parts |-> d.parts,
                                       links |-> links, stmts |-> d.stmts, anon |-> n]
  BY <1>0, <1>4, <1>5, NewDoc
<1>8. triples' = kept \cup N
  BY <1>0
<1> HIDE DEF N
<1>9. /\ N \subseteq Shapes
      /\ \A t \in N : t[1] = e \/ \E i \in 1..n : t[1] = bn[i]
      /\ \A t \in N : t[3] \in Nat => \E i \in 1..n : t[3] = bn[i]
      /\ ObjectsIn(N, e, "link") = d.links
  BY <1>5, <1>6 DEF NewTree, HasValues
<1>10. triples' \subseteq Shapes
  BY <1>2, <1>8, <1>9
<1>11. ASSUME NEW t \in kept PROVE ~ \E i \in 1..n : t[1] = bn[i]
  <2>1. t[1] \in Nat => t[1] \in Known(kept)
    BY DEF Known
  <2> QED
    BY <1>4, <2>1
<1>12. ASSUME NEW t \in kept, t[1] = e PROVE ~Typed(e) /\ t[2] = "link"
  <2>1. ~Typed(e)
    BY <1>0, <1>1, <1>2, <1>12, CutIsTree
  <2>2. t \in triples /\ t \in Shapes
    BY <1>2
  <2>3. t[2] # "title"
    BY <1>12, <2>1, <2>2 DEF TitlesTyped, Typed
  <2>4. t[3] \notin Nat
    <3>1. t[3] \in Nat => t[3] \in Known(triples)
      BY <1>2, <2>2, Edges
    <3>2. t[3] \in Nat => owner[t[3]] = e
      BY <1>1, <1>12, <2>2, Names DEF Grows
    <3> QED
      BY <1>1, <1>2, <2>1, <3>1, <3>2, CutIsTree
  <2>5. e \notin Nat
    BY Names
  <2>6. t # <<e, "a", TypeIRI>>
    BY <2>1, <2>2 DEF Typed
  <2> QED
    BY <1>12, <2>1, <2>2, <2>3, <2>4, <2>5, <2>6 DEF Shapes
<1>13. StoredDoc(e)' = [typed |-> TRUE, title |-> d.title, parts |-> d.parts,
                        links |-> d.links \cup (IF Typed(e) THEN {} ELSE StoredDoc(e).links),
                        stmts |-> d.stmts, anon |-> n]
  <2> DEFINE K == {e} \cup {bn[i] : i \in 1..n}
  <2>1. SameAround(N, triples', K) /\ e \in K
    <3>1. \A t \in kept : t[1] \in K => t[2] = "link"
      BY <1>11, <1>12
    <3>2. \A t \in N : t[3] \in Nat => t[3] \in K
      BY <1>9
    <3> HIDE DEF K
    <3>3. SameAround(N, triples', K)
      BY <1>8, <3>1, <3>2 DEF SameAround
    <3> QED
      BY <3>3 DEF K
  <2> HIDE DEF K
  <2>2. \A links : DocIn(N, e, links) = DocIn(triples', e, links)
    BY <1>9, <1>10, <2>1, SameDocs
  <2>3. ObjectsIn(triples', e, "link") = ObjectsIn(N, e, "link") \cup ObjectsIn(kept, e, "link")
    BY <1>8 DEF ObjectsIn
  <2>4. ObjectsIn(kept, e, "link") = IF Typed(e) THEN {} ELSE ObjectsIn(triples, e, "link")
    <3>1. CASE Typed(e)
      BY <1>12, <3>1 DEF ObjectsIn
    <3>2. CASE ~Typed(e)
      BY <1>0, <1>1, <1>2, <3>2, CutIsTree
    <3> QED
      BY <3>1, <3>2
  <2>5. StoredDoc(e).links = ObjectsIn(triples, e, "link")
    BY StoredDocIs, OwnLinks
  <2>6. ObjectsIn(triples', e, "link")
          = d.links \cup (IF Typed(e) THEN {} ELSE StoredDoc(e).links)
    BY <1>9, <2>3, <2>4, <2>5
  <2>7. StoredDoc(e)' = DocIn(triples', e, ObjectsIn(triples', e, "link"))
    BY StoredDocIs
  <2> QED
    BY <1>7, <2>2, <2>6, <2>7
<1>14. ASSUME NEW x \in Entities \ {e} PROVE StoredDoc(x)' = StoredDoc(x)
  <2>1. /\ \A t \in triples : t[1] \in Tree(x, owner) => t \in kept
        /\ \A b \in Tree(x, owner) : b \in Nat => b \in Known(kept)
    BY <1>0, <1>1, CutElsewhere
  <2>2. \A t \in triples : t[1] \in Tree(x, owner) /\ t[3] \in Nat => t[3] \in Tree(x, owner)
    BY <1>1, TreeIsClosed
  <2>3. ASSUME NEW t \in N PROVE t[1] \notin Tree(x, owner)
    <3>1. \A i \in 1..n : bn[i] \in Nat /\ bn[i] \notin Known(kept)
      BY <1>4
    <3>2. e \notin Tree(x, owner)
      BY Names DEF Tree, Known
    <3> QED
      BY <1>9, <2>1, <3>1, <3>2
  <2>4. \A t : t[1] \in Tree(x, owner) => (t \in triples <=> t \in triples')
    BY <1>2, <1>8, <2>1, <2>3
  <2>5. SameAround(triples, triples', Tree(x, owner)) /\ x \in Tree(x, owner)
    BY <2>2, <2>4 DEF SameAround, Tree
  <2>6. \A links : DocIn(triples, x, links) = DocIn(triples', x, links)
    BY <1>2, <1>10, <2>5, SameDocs
  <2>7. ObjectsIn(triples, x, "link") = ObjectsIn(triples', x, "link")
    BY <2>4, <2>5 DEF ObjectsIn
  <2>8. StoredDoc(x) = DocIn(triples, x, ObjectsIn(triples, x, "link"))
    BY StoredDocIs
  <2>9. StoredDoc(x)' = DocIn(triples', x, ObjectsIn(triples', x, "link"))
    BY StoredDocIs
  <2> QED
    BY <2>6, <2>7, <2>8, <2>9
<1> QED
  BY <1>13, <1>14

\* Links that an inverse property stands for.
LEMMA SyncedDocs ==
  ASSUME IInv, NEW e \in Entities, NEW back \in SUBSET Entities,
         triples' = InverseSync(e, back), NEW x \in Entities
  PROVE  StoredDoc(x)' = [StoredDoc(x) EXCEPT
                            !.links = (IF Typed(x) THEN @ \ {e} ELSE @)
                                      \cup (IF x \in back THEN {e} ELSE {})]
<1>1. PICK owner \in Owners(triples), rank \in Ranks(triples) : Grows(triples, owner, rank)
  BY DEF IInv, Forest
<1> DEFINE old == {<<b, "link", e>> : b \in {y \in Entities : Typed(y)}}
           new == {<<b, "link", e>> : b \in back}
<1>2. triples' = (triples \ old) \cup new
  BY DEF InverseSync
<1>3. triples \subseteq Shapes /\ triples' \subseteq Shapes
  BY <1>2 DEF IInv, Forest, Shapes
<1>4. \A t : t[2] # "link" => (t \in triples <=> t \in triples')
  BY <1>2
<1>5. \A o : <<x, "link", o>> \in triples' <=>
        (<<x, "link", o>> \in triples /\ ~(Typed(x) /\ o = e)) \/ (x \in back /\ o = e)
  BY <1>2
<1> HIDE DEF old, new
<1>6. SameAround(triples, triples', Tree(x, owner)) /\ x \in Tree(x, owner)
  <2>1. \A t \in triples : t[1] \in Tree(x, owner) /\ t[3] \in Nat => t[3] \in Tree(x, owner)
    BY <1>1, TreeIsClosed
  <2> QED
    BY <1>4, <2>1 DEF SameAround, Tree
<1>7. \A links : DocIn(triples, x, links) = DocIn(triples', x, links)
  BY <1>3, <1>6, SameDocs
<1> DEFINE was == ObjectsIn(triples, x, "link")
           is  == ObjectsIn(triples', x, "link")
           D(links) == DocIn(triples, x, links)
<1>8. is = (IF Typed(x) THEN was \ {e} ELSE was) \cup (IF x \in back THEN {e} ELSE {})
  <2>1. \A t \in Shapes : t = <<t[1], t[2], t[3]>>
    BY DEF Shapes
  <2>2. \A o : /\ o \in was <=> <<x, "link", o>> \in triples
               /\ o \in is <=> <<x, "link", o>> \in triples'
    BY <1>3, <2>1 DEF ObjectsIn
  <2> HIDE DEF was, is
  <2> QED
    BY <1>5, <2>2
<1>9. DocIn(triples, x, is) = [DocIn(triples, x, was) EXCEPT !.links = is]
  BY OwnLinks
<1>10. StoredDoc(x) = DocIn(triples, x, was) /\ StoredDoc(x).links = was
  BY StoredDocIs, OwnLinks
<1>11. StoredDoc(x)' = DocIn(triples', x, is)
  BY StoredDocIs
<1> HIDE DEF was, is
<1> QED
  BY <1>7, <1>8, <1>9, <1>10, <1>11

LEMMA SaveForm ==
  ASSUME IInv, NEW c \in Clients, Save(c)
  PROVE  \E e \in Entities, d \in DocType, n \in Nat, kept \in SUBSET triples :
           \E bn : Saves(c, e, d, n, kept, bn)
<1> DEFINE e == calls[c].e
           d == Clean(e, calls[c].doc)
           kept == triples \ Description(e)
           n == Len(d.parts) + Cardinality(d.stmts)
           bn == Fresh(kept, n)
<1>1. e \in Entities /\ calls[c].doc \in DocType /\ triples' = kept \cup DocTriples(e, d, bn)
  BY CallFields DEF Save, IInv
<1> HIDE DEF e
<1>2. d \in DocType /\ Len(d.parts) <= WriteDepth
  BY <1>1, CleanDocs
<1>3. kept \in SUBSET triples /\ IsFiniteSet(Known(kept))
  BY <1>1, CutLeavesForest DEF IInv
<1>4. n \in Nat
  <2>1. IsFiniteSet(d.stmts) /\ d.parts \in Seq(SUBSET Titles)
    BY <1>2, DocsAssumption, FS_Subset DEF DocType
  <2> QED
    BY <2>1, FS_CardinalityType
<1> HIDE DEF kept, n
<1>5. bn \in [1..n -> Nat \ Known(kept)] /\ \A i, j \in 1..n : bn[i] = bn[j] => i = j
  BY <1>3, <1>4, FreshNodes
<1> HIDE DEF bn, d
<1>6. Saves(c, e, d, n, kept, bn)
  BY <1>1, <1>2, <1>5 DEF Saves, e, d, kept, n
<1> QED
  BY <1>1, <1>2, <1>3, <1>4, <1>6

LEMMA SyncForm ==
  ASSUME IInv, NEW c \in Clients, Sync(c)
  PROVE  \E e \in Entities, back \in SUBSET Entities :
           e = calls[c].e /\ back = calls[c].doc.back /\ triples' = InverseSync(e, back)
<1>1. calls[c].e \in Entities /\ calls[c].doc \in DocType
  BY CallFields DEF Sync, IInv
<1> QED
  BY <1>1 DEF Sync, DocType

-----------------------------------------------------------------------------
(***************************************************************************)
(* The refinement: each request does to the stored documents what the      *)
(* abstract store says.                                                    *)
(***************************************************************************)
\* The mapping.
Stored == [e \in Entities |-> StoredDoc(e)]

\* Its fields.
LEMMA StoredFields ==
  ASSUME NEW e \in Entities
  PROVE  /\ Stored[e] = StoredDoc(e) /\ StoredDoc(e).typed = Typed(e)
         /\ StoredDoc(e).title = Objects(e, "title") /\ StoredDoc(e).parts = Parts(e)
         /\ StoredDoc(e).links = Objects(e, "link") /\ StoredDoc(e).stmts = Statements(e)
BY DEF Stored, StoredDoc

\* That only a stored entity has a title is invariant.
LEMMA TitlesTypedInit == Init => TitlesTyped
BY DEF Init, TitlesTyped

LEMMA TitlesTypedNext == IInv /\ TitlesTyped /\ [Next]_vars => TitlesTyped'
<1> SUFFICES ASSUME IInv, TitlesTyped, [Next]_vars PROVE TitlesTyped'
  OBVIOUS
<1>1. CASE triples' = triples
  BY <1>1 DEF TitlesTyped
<1>2. ASSUME NEW e \in Entities, NEW kept, kept = triples \ Description(e)
      PROVE  \A t \in kept : t[2] = "title" /\ t[1] \in Entities => <<t[1], "a", TypeIRI>> \in kept
  <2>1. PICK owner \in Owners(triples), rank \in Ranks(triples) : Grows(triples, owner, rank)
    BY DEF IInv, Forest
  <2>2. triples \subseteq Shapes
    BY DEF IInv, Forest
  <2> SUFFICES ASSUME NEW t \in kept, t[2] = "title", t[1] \in Entities
               PROVE  <<t[1], "a", TypeIRI>> \in kept
    OBVIOUS
  <2>3. t \in triples /\ t \notin Description(e) /\ <<t[1], "a", TypeIRI>> \in triples
    BY <1>2 DEF TitlesTyped
  <2> DEFINE u == <<t[1], "a", TypeIRI>>
  <2>4. u \in triples /\ u[1] = t[1]
    BY <2>3
  <2> HIDE DEF u
  <2>5. u \notin Description(e)
    BY <2>1, <2>2, <2>3, <2>4, CutIsTree
  <2> QED
    BY <1>2, <2>4, <2>5 DEF u
<1>3. ASSUME NEW c \in Clients, NEW e \in Entities, RemoveDocument(c, e) PROVE TitlesTyped'
  <2>1. triples' = triples \ Description(e)
    BY <1>3 DEF RemoveDocument
  <2> QED
    BY <1>2, <2>1 DEF TitlesTyped
<1>4. ASSUME NEW c \in Clients, Save(c) PROVE TitlesTyped'
  <2>0. PICK e \in Entities, d \in DocType, n \in Nat, kept \in SUBSET triples :
          \E bn : Saves(c, e, d, n, kept, bn)
    BY <1>4, SaveForm
  <2>1. PICK bn : Saves(c, e, d, n, kept, bn)
    BY <2>0
  <2>2. /\ bn \in [1..n -> Nat \ Known(kept)] /\ n = Len(d.parts) + Cardinality(d.stmts)
        /\ kept = triples \ Description(e) /\ \A i, j \in 1..n : bn[i] = bn[j] => i = j
        /\ triples' = kept \cup DocTriples(e, d, bn)
    BY <2>1 DEF Saves
  <2> DEFINE N == DocTriples(e, d, bn)
  <2>3. NewTree(N, e, Len(d.parts), bn)
    BY <2>2, NewTriples
  <2>4. /\ <<e, "a", TypeIRI>> \in N
        /\ \A t \in N : t[1] = e \/ \E i \in DOMAIN bn : t[1] = bn[i]
    BY <2>3 DEF NewTree
  <2>5. triples' = kept \cup N
    BY <2>2
  <2> HIDE DEF N
  <2>6. \A t \in N : t[1] \in Entities => t[1] = e
    BY <2>2, <2>4, Names
  <2>7. \A t \in kept : t[2] = "title" /\ t[1] \in Entities => <<t[1], "a", TypeIRI>> \in kept
    BY <1>2, <2>2
  <2> QED
    BY <2>4, <2>5, <2>6, <2>7 DEF TitlesTyped
<1>5. ASSUME NEW c \in Clients, Sync(c) PROVE TitlesTyped'
  <2>1. \A t : t[2] # "link" => (t \in triples <=> t \in triples')
    BY <1>5 DEF Sync, InverseSync
  <2>2. \A s : <<s, "a", TypeIRI>>[2] # "link"
    OBVIOUS
  <2> QED
    BY <2>1, <2>2 DEF TitlesTyped
<1>6. CASE UNCHANGED vars
  BY <1>1, <1>6 DEF vars
<1>7. CASE Next
  <2>1. \A c \in Clients, e \in Entities, d \in Docs :
          Upsert(c, e, d) \/ UpsertUnread(c, e, d) => triples' = triples
    BY DEF Upsert, UpsertUnread, Start
  <2>2. \A c \in Clients, e \in Entities, v \in Titles :
          WriteStatement(c, e, v) => triples' = triples
    BY DEF WriteStatement, Start
  <2>3. \A c \in Clients : CallFails(c) => triples' = triples
    BY DEF CallFails
  <2> QED
    BY <1>1, <1>3, <1>4, <1>5, <1>7, <2>1, <2>2, <2>3 DEF Next
<1> QED
  BY <1>6, <1>7

\* A load finds in the triples what the abstract store reads.
LEMMA SameLoads ==
  ASSUME IInv, NEW e \in Entities
  PROVE  /\ Abstract!Readable(e) = Readable(e)
         /\ Abstract!Read(e) = LoadDocument(e) /\ Abstract!NoDoc = NoDoc
<1>1. /\ Stored[e].typed = Typed(e) /\ Stored[e].links = Objects(e, "link")
      /\ Stored[e].stmts = Statements(e)
      /\ \A b \in Entities : Stored[b].title = Objects(b, "title")
  BY StoredFields
<1>2. Stored[e].parts = Parts(e)
  BY StoredFields
<1>3. \A b \in Entities : Abstract!Complete(b) <=> Complete(b)
  BY <1>1, Zenon DEF Abstract!Complete, Complete, Stored
<1>4. Abstract!Readable(e) <=> Readable(e)
  <2>1. Abstract!Readable(e) <=> Stored[e].typed /\ Abstract!Complete(e)
    BY Zenon DEF Abstract!Readable, Stored
  <2> QED
    BY <1>1, <1>3, <2>1, Zenon DEF Readable
<1>5. \A t \in triples : t = <<t[1], t[2], t[3]>>
  BY DEF IInv, Forest, Shapes
<1>6. Objects(e, "link") \subseteq Entities
  <2>1. \A t \in Shapes : t[2] = "link" => t[3] \in Entities
    BY DEF Shapes
  <2> QED
    BY <2>1 DEF IInv, Forest, Objects
<1>7. Abstract!Linking(e) = Linking(e)
  <2>1. \A b \in Entities : e \in Objects(b, "link") <=> <<b, "link", e>> \in triples
    BY <1>5 DEF Objects
  <2>2. \A b \in Entities : Stored[b].links = Objects(b, "link")
    BY StoredFields
  <2>3. Abstract!Linking(e) = {b \in Entities : Abstract!Complete(b) /\ e \in Stored[b].links}
    BY Zenon DEF Abstract!Linking, Stored
  <2>4. \A b \in Entities : Abstract!Complete(b) /\ e \in Stored[b].links
                           <=> Complete(b) /\ <<b, "link", e>> \in triples
    BY <1>3, <2>1, <2>2
  <2> QED
    BY <2>3, <2>4 DEF Linking
<1>8. Abstract!LinkedTo(e) = LinkedTo(e)
  <2>1. Abstract!LinkedTo(e) = IF e \in Stored[e].links THEN Stored[e].links
                               ELSE {b \in Stored[e].links : Abstract!Complete(b)}
    BY Zenon DEF Abstract!LinkedTo, Stored
  <2> QED
    BY <1>1, <1>3, <1>6, <2>1 DEF LinkedTo
<1>9. Abstract!NoDoc = NoDoc
  BY DEF Abstract!NoDoc, NoDoc
<1>10. Abstract!Read(e) = LoadDocument(e)
  <2>1. Abstract!Read(e) = IF Abstract!Readable(e)
          THEN [title |-> Stored[e].title, parts |-> Stored[e].parts,
                links |-> Abstract!LinkedTo(e), stmts |-> Stored[e].stmts,
                back |-> Abstract!Linking(e)]
          ELSE Abstract!NoDoc
    BY Zenon DEF Abstract!Read, Stored
  <2> QED
    BY <1>1, <1>2, <1>4, <1>7, <1>8, <1>9, <2>1, Zenon DEF LoadDocument
<1>11. Abstract!Readable(e) = Readable(e)
  BY <1>4, Zenon DEF Abstract!Readable, Readable, Abstract!Complete, Complete
<1> QED
  BY <1>9, <1>10, <1>11

\* A step that leaves the triples leaves the documents.
LEMMA SameStored ==
  ASSUME triples' = triples
  PROVE  Stored' = Stored
<1>1. \A e : StoredDoc(e)' = StoredDoc(e)
  BY StoredDocIs
<1> QED
  BY <1>1 DEF Stored

\* Step by step.
LEMMA StartRefines ==
  ASSUME IInv, NEW c \in Clients, NEW e \in Entities, NEW kind, NEW doc, Start(c, e, kind, doc)
  PROVE  Abstract!Start(c, e, kind, doc)
<1>1. Stored' = Stored
  BY SameStored DEF Start
<1>2. Abstract!Readable(e) = Readable(e)
  BY SameLoads
<1>3. Abstract!IdleCall = IdleCall
  BY DEF Abstract!IdleCall, IdleCall
<1> QED
  BY <1>1, <1>2, <1>3 DEF Start, Abstract!Start, Stored

LEMMA UpsertRefines ==
  ASSUME IInv, NEW c \in Clients, NEW e \in Entities, NEW d \in Docs,
         Upsert(c, e, d) \/ UpsertUnread(c, e, d)
  PROVE  Abstract!Upsert(c, e, d)
<1>1. CASE Upsert(c, e, d)
  <2>1. Start(c, e, "upsert", CarryOver(d, LoadDocument(e))) /\ faults' = faults
    BY <1>1 DEF Upsert
  <2>2. Abstract!Start(c, e, "upsert", CarryOver(d, LoadDocument(e)))
    BY <2>1, StartRefines
  <2>3. CarryOver(d, LoadDocument(e)) = [d EXCEPT !.stmts = Abstract!Read(e).stmts]
    BY SameLoads, Zenon DEF CarryOver
  <2> QED
    BY <2>1, <2>2, <2>3, Zenon DEF Abstract!Upsert
<1>2. CASE UpsertUnread(c, e, d)
  <2>1. Start(c, e, "upsert", CarryOver(d, NoDoc)) /\ faults < MaxFaults /\ faults' = faults + 1
    BY <1>2 DEF UpsertUnread
  <2>2. Abstract!Start(c, e, "upsert", CarryOver(d, NoDoc))
    BY <2>1, StartRefines
  <2>3. CarryOver(d, NoDoc) = [d EXCEPT !.stmts = {}]
    BY DEF CarryOver, NoDoc
  <2> QED
    BY <2>1, <2>2, <2>3, Zenon DEF Abstract!Upsert
<1> QED
  BY <1>1, <1>2

LEMMA WriteStatementRefines ==
  ASSUME IInv, NEW c \in Clients, NEW e \in Entities, NEW v \in Titles, WriteStatement(c, e, v)
  PROVE  Abstract!WriteStatement(c, e, v)
<1>1. Start(c, e, "statement", AddStatement(LoadDocument(e), v)) /\ faults' = faults
  BY DEF WriteStatement
<1>2. Abstract!Start(c, e, "statement", AddStatement(LoadDocument(e), v))
  BY <1>1, StartRefines
<1>3. AddStatement(LoadDocument(e), v)
        = [Abstract!Read(e) EXCEPT !.title = {v}, !.stmts = @ \cup {v}]
  BY SameLoads, Zenon DEF AddStatement
<1> QED
  BY <1>1, <1>2, <1>3, Zenon DEF Abstract!WriteStatement

LEMMA CallFailsRefines ==
  ASSUME IInv, NEW c \in Clients, CallFails(c)
  PROVE  Abstract!CallFails(c)
<1>1. Stored' = Stored
  BY SameStored DEF CallFails
<1> QED
  BY <1>1 DEF CallFails, Abstract!CallFails, Stored, Abstract!IdleCall, IdleCall

LEMMA RemoveDocumentRefines ==
  ASSUME IInv, NEW c \in Clients, NEW e \in Entities, RemoveDocument(c, e)
  PROVE  Abstract!RemoveDocument(c, e)
<1>1. triples' = triples \ Description(e)
  BY DEF RemoveDocument
<1>2. Stored[e].typed = Typed(e)
  BY StoredFields
<1>3. Stored' = IF Stored[e].typed THEN [Stored EXCEPT ![e] = Abstract!Absent] ELSE Stored
  <2>1. CASE Typed(e)
    <3>1. /\ StoredDoc(e)' = [typed |-> FALSE, title |-> {}, parts |-> <<>>, links |-> {},
                             stmts |-> {}, anon |-> 0]
          /\ \A x \in Entities \ {e} : StoredDoc(x)' = StoredDoc(x)
      BY <1>1, <2>1, RemovedDocs
    <3>2. StoredDoc(e)' = Abstract!Absent
      BY <3>1 DEF Abstract!Absent
    <3>3. Stored' = [Stored EXCEPT ![e] = Abstract!Absent]
      BY <3>1, <3>2, Zenon DEF Stored
    <3> QED
      BY <1>2, <2>1, <3>3
  <2>2. CASE ~Typed(e)
    <3>1. triples' = triples
      BY <1>1, <2>2 DEF Description
    <3>2. Stored' = Stored
      BY <3>1, SameStored
    <3> QED
      BY <1>2, <2>2, <3>2
  <2> QED
    BY <2>1, <2>2
<1>4. Step(c, IdleCall) <=> Abstract!Step(c, Abstract!IdleCall)
  BY DEF Step, Abstract!Step, Abstract!IdleCall, IdleCall
<1> QED
  BY <1>3, <1>4 DEF RemoveDocument, Abstract!RemoveDocument, Stored, Abstract!IdleCall, IdleCall

\* cleanJSONLD cuts the nested objects where the write stops.
LEMMA CleanFields ==
  ASSUME NEW e, NEW d \in DocType
  PROVE  LET depth == IF Len(d.parts) < WriteDepth THEN Len(d.parts) ELSE WriteDepth
         IN  /\ Clean(e, d).parts = SubSeq(d.parts, 1, depth) /\ Clean(e, d).links = d.links \ {e}
             /\ Clean(e, d).title = d.title /\ Clean(e, d).stmts = d.stmts
             /\ Clean(e, d).back = d.back
BY DEF Clean, DocType

LEMMA SaveRefines ==
  ASSUME IInv, TitlesTyped, NEW c \in Clients, Save(c)
  PROVE  Abstract!Save(c)
<1>0. PICK e \in Entities, d \in DocType, n \in Nat, kept \in SUBSET triples :
        \E bn : Saves(c, e, d, n, kept, bn)
  BY SaveForm
<1>1. PICK bn : Saves(c, e, d, n, kept, bn)
  BY <1>0
<1>2. /\ e = calls[c].e /\ d = Clean(e, calls[c].doc) /\ Len(d.parts) <= WriteDepth
      /\ n = Len(d.parts) + Cardinality(d.stmts) /\ kept = triples \ Description(e)
      /\ bn \in [1..n -> Nat \ Known(kept)] /\ \A i, j \in 1..n : bn[i] = bn[j] => i = j
      /\ triples' = kept \cup DocTriples(e, d, bn)
  BY <1>1 DEF Saves
<1>3. /\ StoredDoc(e)' = [typed |-> TRUE, title |-> d.title, parts |-> d.parts,
                          links |-> d.links \cup (IF Typed(e) THEN {} ELSE StoredDoc(e).links),
                          stmts |-> d.stmts, anon |-> n]
      /\ \A x \in Entities \ {e} : StoredDoc(x)' = StoredDoc(x)
  BY <1>1, SavedDocs
<1> DEFINE doc == calls[c].doc
           parts == SubSeq(doc.parts, 1, IF Len(doc.parts) < WriteDepth
                                         THEN Len(doc.parts) ELSE WriteDepth)
           new == [typed |-> TRUE, title |-> doc.title, parts |-> parts,
                   links |-> (doc.links \ {e}) \cup (IF Stored[e].typed THEN {} ELSE Stored[e].links),
                   stmts |-> doc.stmts, anon |-> Len(parts) + Cardinality(doc.stmts)]
<1>4. doc \in DocType
  BY CallFields DEF Save, IInv
<1> HIDE DEF doc
<1>5. /\ d.parts = parts /\ d.links = doc.links \ {e} /\ d.title = doc.title
      /\ d.stmts = doc.stmts
  <2>1. d = Clean(e, doc)
    BY <1>2 DEF doc
  <2> QED
    BY <1>4, <2>1, CleanFields
<1> HIDE DEF parts
<1>6. Stored[e] = StoredDoc(e) /\ Stored[e].typed = Typed(e)
  BY StoredFields
<1>7. StoredDoc(e)' = new
  BY <1>2, <1>3, <1>5, <1>6
<1> HIDE DEF new
<1>8. Stored' = [Stored EXCEPT ![e] = new]
  BY <1>3, <1>7, Zenon DEF Stored
<1>9. /\ calls[c].st = "save" /\ Step(c, [calls[c] EXCEPT !.st = "sync"])
      /\ UNCHANGED <<writes, faults>>
  BY DEF Save
<1>10. Abstract!Step(c, [calls[c] EXCEPT !.st = "sync"])
  BY <1>9 DEF Step, Abstract!Step
<1>11. LET x  == calls[c].e
           y  == calls[c].doc
           ps == SubSeq(y.parts, 1, IF Len(y.parts) < WriteDepth THEN Len(y.parts) ELSE WriteDepth)
       IN  Stored' = [Stored EXCEPT ![x] =
                        [typed |-> TRUE, title |-> y.title, parts |-> ps,
                         links |-> (y.links \ {x}) \cup (IF @.typed THEN {} ELSE @.links),
                         stmts |-> y.stmts, anon |-> Len(ps) + Cardinality(y.stmts)]]
  BY <1>2, <1>8, Zenon DEF new, parts, doc
<1>12. Abstract!Cardinality(calls[c].doc.stmts) = Cardinality(calls[c].doc.stmts)
  BY DEF Abstract!Cardinality, Cardinality
<1> QED
  BY <1>9, <1>10, <1>11, <1>12 DEF Abstract!Save, Stored

LEMMA SyncRefines ==
  ASSUME IInv, NEW c \in Clients, Sync(c)
  PROVE  Abstract!Sync(c)
<1>1. PICK e \in Entities, back \in SUBSET Entities :
        e = calls[c].e /\ back = calls[c].doc.back /\ triples' = InverseSync(e, back)
  BY SyncForm
<1> DEFINE after(x) == [StoredDoc(x) EXCEPT
                          !.links = (IF Stored[x].typed THEN @ \ {e} ELSE @)
                                    \cup (IF x \in back THEN {e} ELSE {})]
<1>2. ASSUME NEW x \in Entities PROVE StoredDoc(x)' = after(x)
  <2>1. StoredDoc(x)' = [StoredDoc(x) EXCEPT
                            !.links = (IF Typed(x) THEN @ \ {e} ELSE @)
                                      \cup (IF x \in back THEN {e} ELSE {})]
    BY <1>1, SyncedDocs
  <2>2. Stored[x].typed = Typed(x)
    BY StoredFields
  <2> QED
    BY <2>1, <2>2, Zenon
<1>3. Stored' = [x \in Entities |-> [Stored[x] EXCEPT
                          !.links = (IF Stored[x].typed THEN @ \ {e} ELSE @)
                                    \cup (IF x \in back THEN {e} ELSE {})]]
  <2>1. \A x \in Entities : Stored[x] = StoredDoc(x)
    BY StoredFields
  <2>2. Stored' = [x \in Entities |-> StoredDoc(x)']
    BY Zenon DEF Stored
  <2> QED
    BY <1>2, <2>1, <2>2, Zenon
<1>4. calls[c].st = "sync" /\ Step(c, IdleCall) /\ UNCHANGED <<writes, faults>>
  BY DEF Sync
<1>5. Abstract!Step(c, Abstract!IdleCall)
  BY <1>4 DEF Step, Abstract!Step, Abstract!IdleCall, IdleCall
<1> QED
  BY <1>1, <1>3, <1>4, <1>5, Zenon DEF Abstract!Sync, Stored

LEMMA InitRefines == Init => Abstract!Init
<1> SUFFICES ASSUME Init PROVE Abstract!Init
  OBVIOUS
<1>1. triples = {}
  BY DEF Init
<1>2. ASSUME NEW e \in Entities PROVE StoredDoc(e) = Abstract!Absent
  <2>1. ObjectsIn({}, e, "link") = {}
    BY DEF ObjectsIn
  <2>2. StoredDoc(e) = DocIn({}, e, {})
    BY <1>1, <2>1, StoredDocIs
  <2> QED
    BY <2>2, NothingStored DEF Abstract!Absent
<1>3. Stored = [e \in Entities |-> Abstract!Absent]
  BY <1>2, Zenon DEF Stored
<1> QED
  BY <1>3 DEF Init, Abstract!Init, Stored, Abstract!IdleCall, IdleCall

LEMMA NextRefines ==
  IInv /\ TitlesTyped /\ [Next]_vars => [Abstract!Next]_(Abstract!vars)
<1> SUFFICES ASSUME IInv, TitlesTyped, [Next]_vars PROVE [Abstract!Next]_(Abstract!vars)
  OBVIOUS
<1>1. CASE UNCHANGED vars
  <2>1. Stored' = Stored
    BY <1>1, SameStored DEF vars
  <2> QED
    BY <1>1, <2>1 DEF vars, Abstract!vars, Stored
<1>2. CASE Next
  <2>1. PICK c \in Clients :
          \/ \E e \in Entities, d \in Docs : Upsert(c, e, d) \/ UpsertUnread(c, e, d)
          \/ \E e \in Entities, v \in Titles : WriteStatement(c, e, v)
          \/ \E e \in Entities : RemoveDocument(c, e)
          \/ Save(c) \/ Sync(c) \/ CallFails(c)
    BY <1>2 DEF Next
  <2>2. \/ \E e \in Entities, d \in Docs : Abstract!Upsert(c, e, d)
        \/ \E e \in Entities, v \in Titles : Abstract!WriteStatement(c, e, v)
        \/ \E e \in Entities : Abstract!RemoveDocument(c, e)
        \/ Abstract!Save(c) \/ Abstract!Sync(c) \/ Abstract!CallFails(c)
    BY <2>1, UpsertRefines, WriteStatementRefines, RemoveDocumentRefines, SaveRefines,
       SyncRefines, CallFailsRefines
  <2> QED
    BY <2>2, Zenon DEF Abstract!Next
<1> QED
  BY <1>1, <1>2

\* The detailed store implements the abstract one: deleting, inserting and rewriting triples,
\* request by request, comes to replacing, removing and relinking whole documents.
THEOREM DocumentsAreKept == Spec => ImplementsDocuments
<1>1. Spec => []TitlesTyped
  BY SparqlInvariant, TitlesTypedInit, TitlesTypedNext, PTL DEF Spec
<1> QED
  BY <1>1, SparqlInvariant, InitRefines, NextRefines, PTL
     DEF Spec, ImplementsDocuments, Abstract!Spec

-----------------------------------------------------------------------------
(***************************************************************************)
(* A statement written to a document that nothing else changed.            *)
(***************************************************************************)
\* What a statement call that has the store to itself is about to write back is what a
\* load found: of the links to and from other entities, those of the complete ones.
AloneInv ==
  \A c \in Clients :
    calls[c].st # "idle" /\ calls[c].kind = "statement" /\ calls[c].alone /\ calls[c].readable =>
      LET doc == calls[c].doc
          e   == calls[c].e
      IN  /\ doc.back \ {e} = Linking(e) \ {e}
          /\ calls[c].st = "save" =>
               /\ doc.parts = StoredDoc(e).parts
               /\ {b \in StoredDoc(e).links \ {e} : Complete(b)} \subseteq doc.links
               /\ doc.links \subseteq StoredDoc(e).links
               /\ StoredDoc(e).stmts \subseteq doc.stmts

\* Who links to an entity, in terms of the stored documents, before and after a step.
LEMMA LinkingIs ==
  ASSUME IInv, IInv', NEW e \in Entities
  PROVE  /\ Linking(e) = {b \in Entities : Complete(b) /\ e \in StoredDoc(b).links}
         /\ Linking(e)' = {b \in Entities : Complete(b)' /\ e \in StoredDoc(b)'.links}
<1>1. \A t \in triples \cup triples' : t = <<t[1], t[2], t[3]>>
  BY DEF IInv, Forest, Shapes
<1>2. \A b : /\ e \in Objects(b, "link") <=> <<b, "link", e>> \in triples
             /\ e \in Objects(b, "link")' <=> <<b, "link", e>> \in triples'
  BY <1>1 DEF Objects
<1>3. \A b : StoredDoc(b).links = Objects(b, "link") /\ StoredDoc(b)'.links = Objects(b, "link")'
  BY DEF StoredDoc
<1> QED
  BY <1>2, <1>3 DEF Linking

\* Whether a document is complete shows in what is stored of it.
LEMMA CompleteIs ==
  ASSUME NEW b
  PROVE  /\ Complete(b) <=> StoredDoc(b).title # {}
         /\ Complete(b)' <=> StoredDoc(b)'.title # {}
BY DEF Complete, StoredDoc

\* The two requests of a call, field by field.
LEMMA SaveOnStored ==
  ASSUME IInv, TitlesTyped, NEW c \in Clients, Save(c), NEW e, e = calls[c].e
  PROVE  /\ e \in Entities /\ calls[c] \in CallType /\ calls[c].doc \in DocType
         /\ StoredDoc(e)'.links = (calls[c].doc.links \ {e})
                                  \cup (IF Typed(e) THEN {} ELSE StoredDoc(e).links)
         /\ StoredDoc(e)'.parts = Clean(e, calls[c].doc).parts
         /\ StoredDoc(e)'.stmts = calls[c].doc.stmts
         /\ \A x \in Entities \ {e} : StoredDoc(x)' = StoredDoc(x)
<1>0. PICK x \in Entities, d \in DocType, n \in Nat, kept \in SUBSET triples :
        \E bn : Saves(c, x, d, n, kept, bn)
  BY SaveForm
<1>1. PICK bn : Saves(c, x, d, n, kept, bn)
  BY <1>0
<1>2. x = e /\ d = Clean(x, calls[c].doc)
  BY <1>1 DEF Saves
<1>3. calls[c].doc \in DocType /\ calls[c] \in CallType
  BY CallFields DEF Save, IInv
<1>4. /\ StoredDoc(x)' = [typed |-> TRUE, title |-> d.title, parts |-> d.parts,
                          links |-> d.links \cup (IF Typed(x) THEN {} ELSE StoredDoc(x).links),
                          stmts |-> d.stmts, anon |-> n]
      /\ \A y \in Entities \ {x} : StoredDoc(y)' = StoredDoc(y)
  BY <1>1, SavedDocs
<1>5. d.links = calls[c].doc.links \ {x} /\ d.stmts = calls[c].doc.stmts
  BY <1>2, <1>3, CleanFields
<1>6. /\ StoredDoc(x)'.links = d.links \cup (IF Typed(x) THEN {} ELSE StoredDoc(x).links)
      /\ StoredDoc(x)'.parts = d.parts /\ StoredDoc(x)'.stmts = d.stmts
  BY <1>4
<1> QED
  BY <1>2, <1>3, <1>4, <1>5, <1>6

LEMMA SyncOnStored ==
  ASSUME IInv, NEW c \in Clients, Sync(c), NEW e, e = calls[c].e,
         NEW back, back = calls[c].doc.back
  PROVE  /\ e \in Entities /\ back \in SUBSET Entities /\ calls[c] \in CallType
         /\ \A x \in Entities : StoredDoc(x)' =
              [StoredDoc(x) EXCEPT !.links = (IF Typed(x) THEN @ \ {e} ELSE @)
                                             \cup (IF x \in back THEN {e} ELSE {})]
         /\ \A x \in Entities : StoredDoc(x)'.links =
              (IF Typed(x) THEN StoredDoc(x).links \ {e} ELSE StoredDoc(x).links)
              \cup (IF x \in back THEN {e} ELSE {})
<1>1. e \in Entities /\ back \in SUBSET Entities /\ triples' = InverseSync(e, back)
  BY SyncForm
<1>2. calls[c] \in CallType
  BY CallFields DEF Sync, IInv
<1>3. \A x \in Entities : StoredDoc(x)' =
        [StoredDoc(x) EXCEPT !.links = (IF Typed(x) THEN @ \ {e} ELSE @)
                                       \cup (IF x \in back THEN {e} ELSE {})]
  BY <1>1, SyncedDocs
<1>4. \A x \in Entities : StoredDoc(x)'.links =
        (IF Typed(x) THEN StoredDoc(x).links \ {e} ELSE StoredDoc(x).links)
        \cup (IF x \in back THEN {e} ELSE {})
  BY <1>3 DEF StoredDoc
<1> QED
  BY <1>1, <1>2, <1>3, <1>4

\* A step that stores nothing.
LEMMA SameLinking ==
  ASSUME triples' = triples
  PROVE  \A e : /\ Linking(e)' = Linking(e) /\ StoredDoc(e)' = StoredDoc(e)
               /\ Typed(e)' = Typed(e) /\ Complete(e)' = Complete(e)
<1>1. \A e : StoredDoc(e)' = StoredDoc(e)
  BY StoredDocIs
<1>2. \A e : Typed(e)' = Typed(e) /\ Complete(e)' = Complete(e)
  BY DEF Typed, Complete, Objects
<1>3. \A e : Linking(e)' = Linking(e)
  BY <1>2 DEF Linking
<1> QED
  BY <1>1, <1>2, <1>3

\* What is read is never deeper than what is written.
LEMMA PartsFit ==
  ASSUME IInv, NEW e \in Entities
  PROVE  LET parts == StoredDoc(e).parts
         IN  SubSeq(parts, 1, IF Len(parts) < WriteDepth THEN Len(parts) ELSE WriteDepth) = parts
<1> DEFINE parts == StoredDoc(e).parts
           depth == IF Len(parts) < WriteDepth THEN Len(parts) ELSE WriteDepth
<1>1. parts = PartsIn(triples, e)
  <2>1. parts = Parts(e)
    BY StoredFields
  <2>2. Parts(e) = PartsIn(triples, e)
    BY DEF Parts, PartsIn, Objects, ObjectsIn, Levels, LevelsOf, NextParts
  <2> QED
    BY <2>1, <2>2
<1> DEFINE deep == {m \in 1..WriteDepth : Levels(triples, e)[m] # {}}
<1>2. Cardinality(deep) \in Nat /\ Cardinality(deep) <= WriteDepth
  <2>1. IsFiniteSet(1..WriteDepth) /\ Cardinality(1..WriteDepth) = WriteDepth
        /\ deep \in SUBSET (1..WriteDepth)
    BY BoundsAssumption, FS_Interval
  <2> HIDE DEF deep
  <2>2. IsFiniteSet(deep) /\ Cardinality(deep) <= Cardinality(1..WriteDepth)
    BY <2>1, FS_Subset
  <2> QED
    BY <2>1, <2>2, FS_CardinalityType
<1>3. parts = [n \in 1..Cardinality(deep) |->
                 UNION {ObjectsIn(triples, b, "title") : b \in Levels(triples, e)[n]}]
  BY <1>1 DEF PartsIn
<1> HIDE DEF deep, parts
<1>4. Len(parts) = Cardinality(deep)
  BY <1>2, <1>3
<1>5. Len(parts) \in Nat /\ depth = Len(parts)
  BY <1>2, <1>4, BoundsAssumption
<1>6. parts = [n \in 1..Len(parts) |-> parts[n]]
  BY <1>3, <1>4
<1>7. SubSeq(parts, 1, Len(parts)) = parts
  <2> DEFINE k == Len(parts)
  <2>1. SubSeq(parts, 1, k) = [n \in 1..k |-> parts[n]]
    BY <1>5, <1>6
  <2> QED
    BY <1>6, <2>1
<1> QED
  BY <1>5, <1>7 DEF parts

LEMMA AloneInvNext ==
  IInv /\ IInv' /\ TitlesTyped /\ AloneInv /\ [Next]_vars => AloneInv'
<1> SUFFICES ASSUME IInv, IInv', TitlesTyped, AloneInv, [Next]_vars
             PROVE  AloneInv'
  OBVIOUS
<1> DEFINE Kept(c) ==
      calls[c].st # "idle" /\ calls[c].kind = "statement" /\ calls[c].alone /\ calls[c].readable =>
        LET doc == calls[c].doc
            e   == calls[c].e
        IN  /\ doc.back \ {e} = Linking(e) \ {e}
            /\ calls[c].st = "save" =>
                 /\ doc.parts = StoredDoc(e).parts
                 /\ {b \in StoredDoc(e).links \ {e} : Complete(b)} \subseteq doc.links
                 /\ doc.links \subseteq StoredDoc(e).links
                 /\ StoredDoc(e).stmts \subseteq doc.stmts
<1>1. ASSUME NEW c \in Clients, triples' = triples, calls'[c] = calls[c] PROVE Kept(c)'
  <2>1. \A e : /\ Linking(e)' = Linking(e) /\ StoredDoc(e)' = StoredDoc(e)
               /\ Complete(e)' = Complete(e)
    BY <1>1, SameLinking
  <2>2. Kept(c)
    BY DEF AloneInv
  <2> QED
    BY <1>1, <2>1, <2>2
<1>2. ASSUME NEW c \in Clients, NEW next, Step(c, next), NEW x \in Clients \ {c} PROVE Kept(x)'
  <2>1. calls'[x] = [calls[x] EXCEPT !.alone = FALSE] /\ calls[x] \in {IdleCall} \cup CallType
    BY <1>2 DEF Step, IInv, CallsInv
  <2>2. calls'[x].st = "idle" \/ calls'[x].alone = FALSE
    BY <2>1 DEF CallType, IdleCall
  <2> QED
    BY <2>2
<1>3. ASSUME NEW c \in Clients, calls'[c] = IdleCall PROVE Kept(c)'
  BY <1>3 DEF IdleCall
<1>4. ASSUME NEW c \in Clients, NEW e \in Entities, NEW kind, NEW doc, Start(c, e, kind, doc),
             kind = "statement" /\ Readable(e) =>
               /\ doc.back = Linking(e) /\ doc.parts = StoredDoc(e).parts
               /\ {b \in StoredDoc(e).links \ {e} : Complete(b)} \subseteq doc.links
               /\ doc.links \subseteq StoredDoc(e).links
               /\ StoredDoc(e).stmts \subseteq doc.stmts
      PROVE  AloneInv'
  <2>1. triples' = triples
    BY <1>4 DEF Start
  <2>2. /\ calls'[c].e = e /\ calls'[c].doc = doc /\ calls'[c].kind = kind
        /\ calls'[c].readable = Readable(e)
        /\ \A x \in Clients \ {c} : calls'[x] = calls[x]
    BY <1>4 DEF Start, IInv, CallsInv
  <2>3. \A y : /\ Linking(y)' = Linking(y) /\ StoredDoc(y)' = StoredDoc(y)
               /\ Complete(y)' = Complete(y)
    BY <2>1, SameLinking
  <2>4. Kept(c)'
    BY <1>4, <2>2, <2>3
  <2> QED
    BY <1>1, <2>1, <2>2, <2>4 DEF AloneInv
<1>5. ASSUME NEW c \in Clients, Save(c) PROVE AloneInv'
  <2>1. PICK e : e = calls[c].e
    OBVIOUS
  <2>2. /\ e \in Entities /\ calls[c] \in CallType
        /\ \A x \in Entities \ {e} : StoredDoc(x)' = StoredDoc(x)
    BY <1>5, <2>1, SaveOnStored
  <2>3. Linking(e)' \ {e} = Linking(e) \ {e}
    <3>1. \A x \in Entities \ {e} : Complete(x)' <=> Complete(x)
      BY <2>2, CompleteIs
    <3> QED
      BY <2>2, <3>1, LinkingIs
  <2>4. Step(c, [calls[c] EXCEPT !.st = "sync"]) /\ calls[c].st = "save"
    BY <1>5 DEF Save
  <2>5. calls'[c] = [calls[c] EXCEPT !.st = "sync"]
    BY <2>4 DEF Step
  <2>6. /\ calls'[c].st = "sync" /\ calls'[c].e = e /\ calls'[c].doc = calls[c].doc
        /\ calls'[c].kind = calls[c].kind /\ calls'[c].alone = calls[c].alone
        /\ calls'[c].readable = calls[c].readable
    BY <2>1, <2>2, <2>5 DEF CallType
  <2>7. Kept(c)
    BY DEF AloneInv
  <2>8. Kept(c)'
    BY <2>1, <2>3, <2>4, <2>6, <2>7
  <2> QED
    BY <1>2, <2>4, <2>8 DEF AloneInv
<1>6. ASSUME NEW c \in Clients, Step(c, IdleCall) PROVE AloneInv'
  <2>1. calls'[c] = IdleCall
    BY <1>6 DEF Step
  <2> QED
    BY <1>2, <1>3, <1>6, <2>1 DEF AloneInv
<1>7. ASSUME NEW c \in Clients, CallFails(c) PROVE AloneInv'
  <2>1. triples' = triples /\ \A x \in Clients : calls'[x] = calls[x] \/ calls'[x] = IdleCall
    BY <1>7 DEF CallFails, IInv, CallsInv
  <2> QED
    BY <1>1, <1>3, <2>1 DEF AloneInv
<1>8. ASSUME NEW c \in Clients, NEW e \in Entities, NEW v \in Titles, WriteStatement(c, e, v)
      PROVE  AloneInv'
  <2> DEFINE doc == AddStatement(LoadDocument(e), v)
  <2>1. Readable(e) => /\ doc.back = Linking(e) /\ doc.parts = Parts(e)
                       /\ doc.links = LinkedTo(e) /\ Statements(e) \subseteq doc.stmts
    BY DEF AddStatement, LoadDocument
  <2>4. /\ {b \in Objects(e, "link") \ {e} : Complete(b)} \subseteq LinkedTo(e)
        /\ LinkedTo(e) \subseteq Objects(e, "link")
    BY DEF LinkedTo
  <2>2. /\ StoredDoc(e).parts = Parts(e) /\ StoredDoc(e).links = Objects(e, "link")
        /\ StoredDoc(e).stmts = Statements(e)
    BY StoredFields
  <2>3. Start(c, e, "statement", doc)
    BY <1>8 DEF WriteStatement
  <2> HIDE DEF doc
  <2>5. Readable(e) =>
          /\ doc.back = Linking(e) /\ doc.parts = StoredDoc(e).parts
          /\ {b \in StoredDoc(e).links \ {e} : Complete(b)} \subseteq doc.links
          /\ doc.links \subseteq StoredDoc(e).links
          /\ StoredDoc(e).stmts \subseteq doc.stmts
    BY <2>1, <2>2, <2>4
  <2> QED
    BY <1>4, <2>3, <2>5
<1>9. ASSUME NEW c \in Clients, NEW e \in Entities, NEW d \in Docs,
             Upsert(c, e, d) \/ UpsertUnread(c, e, d)
      PROVE  AloneInv'
  <2>1. \E p : Start(c, e, "upsert", CarryOver(d, p))
    BY <1>9 DEF Upsert, UpsertUnread
  <2> QED
    BY <1>4, <2>1
<1>10. CASE UNCHANGED vars
  BY <1>1, <1>10 DEF vars, AloneInv
<1>11. CASE Next
  BY <1>5, <1>6, <1>7, <1>8, <1>9, <1>11 DEF Next, Sync, RemoveDocument
<1> QED
  BY <1>10, <1>11

\* What a step of the call leaves of everything else.
Keeps(e) ==
  /\ \A b \in Entities \ {e} :
       \/ StoredDoc(b)' = StoredDoc(b)
       \/ ~Complete(b) /\ StoredDoc(b)' = [StoredDoc(b) EXCEPT !.links = @ \ {e}]
  /\ StoredDoc(e)'.parts = StoredDoc(e).parts
  /\ {b \in StoredDoc(e).links \ {e} : Complete(b)} \subseteq StoredDoc(e)'.links
  /\ StoredDoc(e)'.links \subseteq StoredDoc(e).links \cup {e}
  /\ StoredDoc(e).stmts \subseteq StoredDoc(e)'.stmts

\* A step of the call either stores what it loaded, with the new statement, or relinks what
\* was linked.
LEMMA StatementStep ==
  ASSUME IInv, IInv', TitlesTyped, AloneInv, [Next]_vars,
         NEW c \in Clients, NEW e \in Entities,
         calls[c].st # "idle" /\ calls[c].kind = "statement" /\ calls[c].alone
           /\ calls[c].readable /\ calls[c].e = e,
         calls'[c].st # calls[c].st
  PROVE  Keeps(e)
<1>1. CASE triples' = triples
  BY <1>1, SameLinking DEF Keeps
<1>2. CASE Save(c)
  <2>1. /\ calls[c].doc \in DocType
        /\ StoredDoc(e)'.links = (calls[c].doc.links \ {e})
                                  \cup (IF Typed(e) THEN {} ELSE StoredDoc(e).links)
        /\ StoredDoc(e)'.parts = Clean(e, calls[c].doc).parts
        /\ StoredDoc(e)'.stmts = calls[c].doc.stmts
        /\ \A x \in Entities \ {e} : StoredDoc(x)' = StoredDoc(x)
    BY <1>2, SaveOnStored
  <2>2. /\ calls[c].doc.parts = StoredDoc(e).parts
        /\ {b \in StoredDoc(e).links \ {e} : Complete(b)} \subseteq calls[c].doc.links
        /\ calls[c].doc.links \subseteq StoredDoc(e).links
        /\ StoredDoc(e).stmts \subseteq calls[c].doc.stmts
    BY <1>2 DEF AloneInv, Save
  <2>3. Clean(e, calls[c].doc).parts = StoredDoc(e).parts
    <3>1. Clean(e, calls[c].doc).parts
            = SubSeq(calls[c].doc.parts, 1, IF Len(calls[c].doc.parts) < WriteDepth
                                            THEN Len(calls[c].doc.parts) ELSE WriteDepth)
      BY <2>1, CleanFields
    <3> QED
      BY <2>2, <3>1, PartsFit
  <2>4. /\ {b \in StoredDoc(e).links \ {e} : Complete(b)} \subseteq StoredDoc(e)'.links
        /\ StoredDoc(e)'.links \subseteq StoredDoc(e).links \cup {e}
    BY <2>1, <2>2
  <2> QED
    BY <2>1, <2>2, <2>3, <2>4 DEF Keeps
<1>3. CASE Sync(c)
  <2>1. PICK back : back = calls[c].doc.back
    OBVIOUS
  <2>2. \A x \in Entities : StoredDoc(x)' =
              [StoredDoc(x) EXCEPT !.links = (IF Typed(x) THEN @ \ {e} ELSE @)
                                             \cup (IF x \in back THEN {e} ELSE {})]
    BY <1>3, <2>1, SyncOnStored
  <2>3. back \ {e} = {b \in Entities \ {e} : Complete(b) /\ e \in StoredDoc(b).links}
    <3>1. back \ {e} = Linking(e) \ {e}
      BY <1>3, <2>1 DEF AloneInv
    <3>2. Linking(e) = {b \in Entities : Complete(b) /\ e \in StoredDoc(b).links}
      BY LinkingIs
    <3> QED
      BY <3>1, <3>2
  <2>4. ASSUME NEW x \in Entities \ {e}
        PROVE  \/ StoredDoc(x)' = StoredDoc(x)
               \/ ~Complete(x) /\ StoredDoc(x)' = [StoredDoc(x) EXCEPT !.links = @ \ {e}]
    <3> DEFINE links == StoredDoc(x).links
               new == (IF Typed(x) THEN links \ {e} ELSE links)
                      \cup (IF x \in back THEN {e} ELSE {})
    <3>1. StoredDoc(x)' = [StoredDoc(x) EXCEPT !.links = new]
      BY <2>2
    <3>2. [StoredDoc(x) EXCEPT !.links = links] = StoredDoc(x)
      <4>1. StoredDoc(x) = DocIn(triples, x, links)
        BY StoredDocIs, OwnLinks
      <4> QED
        BY <4>1, OwnLinks
    <3>3. new = links \/ (~Complete(x) /\ new = links \ {e})
      BY <2>3
    <3> HIDE DEF new
    <3>4. CASE new = links
      BY <3>1, <3>2, <3>4
    <3>5. CASE ~Complete(x) /\ new = links \ {e}
      <4>1. [StoredDoc(x) EXCEPT !.links = new] = [StoredDoc(x) EXCEPT !.links = @ \ {e}]
        BY <3>5
      <4> QED
        BY <3>1, <3>5, <4>1
    <3> QED
      BY <3>3, <3>4, <3>5
  <2>5. /\ StoredDoc(e)'.parts = StoredDoc(e).parts /\ StoredDoc(e)'.stmts = StoredDoc(e).stmts
    BY <2>2 DEF StoredDoc
  <2>6. StoredDoc(e)'.links = (IF Typed(e) THEN StoredDoc(e).links \ {e} ELSE StoredDoc(e).links)
                             \cup (IF e \in back THEN {e} ELSE {})
    BY <1>3, <2>1, SyncOnStored
  <2> QED
    BY <2>4, <2>5, <2>6 DEF Keeps
<1>4. CASE \E x \in Clients \ {c} : \E next : Step(x, next)
  <2>1. calls'[c] = [calls[c] EXCEPT !.alone = FALSE] /\ calls[c] \in {IdleCall} \cup CallType
    BY <1>4 DEF Step, IInv, CallsInv
  <2> QED
    BY <2>1 DEF CallType, IdleCall
<1>5. CASE Next
  <2>1. PICK x \in Clients :
          \/ \E y \in Entities, d \in Docs : Upsert(x, y, d) \/ UpsertUnread(x, y, d)
          \/ \E y \in Entities, v \in Titles : WriteStatement(x, y, v)
          \/ \E y \in Entities : RemoveDocument(x, y)
          \/ Save(x) \/ Sync(x) \/ CallFails(x)
    BY <1>5 DEF Next
  <2>2. CASE triples' = triples
    BY <1>1, <2>2
  <2>3. CASE x = c
    BY <1>2, <1>3, <2>1, <2>2, <2>3
       DEF Upsert, UpsertUnread, WriteStatement, Start, RemoveDocument, CallFails, IdleCall
  <2>4. CASE x # c
    BY <1>4, <2>1, <2>2, <2>4
       DEF Upsert, UpsertUnread, WriteStatement, Start, RemoveDocument, CallFails, Save, Sync
  <2> QED
    BY <2>3, <2>4
<1>6. CASE UNCHANGED vars
  BY <1>1, <1>6 DEF vars
<1> QED
  BY <1>5, <1>6

\* A statement written to a document that nothing else changed meanwhile keeps everything
\* else, but for links to and from entities without a title, at both requests of the call.
THEOREM StatementsKeepTheRest == Spec => StatementKeepsTheRest
<1>1. Init => AloneInv
  BY DEF Init, AloneInv, IdleCall
<1>2. Spec => []TitlesTyped
  BY SparqlInvariant, TitlesTypedInit, TitlesTypedNext, PTL DEF Spec
<1>3. Spec => []AloneInv
  BY <1>1, <1>2, SparqlInvariant, AloneInvNext, PTL DEF Spec
<1> DEFINE Kept ==
      \A c \in Clients, e \in Entities :
       (calls[c].st \in {"save", "sync"} /\ calls[c].kind = "statement" /\ calls[c].alone
        /\ calls[c].readable /\ calls[c].e = e /\ calls'[c].st # calls[c].st)
       => Keeps(e)
<1>4. IInv /\ IInv' /\ TitlesTyped /\ AloneInv /\ [Next]_vars => [Kept]_vars
  BY StatementStep
<1>5. [][Kept]_vars <=> StatementKeepsTheRest
  BY PTL DEF Kept, Keeps, StatementKeepsTheRest
<1> HIDE DEF Kept
<1> QED
  BY <1>2, <1>3, <1>4, <1>5, SparqlInvariant, PTL DEF Spec
=============================================================================
