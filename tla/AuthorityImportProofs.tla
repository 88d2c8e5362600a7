------------------------ MODULE AuthorityImportProofs ------------------------
(***************************************************************************)
(* Proofs about the import from an authority: what is staged and stored is *)
(* well formed, a record becomes one entity, in the tree an entity stands  *)
(* under its cause, and an application leaves no reference dangling and    *)
(* nothing out.                                                            *)
(***************************************************************************)
EXTENDS AuthorityImport, SequenceTheorems, FiniteSetTheorems, TLAPS

(***************************************************************************)
(* Numbers.  The provers know no induction; that a set of numbers has a    *)
(* least element takes its place.                                          *)
(***************************************************************************)
LEMMA LeastElement ==
  ASSUME NEW S \in SUBSET Nat, S # {}
  PROVE  \E n \in S : \A m \in S : n <= m
<1> DEFINE T == {1..n : n \in S}
<1>1. \A n \in S : 1..n \in FiniteSubsetsOf(Nat)
  BY FS_Interval DEF FiniteSubsetsOf
<1>2. T \subseteq FiniteSubsetsOf(Nat) /\ T # {}
  BY <1>1
<1>3. PICK x \in T : \A y \in T : ~ (<<y, x>> \in StrictSubsetOrdering(Nat))
  BY <1>2, FS_StrictSubsetOrderingWellFounded, WFMin
<1>4. PICK n \in S : x = 1..n
  BY <1>3
<1>5. ASSUME NEW m \in S, m < n PROVE FALSE
  <2>1. 1..m \subseteq 1..n /\ 1..m # 1..n
    <3>1. n \in 1..n /\ n \notin 1..m
      BY <1>5
    <3> QED
      BY <1>5, <3>1
  <2>2. <<1..m, 1..n>> \in StrictSubsetOrdering(Nat)
    BY <2>1 DEF StrictSubsetOrdering
  <2> QED
    BY <1>3, <1>4, <2>2
<1> QED
  BY <1>5

\* Induction over the numbers up to d, with a set in place of the predicate.
LEMMA Reaches ==
  ASSUME NEW d \in Nat, NEW P, 0 \in P, \A n \in 1..d : n - 1 \in P => n \in P
  PROVE  \A n \in 0..d : n \in P
<1> DEFINE G == (0..d) \ P
<1>1. SUFFICES ASSUME G # {} PROVE FALSE
  OBVIOUS
<1>2. PICK n \in G : \A m \in G : n <= m
  <2>1. G \in SUBSET Nat
    OBVIOUS
  <2> HIDE DEF G
  <2> QED
    BY <1>1, <2>1, LeastElement
<1>3. n \in 1..d /\ n - 1 \in 0..d /\ ~(n <= n - 1)
  OBVIOUS
<1> QED
  BY <1>2, <1>3

(***************************************************************************)
(* The tree: who moves with a new parent, and how deep everybody is then.  *)
(***************************************************************************)
MovedOf(S, C, f) == [k \in DOMAIN S |-> k \in C \/ (S[k].parent \in DOMAIN S /\ f[S[k].parent])]
MovedIn(S, C)    == CHOOSE f : f = MovedOf(S, C, f)
DepthOf(S, m, f) ==
  [k \in DOMAIN S |->
     IF m[k] /\ S[k].parent \in DOMAIN S THEN f[S[k].parent] + 1 ELSE S[k].depth]
DepthIn(S, m)    == CHOOSE f : f = DepthOf(S, m, f)

\* The two functions recomputeDepthSubtree's model is made of.
LEMMA MovedParts ==
  ASSUME NEW S, NEW C
  PROVE  Moved(S, C) = [k \in DOMAIN S |-> [S[k] EXCEPT !.depth = DepthIn(S, MovedIn(S, C))[k]]]
BY DEF Moved, MovedIn, MovedOf, DepthIn, DepthOf

\* An entity moves if it is one of C, or its parent moves.
MovesRight(S, C, m) ==
  \A k \in DOMAIN S : m[k] <=> (k \in C \/ (S[k].parent \in DOMAIN S /\ m[S[k].parent]))

\* Who moves does so by the rule: the recursion along parents has a solution.
LEMMA MovedIs ==
  ASSUME NEW S, NEW C
  PROVE  MovesRight(S, C, MovedIn(S, C))
<1> DEFINE Closed(T) ==
             \A k \in DOMAIN S :
               k \in C \/ (S[k].parent \in DOMAIN S /\ S[k].parent \in T) => k \in T
           M == {k \in DOMAIN S : \A T \in SUBSET DOMAIN S : Closed(T) => k \in T}
<1>1. \A k \in DOMAIN S : k \in C \/ (S[k].parent \in DOMAIN S /\ S[k].parent \in M) => k \in M
  OBVIOUS
<1>2. ASSUME NEW k \in M, k \notin C, ~(S[k].parent \in DOMAIN S /\ S[k].parent \in M)
      PROVE  FALSE
  <2> DEFINE T == M \ {k}
  <2>1. Closed(T)
    BY <1>1, <1>2
  <2> QED
    BY <2>1
<1>3. \A k \in DOMAIN S :
        (k \in M) <=> (k \in C \/ (S[k].parent \in DOMAIN S /\ S[k].parent \in M))
  BY <1>1, <1>2
<1> HIDE DEF M
<1> DEFINE f == [k \in DOMAIN S |-> k \in M]
<1>4. \A k \in DOMAIN S : f[k] = (k \in C \/ (S[k].parent \in DOMAIN S /\ f[S[k].parent]))
  <2> SUFFICES ASSUME NEW k \in DOMAIN S
               PROVE  f[k] = (k \in C \/ (S[k].parent \in DOMAIN S /\ f[S[k].parent]))
    OBVIOUS
  <2>1. f[k] = (k \in M)
    OBVIOUS
  <2>2. S[k].parent \in DOMAIN S => f[S[k].parent] = (S[k].parent \in M)
    OBVIOUS
  <2>3. (k \in M) = (k \in C \/ (S[k].parent \in DOMAIN S /\ S[k].parent \in M))
    BY <1>3
  <2> HIDE DEF f
  <2>4. CASE S[k].parent \in DOMAIN S
    <3>1. f[S[k].parent] = (S[k].parent \in M)
      BY <2>2, <2>4
    <3> QED
      BY <2>1, <2>3, <3>1, Zenon
  <2>5. CASE S[k].parent \notin DOMAIN S
    <3>1. (S[k].parent \in DOMAIN S /\ S[k].parent \in M) = FALSE
      BY <2>5
    <3>2. (S[k].parent \in DOMAIN S /\ f[S[k].parent]) = FALSE
      BY <2>5
    <3> QED
      BY <2>1, <2>3, <3>1, <3>2, Zenon
  <2> QED
    BY <2>4, <2>5
<1>5. f = MovedOf(S, C, f)
  <2>1. \A k \in DOMAIN S : f[k] = MovedOf(S, C, f)[k]
    BY <1>4, Zenon DEF MovedOf
  <2>2. f = [k \in DOMAIN S |-> f[k]]
    OBVIOUS
  <2>3. MovedOf(S, C, f) = [k \in DOMAIN S |-> MovedOf(S, C, f)[k]]
    BY DEF MovedOf
  <2> HIDE DEF f
  <2> QED
    BY <2>1, <2>2, <2>3, Zenon
<1> HIDE DEF f
<1> DEFINE m == MovedIn(S, C)
<1>6. m = MovedOf(S, C, m)
  BY <1>5, Zenon DEF MovedIn
<1> HIDE DEF m
<1>7. \A k \in DOMAIN S : m[k] = (k \in C \/ (S[k].parent \in DOMAIN S /\ m[S[k].parent]))
  BY <1>6, Zenon DEF MovedOf
<1> QED
  BY <1>7, Zenon DEF MovesRight, m

\* The depth is right at k: one more than the parent's if k moved.
DepthAt(S, m, f, k) ==
  IF m[k] /\ S[k].parent \in DOMAIN S THEN f[S[k].parent] + 1 ELSE S[k].depth

\* r ranks the entities of S up to N, parents below their children.
Ranks(S, r, N) ==
  /\ r \in [DOMAIN S -> 0..N]
  /\ \A k \in DOMAIN S : S[k].parent \in DOMAIN S => r[S[k].parent] < r[k]

\* The depths obey their rule, as long as parents do not lead in circles.
LEMMA DepthIs ==
  ASSUME NEW S, NEW m, NEW N \in Nat, NEW r, Ranks(S, r, N)
  PROVE  \A k \in DOMAIN S : DepthIn(S, m)[k] = DepthAt(S, m, DepthIn(S, m), k)
<1> DEFINE RightTo(n, f) == \A k \in DOMAIN S : r[k] < n => f[k] = DepthAt(S, m, f, k)
           P == {n \in Nat : \E f : RightTo(n, f)}
<1>1. 0 \in P
  <2>1. \A k \in DOMAIN S : ~(r[k] < 0)
    BY DEF Ranks
  <2> QED
    BY <2>1
<1>2. ASSUME NEW n \in 1..(N + 1), n - 1 \in P PROVE n \in P
  <2>1. PICK f : RightTo(n - 1, f)
    BY <1>2
  <2> DEFINE h == [k \in DOMAIN S |-> IF r[k] < n - 1 THEN f[k] ELSE DepthAt(S, m, f, k)]
  <2>2. ASSUME NEW k \in DOMAIN S, r[k] < n PROVE h[k] = DepthAt(S, m, h, k)
    <3>1. h[k] = DepthAt(S, m, f, k)
      BY <2>1
    <3>2. ASSUME S[k].parent \in DOMAIN S PROVE h[S[k].parent] = f[S[k].parent]
      <4>1. r[S[k].parent] < r[k] /\ r[k] \in Nat /\ r[S[k].parent] \in Nat
        BY <3>2 DEF Ranks
      <4>2. r[S[k].parent] < n - 1
        BY <2>2, <4>1
      <4> QED
        BY <3>2, <4>2
    <3> HIDE DEF h
    <3>3. DepthAt(S, m, h, k) = DepthAt(S, m, f, k)
      BY <3>2 DEF DepthAt
    <3> QED
      BY <3>1, <3>3
  <2> HIDE DEF h
  <2>3. RightTo(n, h) /\ n \in Nat
    BY <2>2
  <2> HIDE DEF RightTo
  <2> QED
    BY <2>3
<1>3. N + 1 \in P
  <2>1. N + 1 \in Nat /\ N + 1 \in 0..(N + 1)
    OBVIOUS
  <2> HIDE DEF P
  <2> QED
    BY <1>1, <1>2, <2>1, Reaches
<1>4. PICK f : RightTo(N + 1, f)
  BY <1>3
<1>5. \A k \in DOMAIN S : f[k] = DepthAt(S, m, f, k)
  <2>1. \A k \in DOMAIN S : r[k] < N + 1
    BY DEF Ranks
  <2> QED
    BY <1>4, <2>1
<1> DEFINE g == [k \in DOMAIN S |-> f[k]]
<1>6. ASSUME NEW k \in DOMAIN S PROVE g[k] = DepthOf(S, m, g)[k]
  <2>1. g[k] = f[k] /\ (S[k].parent \in DOMAIN S => g[S[k].parent] = f[S[k].parent])
    OBVIOUS
  <2> HIDE DEF g
  <2> QED
    BY <1>5, <2>1 DEF DepthAt, DepthOf
<1>7. g = DepthOf(S, m, g)
  <2>1. g = [k \in DOMAIN S |-> g[k]]
    OBVIOUS
  <2>2. DepthOf(S, m, g) = [k \in DOMAIN S |-> DepthOf(S, m, g)[k]]
    BY DEF DepthOf
  <2> HIDE DEF g
  <2> QED
    BY <1>6, <2>1, <2>2, Zenon
<1> HIDE DEF g
<1> DEFINE d == DepthIn(S, m)
<1>8. d = DepthOf(S, m, d)
  BY <1>7, Zenon DEF DepthIn
<1> HIDE DEF d
<1>9. \A k \in DOMAIN S : d[k] = DepthAt(S, m, d, k)
  BY <1>8, Zenon DEF DepthOf, DepthAt
<1> QED
  BY <1>9, Zenon DEF d

\* ... and are numbers.
LEMMA DepthIsNat ==
  ASSUME NEW S, NEW m, NEW N \in Nat, NEW r, Ranks(S, r, N),
         \A k \in DOMAIN S : S[k].depth \in Nat
  PROVE  \A k \in DOMAIN S : DepthIn(S, m)[k] \in Nat
<1> DEFINE B == {n \in 0..N : \E k \in DOMAIN S : r[k] = n /\ DepthIn(S, m)[k] \notin Nat}
<1>1. ASSUME NEW k \in DOMAIN S, DepthIn(S, m)[k] \notin Nat PROVE FALSE
  <2>1. r[k] \in B
    BY <1>1 DEF Ranks
  <2>2. B \in SUBSET Nat /\ B # {}
    BY <2>1
  <2> HIDE DEF B
  <2>3. PICK n \in B : \A i \in B : n <= i
    BY <2>2, LeastElement
  <2> USE DEF B
  <2>4. PICK j \in DOMAIN S : r[j] = n /\ DepthIn(S, m)[j] \notin Nat
    BY <2>3
  <2>5. DepthIn(S, m)[j] = DepthAt(S, m, DepthIn(S, m), j)
    BY DepthIs
  <2>6. m[j] /\ S[j].parent \in DOMAIN S /\ DepthIn(S, m)[S[j].parent] \notin Nat
    BY <2>4, <2>5 DEF DepthAt
  <2>7. r[S[j].parent] < n /\ r[S[j].parent] \in 0..N
    BY <2>4, <2>6 DEF Ranks
  <2>8. r[S[j].parent] \in B
    BY <2>6, <2>7
  <2> QED
    BY <2>3, <2>7, <2>8
<1> QED
  BY <1>1

(***************************************************************************)
(* Types.  Worlds do not change, so their sets take the world as argument. *)
(***************************************************************************)
RecordsOf(w) == DOMAIN w.same
NamesOf(w)   == UNION {ToSet(w.names[r]) : r \in RecordsOf(w)}
LinksOf(w)   == UNION {w.links[r] : r \in RecordsOf(w)}
StepsOf(w)   == {l[1] : l \in LinksOf(w)} \cup {"name"}
EntryType(w) ==
  [src : RecordsOf(w) \cup NamesOf(w), path : Seq(StepsOf(w)), refs : SUBSET Nat,
   by : Nat \cup {NoParent}, chain : SUBSET RecordsOf(w), parent : Nat \cup {NoParent},
   depth : Nat, rejected : BOOLEAN, matched : BOOLEAN]

\* The longest path.
MaxLen == (MaxDepth + 1) \div 2 + 2

\* An entry is that of s but for its place in the tree.
SameEntry(t, s) ==
  /\ t.src = s.src /\ t.path = s.path /\ t.refs = s.refs /\ t.by = s.by
  /\ t.chain = s.chain /\ t.rejected = s.rejected /\ t.matched = s.matched

\* A new parent and a new depth change nothing else.
LEMMA NewPlace ==
  ASSUME NEW w, NEW s \in EntryType(w)
  PROVE  /\ \A p \in Nat : LET t == [s EXCEPT !.parent = p] IN
              t \in EntryType(w) /\ SameEntry(t, s) /\ t.parent = p /\ t.depth = s.depth
         /\ \A d \in Nat : LET t == [s EXCEPT !.depth = d] IN
              t \in EntryType(w) /\ SameEntry(t, s) /\ t.parent = s.parent /\ t.depth = d
BY DEF EntryType, SameEntry

NewParent(S, C, p, k) == IF k \in C THEN p ELSE S[k].parent

\* T is S after the entities of C have moved under p; m says who has moved.
Placed(S, T, C, p, m) ==
  /\ DOMAIN T = DOMAIN S
  /\ \A k \in DOMAIN S :
       /\ SameEntry(T[k], S[k]) /\ T[k].parent = NewParent(S, C, p, k)
       /\ m[k] <=> (k \in C \/ (T[k].parent \in DOMAIN S /\ m[T[k].parent]))
       /\ T[k].depth = IF m[k] /\ T[k].parent \in DOMAIN S
                       THEN T[T[k].parent].depth + 1 ELSE S[k].depth

\* What reparent() does to each entity.
LEMMA ReparentIs ==
  ASSUME NEW w, NEW S, S \in [DOMAIN S -> EntryType(w)], NEW C, NEW p \in Nat, NEW N \in Nat,
         NEW r \in [DOMAIN S -> 0..N],
         \A k \in DOMAIN S : NewParent(S, C, p, k) \in DOMAIN S => r[NewParent(S, C, p, k)] < r[k]
  PROVE  /\ Reparent(S, C, p) \in [DOMAIN S -> EntryType(w)]
         /\ \E m : Placed(S, Reparent(S, C, p), C, p, m)
<1> DEFINE R == [k \in DOMAIN S |-> IF k \in C THEN [S[k] EXCEPT !.parent = p] ELSE S[k]]
<1>1. ASSUME NEW k \in DOMAIN S
      PROVE  /\ R[k] \in EntryType(w) /\ SameEntry(R[k], S[k])
             /\ R[k].parent = NewParent(S, C, p, k) /\ R[k].depth = S[k].depth
  <2>1. S[k] \in EntryType(w)
    OBVIOUS
  <2>2. CASE k \in C
    <3>1. R[k] = [S[k] EXCEPT !.parent = p]
      BY <2>2
    <3> HIDE DEF R
    <3>2. /\ R[k] \in EntryType(w) /\ SameEntry(R[k], S[k])
          /\ R[k].parent = p /\ R[k].depth = S[k].depth
      BY <2>1, <3>1, NewPlace
    <3> QED
      BY <2>2, <3>2 DEF NewParent
  <2>3. CASE k \notin C
    <3>1. R[k] = S[k]
      BY <2>3
    <3> HIDE DEF R
    <3> QED
      BY <2>1, <2>3, <3>1 DEF NewParent, SameEntry
  <2> QED
    BY <2>2, <2>3
<1>2. DOMAIN R = DOMAIN S
  OBVIOUS
<1>3. Reparent(S, C, p) = Moved(R, C)
  BY DEF Reparent
<1> HIDE DEF R
<1> DEFINE m == MovedIn(R, C)
           d == DepthIn(R, m)
           T == [k \in DOMAIN R |-> [R[k] EXCEPT !.depth = d[k]]]
<1>4. Moved(R, C) = T
  BY MovedParts
<1>5. Ranks(R, r, N)
  BY <1>1, <1>2 DEF Ranks
<1>6. \A k \in DOMAIN R : R[k].depth \in Nat
  BY <1>1, <1>2 DEF EntryType
<1>7. \A k \in DOMAIN R : d[k] \in Nat
  BY <1>5, <1>6, DepthIsNat
<1>8. \A k \in DOMAIN R : d[k] = DepthAt(R, m, d, k)
  BY <1>5, DepthIs
<1>9. MovesRight(R, C, m)
  BY MovedIs
<1> HIDE DEF m, d
<1>10. ASSUME NEW k \in DOMAIN S
       PROVE  /\ T[k] \in EntryType(w) /\ SameEntry(T[k], S[k])
              /\ T[k].parent = NewParent(S, C, p, k) /\ T[k].depth = d[k]
  <2>1. T[k] = [R[k] EXCEPT !.depth = d[k]] /\ d[k] \in Nat
    BY <1>2, <1>7
  <2>2. R[k] \in EntryType(w)
    BY <1>1
  <2> HIDE DEF T
  <2>3. T[k] \in EntryType(w) /\ SameEntry(T[k], R[k]) /\ T[k].parent = R[k].parent
        /\ T[k].depth = d[k]
    BY <2>1, <2>2, NewPlace
  <2> QED
    BY <1>1, <2>3 DEF SameEntry
<1>11. DOMAIN T = DOMAIN S /\ T = [k \in DOMAIN S |-> T[k]]
  BY <1>2
<1> HIDE DEF T
<1>12. T \in [DOMAIN S -> EntryType(w)]
  BY <1>10, <1>11
<1>13. ASSUME NEW k \in DOMAIN S
       PROVE  /\ m[k] <=> (k \in C \/ (T[k].parent \in DOMAIN S /\ m[T[k].parent]))
              /\ T[k].depth = IF m[k] /\ T[k].parent \in DOMAIN S
                              THEN T[T[k].parent].depth + 1 ELSE S[k].depth
  <2>1. T[k].parent = R[k].parent /\ R[k].depth = S[k].depth
    BY <1>1, <1>10
  <2>2. m[k] <=> (k \in C \/ (T[k].parent \in DOMAIN S /\ m[T[k].parent]))
    BY <1>2, <1>9, <2>1, Zenon DEF MovesRight
  <2>3. T[k].depth = IF m[k] /\ T[k].parent \in DOMAIN S THEN d[T[k].parent] + 1 ELSE S[k].depth
    BY <1>2, <1>8, <1>10, <2>1, Zenon DEF DepthAt
  <2>4. T[k].parent \in DOMAIN S => T[T[k].parent].depth = d[T[k].parent]
    BY <1>10
  <2>5. T[k].depth = IF m[k] /\ T[k].parent \in DOMAIN S
                     THEN T[T[k].parent].depth + 1 ELSE S[k].depth
    BY <2>3, <2>4, Zenon
  <2> QED
    BY <2>2, <2>5
<1>14. Placed(S, T, C, p, m)
  BY <1>10, <1>11, <1>13, Zenon DEF Placed
<1> QED
  BY <1>3, <1>4, <1>12, <1>14

\* The shape of the tree S: parents have shorter paths, and depths are those of a tree
\* below the entities that hang at the root.
TreeShape(S) ==
  /\ DOMAIN S \subseteq Nat
  /\ Root \in DOMAIN S => /\ S[Root].path = <<>> /\ S[Root].parent = NoParent
                          /\ S[Root].depth = 0
  /\ \A k \in DOMAIN S : Len(S[k].path) <= MaxLen
  /\ \A k \in DOMAIN S \ {Root} :
       /\ S[k].path # <<>>
       /\ \/ /\ S[k].parent = Root
             /\ S[k].depth = Depth(S[k].path)
          \/ /\ S[k].parent \in DOMAIN S \ {Root}
             /\ Len(S[S[k].parent].path) < Len(S[k].path)
             /\ S[k].depth = S[S[k].parent].depth + 1

\* The entity id = new joins S, which makes it T: those below it that hung at the root may
\* now hang under it, and those one level below it do.
Below(new, s) == s.parent = Root /\ new.path # <<>> /\ IsStrictPrefix(new.path, s.path)
Joined(w, S, T, id, new) ==
  /\ DOMAIN T = DOMAIN S \cup {id} /\ T \in [DOMAIN T -> EntryType(w)]
  /\ SameEntry(T[id], new) /\ T[id].parent = new.parent /\ T[id].depth = new.depth
  /\ \A k \in DOMAIN S :
       /\ SameEntry(T[k], S[k])
       /\ T[k].parent = S[k].parent \/ (Below(new, S[k]) /\ T[k].parent = id)
       /\ Below(new, S[k]) /\ Len(S[k].path) = Len(new.path) + 1 => T[k].parent = id

\* Of a path and one that goes on from it.
LEMMA StrictPrefix ==
  ASSUME NEW X, NEW s \in Seq(X), NEW t \in Seq(X)
  PROVE  /\ IsStrictPrefix(s, t) => Len(s) < Len(t)
         /\ Len(s) < Len(t) /\ SubSeq(t, 1, Len(s)) = s => IsStrictPrefix(s, t)
         /\ IsStrictPrefix(s, t) => SubSeq(t, 1, Len(s)) = s
<1>1. SubSeq(s, 1, Len(s)) = s /\ SubSeq(t, 1, Len(t)) = t
  OBVIOUS
<1>2. Len(s) \in Nat /\ Len(t) \in Nat
  OBVIOUS
<1>3. s = t => ~(Len(s) < Len(t))
  BY <1>2
<1>4. Len(s) = Len(t) /\ SubSeq(t, 1, Len(s)) = s => s = t
  BY <1>1
<1>5. IsStrictPrefix(s, t) <=> (Len(s) <= Len(t) /\ s = SubSeq(t, 1, Len(s)) /\ s # t)
  BY <1>1 DEF IsStrictPrefix, IsPrefix
<1> QED
  BY <1>2, <1>3, <1>4, <1>5

\* The bound is a number.
LEMMA MaxLenIsNat == MaxLen \in Nat
BY DepthAssumption DEF MaxLen

\* Staging keeps the shape of the tree.
LEMMA StageIs ==
  ASSUME NEW w, NEW S, S \in [DOMAIN S -> EntryType(w)], TreeShape(S),
         NEW id \in Nat, id \notin DOMAIN S, NEW new \in EntryType(w),
         Len(new.path) <= MaxLen, id = Root <=> new.path = <<>>,
         new.parent = IF new.path = <<>> THEN NoParent ELSE Root,
         new.depth = Depth(new.path),
         NEW U, U = [k \in DOMAIN S \cup {id} |-> IF k = id THEN new ELSE S[k]],
         NEW T, T = Reparent(U, Adopted(U, new.path), id)
  PROVE  Joined(w, S, T, id, new) /\ TreeShape(T)
<1> DEFINE C == Adopted(U, new.path)
           r == [k \in DOMAIN U |-> Len(U[k].path)]
<1>1. /\ DOMAIN U = DOMAIN S \cup {id} /\ U[id] = new /\ \A k \in DOMAIN S : U[k] = S[k]
      /\ U \in [DOMAIN U -> EntryType(w)]
  OBVIOUS
<1>2. \A k \in DOMAIN U : U[k].path \in Seq(StepsOf(w)) /\ Len(U[k].path) \in 0..MaxLen
  <2>1. \A k \in DOMAIN U : U[k].path \in Seq(StepsOf(w)) /\ Len(U[k].path) <= MaxLen
    <3>1. \A k \in DOMAIN U : U[k] \in EntryType(w)
      BY <1>1
    <3>2. \A k \in DOMAIN U : Len(U[k].path) <= MaxLen
      BY <1>1 DEF TreeShape
    <3> QED
      BY <3>1, <3>2 DEF EntryType
  <2> SUFFICES ASSUME NEW k \in DOMAIN U
               PROVE  U[k].path \in Seq(StepsOf(w)) /\ Len(U[k].path) \in 0..MaxLen
    OBVIOUS
  <2> DEFINE n == Len(U[k].path)
  <2>2. U[k].path \in Seq(StepsOf(w)) /\ n <= MaxLen
    BY <2>1, Zenon
  <2>3. n \in Nat
    BY <2>2, LenProperties
  <2> HIDE DEF n
  <2>4. n \in 0..MaxLen
    BY <2>2, <2>3, MaxLenIsNat
  <2> QED
    BY <2>2, <2>4 DEF n
<1>3. NoParent \notin DOMAIN U
      /\ (Root \in DOMAIN U => U[Root].path = <<>> /\ U[Root].parent = NoParent)
  BY <1>1 DEF TreeShape, NoParent
<1>4. new.path \in Seq(StepsOf(w)) /\ Len(new.path) \in Nat
  BY DEF EntryType
<1>5. ASSUME NEW k \in C
      PROVE  k \in DOMAIN S /\ Below(new, S[k]) /\ Len(new.path) < Len(S[k].path)
  <2>1. /\ k \in DOMAIN U /\ U[k].parent = Root /\ IsStrictPrefix(new.path, U[k].path)
        /\ new.path # <<>>
    BY DEF Adopted
  <2>2. Len(new.path) < Len(U[k].path)
    BY <1>2, <1>4, <2>1, StrictPrefix
  <2>3. k # id
    BY <1>1, <1>4, <2>2
  <2> QED
    BY <1>1, <2>1, <2>2, <2>3 DEF Below
<1>6. ASSUME NEW k \in DOMAIN S, Below(new, S[k]), Len(S[k].path) = Len(new.path) + 1
      PROVE  k \in C
  <2>1. /\ k \in DOMAIN U /\ U[k].parent = Root /\ IsStrictPrefix(new.path, U[k].path)
        /\ new.path # <<>>
    BY <1>1, <1>6 DEF Below
  <2>2. ASSUME NEW j \in DOMAIN U, IsStrictPrefix(U[j].path, U[k].path),
               Len(U[j].path) > Len(new.path)
        PROVE  FALSE
    <3>1. Len(U[j].path) < Len(U[k].path) /\ U[k] = S[k]
      BY <1>1, <1>2, <2>2, StrictPrefix
    <3>2. Len(U[j].path) \in Nat
      BY <1>2
    <3> QED
      BY <1>4, <1>6, <2>2, <3>1, <3>2
  <2> QED
    BY <2>1, <2>2 DEF Adopted
<1>7. id = Root => C = {}
  BY <1>5 DEF Below
<1> HIDE DEF C
<1>8. ASSUME NEW k \in DOMAIN U, NewParent(U, C, id, k) \in DOMAIN U
      PROVE  r[NewParent(U, C, id, k)] < r[k]
  <2> DEFINE p == NewParent(U, C, id, k)
  <2>1. r[k] = Len(U[k].path) /\ r[p] = Len(U[p].path)
    BY <1>8
  <2>2. CASE k \in C
    <3>1. p = id
      BY <2>2 DEF NewParent
    <3> QED
      BY <1>1, <1>5, <2>1, <2>2, <3>1
  <2>3. CASE k \notin C
    <3>1. p = U[k].parent
      BY <2>3 DEF NewParent
    <3>2. CASE k = Root
      <4> QED
        BY <1>3, <1>8, <3>1, <3>2
    <3>3. CASE k # Root
      <4>1. U[k].path # <<>>
        BY <1>1, <3>3 DEF TreeShape
      <4>2. CASE p = Root
        <5>1. U[p].path = <<>>
          BY <1>3, <1>8, <4>2
        <5>2. Len(U[k].path) > 0
          BY <1>2, <4>1
        <5> QED
          BY <2>1, <5>1, <5>2
      <4>3. CASE p # Root
        <5>1. k # id /\ k \in DOMAIN S
          BY <1>1, <3>1, <3>3, <4>3
        <5>2. p \in DOMAIN S /\ Len(S[p].path) < Len(S[k].path)
          BY <1>1, <3>1, <3>3, <4>3, <5>1 DEF TreeShape
        <5> QED
          BY <1>1, <2>1, <5>1, <5>2
      <4> QED
        BY <4>2, <4>3
    <3> QED
      BY <3>2, <3>3
  <2> QED
    BY <2>2, <2>3
<1>9. r \in [DOMAIN U -> 0..MaxLen]
  BY <1>2
<1> HIDE DEF r
<1>10. /\ T \in [DOMAIN U -> EntryType(w)]
       /\ \E m : Placed(U, T, C, id, m)
  BY <1>1, <1>8, <1>9, MaxLenIsNat, ReparentIs DEF C
<1>11. PICK m : Placed(U, T, C, id, m)
  BY <1>10
<1>12. id \notin C
  BY <1>5
<1>21. ASSUME NEW k \in DOMAIN U
       PROVE  /\ T[k].parent = NewParent(U, C, id, k) /\ SameEntry(T[k], U[k])
              /\ m[k] <=> (k \in C \/ (T[k].parent \in DOMAIN U /\ m[T[k].parent]))
              /\ m[k] /\ T[k].parent \in DOMAIN U => T[k].depth = T[T[k].parent].depth + 1
              /\ ~(m[k] /\ T[k].parent \in DOMAIN U) => T[k].depth = U[k].depth
  <2>1. T[k].depth = IF m[k] /\ T[k].parent \in DOMAIN U
                     THEN T[T[k].parent].depth + 1 ELSE U[k].depth
    BY <1>11, Zenon DEF Placed
  <2>2. m[k] /\ T[k].parent \in DOMAIN U => T[k].depth = T[T[k].parent].depth + 1
    BY <2>1, Zenon
  <2>3. ~(m[k] /\ T[k].parent \in DOMAIN U) => T[k].depth = U[k].depth
    BY <2>1, Zenon
  <2> QED
    BY <1>11, <2>2, <2>3, Zenon DEF Placed
<1>13. Root \in DOMAIN U => Root \notin C /\ ~m[Root]
  <2> SUFFICES ASSUME Root \in DOMAIN U PROVE Root \notin C /\ ~m[Root]
    OBVIOUS
  <2>1. Root \notin C
    <3>1. Len(U[Root].path) = 0
      BY <1>3
    <3> QED
      BY <1>1, <1>4, <1>5, <3>1
  <2>2. T[Root].parent = NoParent
    BY <1>3, <1>11, <2>1 DEF Placed, NewParent
  <2> QED
    BY <1>3, <1>11, <2>1, <2>2 DEF Placed
<1>14. T[id].depth = new.depth /\ T[id].parent = new.parent /\ SameEntry(T[id], new)
  <2>1. T[id].parent = new.parent /\ SameEntry(T[id], new) /\ new.parent \in {NoParent, Root}
    BY <1>1, <1>11, <1>12 DEF Placed, NewParent
  <2>2. ~m[id] \/ T[id].parent \notin DOMAIN U
    <3>1. id \in DOMAIN U
      BY <1>1
    <3>2. m[id] <=> (T[id].parent \in DOMAIN U /\ m[T[id].parent])
      BY <1>12, <1>21, <3>1, Zenon
    <3> QED
      BY <1>3, <1>13, <2>1, <3>2
  <2> QED
    BY <1>1, <1>21, <2>1, <2>2
<1>15. ASSUME NEW k \in DOMAIN S
       PROVE  /\ SameEntry(T[k], S[k])
              /\ k \notin C => T[k].parent = S[k].parent
              /\ k \in C => T[k].parent = id
  BY <1>1, <1>11 DEF Placed, NewParent
<1>16. Joined(w, S, T, id, new)
  <2>1. DOMAIN T = DOMAIN S \cup {id} /\ T \in [DOMAIN T -> EntryType(w)]
    BY <1>1, <1>10
  <2> QED
    BY <1>5, <1>6, <1>14, <1>15, <2>1 DEF Joined
<1>17. ASSUME NEW k \in DOMAIN T \ {Root}
       PROVE  /\ T[k].path # <<>>
              /\ \/ /\ T[k].parent = Root
                    /\ T[k].depth = Depth(T[k].path)
                 \/ /\ T[k].parent \in DOMAIN T \ {Root}
                    /\ Len(T[T[k].parent].path) < Len(T[k].path)
                    /\ T[k].depth = T[T[k].parent].depth + 1
  <2>1. CASE k = id
    <3>1. T[k].path = new.path /\ new.path # <<>>
      BY <1>14, <1>17, <2>1 DEF SameEntry
    <3> QED
      BY <1>14, <2>1, <3>1
  <2>2. CASE k # id
    <3>1. k \in DOMAIN S /\ k # Root /\ T[k].path = S[k].path /\ DOMAIN T = DOMAIN U
          /\ DOMAIN T = DOMAIN S \cup {id}
      BY <1>15, <1>16, <1>1, <1>17, <2>2 DEF Joined, SameEntry
    <3>2. S[k].path # <<>>
      BY <3>1 DEF TreeShape
    <3>3. CASE k \in C
      <4>1. T[k].parent = id /\ id # Root /\ id \in DOMAIN U
        BY <1>1, <1>7, <1>15, <3>1, <3>3
      <4>2. T[id].path = new.path /\ Len(new.path) < Len(S[k].path)
        BY <1>5, <1>14, <3>3 DEF SameEntry
      <4>3. m[k]
        BY <1>21, <3>1, <3>3
      <4>4. T[k].depth = T[T[k].parent].depth + 1
        BY <1>21, <3>1, <4>1, <4>3
      <4> QED
        BY <3>1, <3>2, <4>1, <4>2, <4>4
    <3>4. CASE k \notin C
      <4>1. T[k].parent = S[k].parent /\ U[k] = S[k]
        BY <1>1, <1>15, <3>1, <3>4
      <4>2. m[k] <=> (T[k].parent \in DOMAIN U /\ m[T[k].parent])
        BY <1>21, <3>1, <3>4
      <4>3. T[k].depth = IF m[k] /\ T[k].parent \in DOMAIN U
                         THEN T[T[k].parent].depth + 1 ELSE S[k].depth
        BY <1>11, <3>1, <4>1, Zenon DEF Placed
      <4>4. CASE S[k].parent = Root
        <5>1. T[k].depth = S[k].depth
          BY <1>13, <4>1, <4>2, <4>3, <4>4
        <5>2. S[k].depth = Depth(S[k].path)
          BY <3>1, <4>4 DEF TreeShape
        <5> QED
          BY <3>1, <3>2, <4>1, <4>4, <5>1, <5>2
      <4>5. CASE S[k].parent # Root
        <5> DEFINE p == S[k].parent
        <5>1. p \in DOMAIN S \ {Root} /\ Len(S[p].path) < Len(S[k].path)
              /\ S[k].depth = S[p].depth + 1
          BY <3>1, <4>5 DEF TreeShape
        <5>2. T[p].path = S[p].path /\ p \in DOMAIN U
          BY <1>1, <1>15, <5>1 DEF SameEntry
        <5>3. ~m[p] => T[p].depth = S[p].depth
          <6>1. U[p] = S[p]
            BY <1>1, <5>1
          <6>2. ~(m[p] /\ T[p].parent \in DOMAIN U) => T[p].depth = U[p].depth
            BY <1>21, <5>2
          <6> QED
            BY <6>1, <6>2
        <5>4. T[k].depth = T[p].depth + 1
          BY <4>1, <4>2, <4>3, <5>1, <5>2, <5>3
        <5> QED
          BY <3>1, <3>2, <4>1, <5>1, <5>2, <5>4
      <4> QED
        BY <4>4, <4>5
    <3> QED
      BY <3>3, <3>4
  <2> QED
    BY <2>1, <2>2
<1>18. \A k \in DOMAIN T : Len(T[k].path) <= MaxLen
  BY <1>14, <1>15, <1>16 DEF Joined, SameEntry, TreeShape
<1>19. Root \in DOMAIN T => T[Root].path = <<>> /\ T[Root].parent = NoParent /\ T[Root].depth = 0
  <2>1. CASE id = Root
    BY <1>14, <2>1 DEF SameEntry, Depth
  <2>2. CASE id # Root
    <3> SUFFICES ASSUME Root \in DOMAIN T
                 PROVE  T[Root].path = <<>> /\ T[Root].parent = NoParent /\ T[Root].depth = 0
      OBVIOUS
    <3>1. Root \in DOMAIN S /\ Root \in DOMAIN U /\ Root \notin C /\ ~m[Root] /\ U[Root] = S[Root]
      BY <1>1, <1>13, <1>16, <2>2 DEF Joined
    <3>2. T[Root].depth = S[Root].depth
      <4>1. ~(m[Root] /\ T[Root].parent \in DOMAIN U) => T[Root].depth = U[Root].depth
        BY <1>21, <3>1
      <4> QED
        BY <3>1, <4>1
    <3> QED
      BY <1>15, <3>1, <3>2 DEF SameEntry, TreeShape
  <2> QED
    BY <2>1, <2>2
<1>20. DOMAIN T \subseteq Nat
  BY <1>16 DEF Joined, TreeShape
<1> QED
  BY <1>16, <1>17, <1>18, <1>19, <1>20 DEF TreeShape


(***************************************************************************)
(* The order of the application.                                           *)
(***************************************************************************)
\* A function on 0..N may be given by its first value and a step from each to the next.
Iterates(X, a, g, N, f) ==
  f \in [0..N -> X] /\ f[0] = a /\ \A n \in 1..N : f[n] = g[f[n - 1]]

\* Such a function exists.
LEMMA Recursion ==
  ASSUME NEW X, NEW a \in X, NEW g \in [X -> X], NEW N \in Nat
  PROVE  \E f : Iterates(X, a, g, N, f)
<1> DEFINE Upto(n) == \E f \in [0..n -> X] : f[0] = a /\ \A m \in 1..n : f[m] = g[f[m - 1]]
           P == {n \in Nat : Upto(n)}
<1>1. 0 \in P
  <2> DEFINE f == [i \in 0..0 |-> a]
  <2>1. f \in [0..0 -> X] /\ f[0] = a /\ \A m \in 1..0 : f[m] = g[f[m - 1]]
    OBVIOUS
  <2> HIDE DEF f
  <2> QED
    BY <2>1
<1>2. ASSUME NEW n \in 1..N, n - 1 \in P PROVE n \in P
  <2>1. PICK f \in [0..(n - 1) -> X] : f[0] = a /\ \A m \in 1..(n - 1) : f[m] = g[f[m - 1]]
    BY <1>2
  <2> DEFINE h == [i \in 0..n |-> IF i = n THEN g[f[n - 1]] ELSE f[i]]
  <2>2. h[0] = a /\ h \in [0..n -> X]
    <3>1. n - 1 \in 0..(n - 1)
      OBVIOUS
    <3>2. g[f[n - 1]] \in X
      BY <3>1
    <3>3. \A i \in 0..n : i # n => i \in 0..(n - 1)
      OBVIOUS
    <3> QED
      BY <2>1, <3>2, <3>3
  <2>3. ASSUME NEW m \in 1..n PROVE h[m] = g[h[m - 1]]
    <3>1. h[m - 1] = f[m - 1]
      OBVIOUS
    <3>2. CASE m = n
      BY <3>1, <3>2
    <3>3. CASE m # n
      <4>1. m \in 1..(n - 1) /\ h[m] = f[m]
        BY <3>3
      <4> QED
        BY <2>1, <3>1, <4>1
    <3> QED
      BY <3>2, <3>3
  <2> HIDE DEF h
  <2> QED
    BY <2>2, <2>3
<1>3. N \in 0..N
  OBVIOUS
<1> HIDE DEF P
<1>4. N \in P
  BY <1>1, <1>2, <1>3, Reaches
<1> QED
  BY <1>4 DEF P, Iterates

\* The entities of S have places in the order of the application.
Placeable(S) ==
  /\ \A k \in S : staged[k].depth \in Nat /\ Position(k) \in Nat
  /\ \A j, k \in S : Position(j) = Position(k) => j = k

\* Of some entities one is the earliest.
LEMMA EarliestIs ==
  ASSUME NEW S, S # {}, Placeable(S)
  PROVE  Earliest(S) \in S
<1> DEFINE D == {staged[k].depth : k \in S}
<1>1. D \in SUBSET Nat /\ D # {}
  BY DEF Placeable
<1>2. PICK d \in D : \A e \in D : d <= e
  <2> HIDE DEF D
  <2> QED
    BY <1>1, LeastElement
<1> DEFINE P == {Position(k) : k \in {l \in S : staged[l].depth = d}}
<1>3. P \in SUBSET Nat /\ P # {}
  BY DEF Placeable
<1>4. PICK p \in P : \A q \in P : p <= q
  <2> HIDE DEF P
  <2> QED
    BY <1>3, LeastElement
<1>5. PICK k \in S : staged[k].depth = d /\ Position(k) = p
  OBVIOUS
<1>6. ASSUME NEW j \in S \ {k} PROVE Earlier(k, j)
  <2>1. d <= staged[j].depth /\ d \in Nat /\ staged[j].depth \in Nat
    BY <1>2 DEF Placeable
  <2>2. CASE staged[j].depth = d
    <3>1. p <= Position(j) /\ Position(j) # p /\ Position(j) \in Nat /\ p \in Nat
      BY <1>4, <1>5, <2>2 DEF Placeable
    <3> HIDE DEF P, D
    <3>2. p < Position(j)
      BY <3>1
    <3> QED
      BY <1>5, <2>2, <3>2 DEF Earlier
  <2>3. CASE staged[j].depth # d
    <3> HIDE DEF P, D
    <3>1. d < staged[j].depth
      BY <2>1, <2>3
    <3> QED
      BY <1>5, <3>1 DEF Earlier
  <2> QED
    BY <2>2, <2>3
<1> QED
  BY <1>6, Zenon DEF Earliest

\* The sequence p takes what is ready of S, each after all it refers to, until nothing is.
InTurn(S, refs, p) ==
  /\ p \in Seq(S) /\ IsInjective(p)
  /\ \A i \in DOMAIN p : refs[p[i]] \cap (S \ {p[i]}) \subseteq {p[j] : j \in 1..(i - 1)}

\* One more, if one is ready.
OneMore(S, refs, p) ==
  IF Ready(S, refs, ToSet(p)) = {} THEN p
  ELSE Append(p, Earliest(Ready(S, refs, ToSet(p))))

\* One more entity keeps the order.
LEMMA OneMoreInTurn ==
  ASSUME NEW S, Placeable(S), NEW refs, NEW p, InTurn(S, refs, p)
  PROVE  /\ InTurn(S, refs, OneMore(S, refs, p))
         /\ Ready(S, refs, ToSet(p)) = {} => OneMore(S, refs, p) = p
         /\ Ready(S, refs, ToSet(p)) # {} => Len(OneMore(S, refs, p)) = Len(p) + 1
<1>1. p \in Seq(S) /\ Len(p) \in Nat /\ DOMAIN p = 1..Len(p)
  BY DEF InTurn
<1>2. CASE Ready(S, refs, ToSet(p)) = {}
  BY <1>2 DEF OneMore
<1>3. CASE Ready(S, refs, ToSet(p)) # {}
  <2> DEFINE k == Earliest(Ready(S, refs, ToSet(p)))
             q == Append(p, k)
  <2>1. OneMore(S, refs, p) = q
    BY <1>3 DEF OneMore
  <2>2. k \in Ready(S, refs, ToSet(p))
    <3>1. Ready(S, refs, ToSet(p)) \subseteq S
      BY DEF Ready
    <3>2. Placeable(Ready(S, refs, ToSet(p)))
      BY <3>1 DEF Placeable
    <3> QED
      BY <1>3, <3>2, EarliestIs
  <2>3. k \in S /\ k \notin ToSet(p) /\ refs[k] \cap (S \ {k}) \subseteq ToSet(p)
    BY <2>2 DEF Ready
  <2> HIDE DEF k
  <2>4. /\ q \in Seq(S) /\ Len(q) = Len(p) + 1 /\ DOMAIN q = 1..(Len(p) + 1)
        /\ q[Len(p) + 1] = k /\ \A i \in DOMAIN p : q[i] = p[i]
    BY <1>1, <2>3
  <2> HIDE DEF q
  <2>5. \A i \in DOMAIN q : i = Len(p) + 1 \/ i \in DOMAIN p
    BY <1>1, <2>4
  <2>6. \A i \in DOMAIN p : p[i] # k
    BY <2>3 DEF ToSet
  <2>7. IsInjective(q)
    <3>1. IsInjective(p)
      BY DEF InTurn
    <3> QED
      BY <2>4, <2>5, <2>6, <3>1, Zenon DEF IsInjective
  <2>8. ASSUME NEW i \in DOMAIN q
        PROVE  refs[q[i]] \cap (S \ {q[i]}) \subseteq {q[j] : j \in 1..(i - 1)}
    <3>1. CASE i = Len(p) + 1
      <4>1. ToSet(p) = {q[j] : j \in 1..(i - 1)}
        BY <1>1, <2>4, <3>1 DEF ToSet
      <4> QED
        BY <2>3, <2>4, <3>1, <4>1
    <3>2. CASE i \in DOMAIN p
      <4>1. {q[j] : j \in 1..(i - 1)} = {p[j] : j \in 1..(i - 1)}
        BY <1>1, <2>4, <3>2
      <4>2. refs[p[i]] \cap (S \ {p[i]}) \subseteq {p[j] : j \in 1..(i - 1)}
        BY <3>2 DEF InTurn
      <4> QED
        BY <2>4, <3>2, <4>1, <4>2
    <3> QED
      BY <2>5, <3>1, <3>2
  <2>9. InTurn(S, refs, q)
    BY <2>4, <2>7, <2>8 DEF InTurn
  <2> QED
    BY <1>3, <2>1, <2>4, <2>9
<1> QED
  BY <1>2, <1>3

\* A sequence without repetition is no longer than its elements are many.
LEMMA NoRepetition ==
  ASSUME NEW S, IsFiniteSet(S), NEW p \in Seq(S), IsInjective(p)
  PROVE  /\ Len(p) <= Cardinality(S)
         /\ Len(p) = Cardinality(S) => ToSet(p) = S
         /\ ToSet(p) = S => Len(p) = Cardinality(S)
<1>1. Len(p) \in Nat /\ DOMAIN p = 1..Len(p) /\ p \in [1..Len(p) -> S]
  BY LenProperties
<1>2. p \in Injection(1..Len(p), S)
  BY <1>1 DEF Injection
<1>3. Cardinality(1..Len(p)) = Len(p)
  BY <1>1, FS_Interval
<1>4. /\ Cardinality(1..Len(p)) <= Cardinality(S)
      /\ Cardinality(1..Len(p)) = Cardinality(S) <=> p \in Surjection(1..Len(p), S)
  BY <1>2, FS_Injection
<1>5. p \in Surjection(1..Len(p), S) <=> ToSet(p) = S
  BY <1>1 DEF Surjection, ToSet
<1> QED
  BY <1>3, <1>4, <1>5

\* What has been picked is in turn, and nothing is ready that was not picked.
LEMMA OneByOneIs ==
  ASSUME NEW S, IsFiniteSet(S), Placeable(S), NEW refs
  PROVE  /\ InTurn(S, refs, OneByOne(S, refs))
         /\ Ready(S, refs, ToSet(OneByOne(S, refs))) = {}
<1> DEFINE N == Cardinality(S)
           X == {p \in Seq(S) : InTurn(S, refs, p)}
           g == [p \in X |-> OneMore(S, refs, p)]
           Rule(f) == [n \in 0..N |-> IF n = 0 THEN <<>> ELSE OneMore(S, refs, f[n - 1])]
           c == CHOOSE f : f = Rule(f)
<1>1. N \in Nat
  BY FS_CardinalityType
<1>2. <<>> \in X
  <2>1. <<>> \in Seq(S) /\ DOMAIN <<>> = {}
    OBVIOUS
  <2> QED
    BY <2>1 DEF InTurn, IsInjective
<1>3. \A p \in X : OneMore(S, refs, p) \in X
  <2> SUFFICES ASSUME NEW p \in X PROVE OneMore(S, refs, p) \in X
    OBVIOUS
  <2>1. InTurn(S, refs, OneMore(S, refs, p))
    BY OneMoreInTurn
  <2>2. OneMore(S, refs, p) \in Seq(S)
    BY <2>1 DEF InTurn
  <2> QED
    BY <2>1, <2>2
<1> HIDE DEF N, X
<1>4. g \in [X -> X]
  BY <1>3
<1>5. PICK f : Iterates(X, <<>>, g, N, f)
  <2> HIDE DEF g, Rule, c
  <2> QED
    BY <1>1, <1>2, <1>4, Recursion
<1>6. f = Rule(f)
  <2>1. ASSUME NEW n \in 0..N, n # 0 PROVE f[n] = OneMore(S, refs, f[n - 1])
    <3>1. n \in 1..N /\ n - 1 \in 0..N
      BY <1>1, <2>1
    <3>2. f[n] = g[f[n - 1]] /\ f[n - 1] \in X
      BY <1>5, <3>1 DEF Iterates
    <3> QED
      BY <3>2
  <2>2. f = [n \in 0..N |-> f[n]] /\ f[0] = <<>>
    BY <1>5 DEF Iterates
  <2> QED
    BY <2>1, <2>2
<1>7. c = Rule(c)
  <2> HIDE DEF Rule
  <2> QED
    BY <1>6, Zenon
<1>8. OneByOne(S, refs) = c[N]
  BY DEF OneByOne, OneMore, N
<1> HIDE DEF c
<1>9. /\ c[0] = <<>>
      /\ \A n \in 1..N : c[n] = OneMore(S, refs, c[n - 1])
  <2>1. 0 \in 0..N
    BY <1>1
  <2>2. c[0] = <<>>
    BY <1>7, <2>1
  <2>3. ASSUME NEW n \in 1..N PROVE c[n] = OneMore(S, refs, c[n - 1])
    <3>1. n \in 0..N /\ n # 0
      BY <1>1
    <3>2. Rule(c)[n] = OneMore(S, refs, c[n - 1])
      BY <3>1
    <3> QED
      BY <1>7, <3>2
  <2> QED
    BY <2>2, <2>3
<1> HIDE DEF Rule
<1> DEFINE R(p)  == Ready(S, refs, ToSet(p))
           Ok(n) == c[n] \in X /\ (R(c[n]) = {} \/ Len(c[n]) = n)
           P     == {n \in 0..N : Ok(n)}
<1>10. 0 \in P
  <2>1. Len(<<>>) = 0 /\ 0 \in 0..N
    BY <1>1
  <2> QED
    BY <1>2, <1>9, <2>1
<1>11. ASSUME NEW n \in 1..N, n - 1 \in P PROVE n \in P
  <2>1. c[n] = OneMore(S, refs, c[n - 1]) /\ c[n - 1] \in X
    BY <1>9, <1>11
  <2>2. c[n] \in X
    BY <1>3, <2>1
  <2>3. InTurn(S, refs, c[n - 1])
    BY <2>1 DEF X
  <2>4. CASE R(c[n - 1]) = {}
    <3>1. c[n] = c[n - 1]
      BY <2>1, <2>3, <2>4, OneMoreInTurn
    <3> QED
      BY <1>1, <2>2, <2>4, <3>1
  <2>5. CASE R(c[n - 1]) # {}
    <3>1. Len(c[n]) = Len(c[n - 1]) + 1
      BY <2>1, <2>3, <2>5, OneMoreInTurn
    <3>2. Len(c[n - 1]) = n - 1
      BY <1>11, <2>5
    <3>3. Len(c[n]) = n /\ n \in 0..N
      BY <1>1, <3>1, <3>2
    <3> QED
      BY <2>2, <3>3
  <2> QED
    BY <2>4, <2>5
<1>12. N \in P
  <2>1. N \in 0..N
    BY <1>1
  <2> HIDE DEF P
  <2> QED
    BY <1>1, <1>10, <1>11, <2>1, Reaches
<1>13. InTurn(S, refs, c[N])
  BY <1>12 DEF X
<1>14. R(c[N]) = {}
  <2>1. CASE Len(c[N]) = N
    <3>1. c[N] \in Seq(S) /\ IsInjective(c[N])
      BY <1>13 DEF InTurn
    <3>2. ToSet(c[N]) = S
      BY <2>1, <3>1, NoRepetition DEF N
    <3> QED
      BY <3>2 DEF Ready
  <2> QED
    BY <1>12, <2>1
<1> QED
  BY <1>8, <1>13, <1>14

\* The entities whose references lead to the root, as a least set.
Closed(S, T) == Root \in T /\ \A k \in DOMAIN S : S[k].refs \cap T # {} => k \in T
Leads(S)     == {k \in DOMAIN S \cup {Root} :
                   \A T \in SUBSET (DOMAIN S \cup {Root}) : Closed(S, T) => k \in T}

\* The least set is closed itself.
LEMMA LeadsIsClosed ==
  ASSUME NEW S
  PROVE  Closed(S, Leads(S))
<1>1. Root \in Leads(S)
  BY DEF Leads, Closed
<1>2. ASSUME NEW k \in DOMAIN S, S[k].refs \cap Leads(S) # {} PROVE k \in Leads(S)
  <2>1. PICK r \in S[k].refs : r \in Leads(S)
    BY <1>2
  <2>2. ASSUME NEW T \in SUBSET (DOMAIN S \cup {Root}), Closed(S, T) PROVE k \in T
    <3>1. r \in T
      BY <2>1, <2>2 DEF Leads
    <3> QED
      BY <2>2, <3>1 DEF Closed
  <2> QED
    BY <2>2 DEF Leads
<1> QED
  BY <1>1, <1>2 DEF Closed

\* More entities with the same references: no fewer lead to the root.
LEMMA LeadsGrows ==
  ASSUME NEW S, NEW U, DOMAIN S \subseteq DOMAIN U, \A k \in DOMAIN S : U[k].refs = S[k].refs
  PROVE  Leads(S) \subseteq Leads(U)
<1> SUFFICES ASSUME NEW k \in Leads(S) PROVE k \in Leads(U)
  OBVIOUS
<1>1. k \in DOMAIN U \cup {Root}
  BY DEF Leads
<1>2. ASSUME NEW T \in SUBSET (DOMAIN U \cup {Root}), Closed(U, T) PROVE k \in T
  <2> DEFINE V == T \cap (DOMAIN S \cup {Root})
  <2>1. Closed(S, V)
    BY <1>2 DEF Closed
  <2>2. k \in V
    BY <2>1 DEF Leads
  <2> QED
    BY <2>2
<1> QED
  BY <1>1, <1>2 DEF Leads

\* The order o lists the entities of S, each once.
Lists(o, S) == o \in Seq(Nat) /\ IsInjective(o) /\ ToSet(o) = DOMAIN S

\* j was staged before k.
Before(o, j, k) == \E i, n \in DOMAIN o : i < n /\ o[i] = j /\ o[n] = k

\* An entity refers to entities staged before it, and to the root.
RefersBack(o, S) == \A k \in DOMAIN S : \A r \in S[k].refs : r = Root \/ Before(o, r, k)

\* Where an entity stands in the order.
LEMMA Positions ==
  ASSUME Lists(order, staged)
  PROVE  /\ Len(order) \in Nat /\ DOMAIN order = 1..Len(order)
         /\ \A k \in DOMAIN staged : Position(k) \in 1..Len(order) /\ order[Position(k)] = k
         /\ \A i \in DOMAIN order : Position(order[i]) = i
         /\ IsFiniteSet(DOMAIN staged) /\ Cardinality(DOMAIN staged) = Len(order)
<1>1. /\ order \in Seq(Nat) /\ Len(order) \in Nat /\ DOMAIN order = 1..Len(order)
      /\ ToSet(order) = DOMAIN staged
  BY DEF Lists
<1>2. ASSUME NEW k \in DOMAIN staged
      PROVE  Position(k) \in 1..Len(order) /\ order[Position(k)] = k
  <2>1. \E i \in DOMAIN order : order[i] = k
    BY <1>1 DEF ToSet
  <2> QED
    BY <1>1, <2>1, Zenon DEF Position
<1>3. ASSUME NEW i \in DOMAIN order PROVE Position(order[i]) = i
  <2>1. Position(order[i]) \in DOMAIN order /\ order[Position(order[i])] = order[i]
    BY Zenon DEF Position
  <2> QED
    BY <2>1, Zenon DEF Lists, IsInjective
<1>4. order \in Surjection(1..Len(order), DOMAIN staged)
  <2>1. order \in [1..Len(order) -> DOMAIN staged]
    BY <1>1 DEF ToSet
  <2> QED
    BY <1>1, <2>1 DEF Surjection, ToSet
<1>5. IsFiniteSet(1..Len(order))
  BY <1>1, FS_Interval
<1>6. IsFiniteSet(DOMAIN staged)
  BY <1>4, <1>5, FS_Surjection
<1>7. order \in Seq(DOMAIN staged) /\ IsInjective(order)
  <2>1. \A i \in 1..Len(order) : order[i] \in DOMAIN staged
    BY <1>1 DEF ToSet
  <2> QED
    BY <1>1, <2>1 DEF Lists
<1>8. Cardinality(DOMAIN staged) = Len(order)
  BY <1>1, <1>6, <1>7, NoRepetition
<1> QED
  BY <1>1, <1>2, <1>3, <1>6, <1>8

\* Staged entities have places.
LEMMA StagedIsPlaceable ==
  ASSUME Lists(order, staged), \A k \in DOMAIN staged : staged[k].depth \in Nat,
         NEW S \in SUBSET DOMAIN staged
  PROVE  Placeable(S) /\ IsFiniteSet(S)
<1>1. \A k \in S : Position(k) \in Nat
  BY Positions
<1>2. \A j, k \in S : Position(j) = Position(k) => j = k
  BY Positions, Zenon
<1>3. IsFiniteSet(S)
  BY Positions, FS_Subset
<1> QED
  BY <1>1, <1>2, <1>3 DEF Placeable

\* An entity stands later than what it refers to, the root aside.
LEMMA ReferencesStandEarlier ==
  ASSUME Lists(order, staged), RefersBack(order, staged),
         NEW k \in DOMAIN staged, NEW r \in staged[k].refs, r # Root
  PROVE  r \in DOMAIN staged /\ Position(r) < Position(k)
<1>1. PICK i, n \in DOMAIN order : i < n /\ order[i] = r /\ order[n] = k
  BY Zenon DEF RefersBack, Before
<1>2. Position(r) = i /\ Position(k) = n
  BY <1>1, Positions
<1>3. r \in DOMAIN staged
  BY <1>1 DEF Lists, ToSet
<1> QED
  BY <1>1, <1>2, <1>3

\* All whose references lead to the root are circular: no way to it is longer than the
\* entities are many.
LEMMA LeadsAreCircular ==
  ASSUME Lists(order, staged), RefersBack(order, staged), Root \in DOMAIN staged
  PROVE  Leads(staged) \subseteq Circular
<1> DEFINE D == DOMAIN staged
           N == Cardinality(D)
           More(S) == S \cup {k \in D : staged[k].refs \cap S # {}}
           Rule(f) == [n \in 0..N |-> IF n = 0 THEN {Root} ELSE More(f[n - 1])]
           c == CHOOSE f : f = Rule(f)
           g == [S \in SUBSET D |-> More(S)]
<1>1. N \in Nat /\ N = Len(order) /\ \A k \in D : Position(k) \in 1..N
  BY Positions
<1>2. {Root} \in SUBSET D /\ g \in [SUBSET D -> SUBSET D]
  OBVIOUS
<1> HIDE DEF N, D
<1>3. PICK f : Iterates(SUBSET D, {Root}, g, N, f)
  <2> HIDE DEF g, Rule, c
  <2> QED
    BY <1>1, <1>2, Recursion
<1>4. f = Rule(f)
  <2>1. ASSUME NEW n \in 0..N, n # 0 PROVE f[n] = More(f[n - 1])
    <3>1. n \in 1..N /\ n - 1 \in 0..N
      BY <1>1, <2>1
    <3>2. f[n] = g[f[n - 1]] /\ f[n - 1] \in SUBSET D
      BY <1>3, <3>1 DEF Iterates
    <3> HIDE DEF More
    <3> QED
      BY <3>2
  <2>2. f = [n \in 0..N |-> f[n]] /\ f[0] = {Root}
    BY <1>3 DEF Iterates
  <2> HIDE DEF More
  <2> QED
    BY <2>1, <2>2
<1>5. c = Rule(c)
  <2> HIDE DEF Rule
  <2> QED
    BY <1>4, Zenon
<1>6. Circular = c[N]
  BY DEF Circular, N, D
<1> HIDE DEF c
<1>7. c[0] = {Root} /\ \A n \in 1..N : c[n] = More(c[n - 1])
  <2>1. 0 \in 0..N
    BY <1>1
  <2>2. c[0] = {Root}
    BY <1>5, <2>1
  <2>3. ASSUME NEW n \in 1..N PROVE c[n] = More(c[n - 1])
    <3>1. n \in 0..N /\ n # 0
      BY <1>1
    <3> HIDE DEF More
    <3>2. Rule(c)[n] = More(c[n - 1])
      BY <3>1
    <3> QED
      BY <1>5, <3>2
  <2> QED
    BY <2>2, <2>3
<1> HIDE DEF Rule
<1>8. ASSUME NEW d \in 0..N PROVE \A n \in d..N : c[d] \subseteq c[n]
  <2> DEFINE P == {i \in Nat : i > N - d \/ c[d] \subseteq c[d + i]}
  <2>1. 0 \in P /\ N - d \in Nat
    BY <1>1
  <2>2. ASSUME NEW i \in 1..(N - d), i - 1 \in P PROVE i \in P
    <3>1. c[d] \subseteq c[d + (i - 1)]
      BY <1>1, <2>2
    <3>2. d + i \in 1..N /\ (d + i) - 1 = d + (i - 1)
      BY <1>1
    <3>3. c[d + (i - 1)] \subseteq c[d + i]
      BY <1>7, <3>2
    <3> QED
      BY <3>1, <3>3
  <2>3. \A i \in 0..(N - d) : i \in P
    <3> HIDE DEF P
    <3> QED
      BY <2>1, <2>2, Reaches
  <2> SUFFICES ASSUME NEW n \in d..N PROVE c[d] \subseteq c[n]
    OBVIOUS
  <2>4. n - d \in 0..(N - d) /\ d + (n - d) = n /\ ~(n - d > N - d)
    BY <1>1
  <2> QED
    BY <2>3, <2>4
<1> DEFINE T == {k \in D : k = Root \/ k \in c[Position(k)]}
<1>9. ASSUME NEW k \in D, NEW r \in staged[k].refs, r \in T PROVE k \in T
  <2>1. Position(k) \in 1..N /\ Position(k) - 1 \in 0..N
    BY <1>1
  <2>2. r \in c[Position(k) - 1]
    <3>1. CASE r = Root
      <4>1. 0 \in 0..N /\ Position(k) - 1 \in 0..N
        BY <1>1, <2>1
      <4>2. c[0] \subseteq c[Position(k) - 1]
        BY <1>8, <4>1
      <4> QED
        BY <1>7, <3>1, <4>2
    <3>2. CASE r # Root
      <4>1. r \in D /\ Position(r) < Position(k)
        BY <3>2, ReferencesStandEarlier DEF D
      <4>2. Position(r) \in 0..N /\ Position(k) - 1 \in Position(r)..N
        BY <1>1, <4>1
      <4>3. c[Position(r)] \subseteq c[Position(k) - 1]
        BY <1>8, <4>2
      <4> QED
        BY <1>9, <3>2, <4>3
    <3> QED
      BY <3>1, <3>2
  <2>3. c[Position(k)] = More(c[Position(k) - 1])
    BY <1>7, <2>1
  <2> QED
    BY <2>2, <2>3
<1>10. Closed(staged, T)
  BY <1>9 DEF Closed, D
<1>11. T \subseteq Circular
  <2> SUFFICES ASSUME NEW k \in T PROVE k \in Circular
    OBVIOUS
  <2>1. CASE k = Root
    <3>1. 0 \in 0..N /\ N \in 0..N
      BY <1>1
    <3>2. c[0] \subseteq c[N]
      BY <1>8, <3>1
    <3> QED
      BY <1>6, <1>7, <2>1, <3>2
  <2>2. CASE k # Root
    <3>1. Position(k) \in 0..N /\ N \in Position(k)..N
      BY <1>1
    <3>2. c[Position(k)] \subseteq c[N]
      BY <1>8, <3>1
    <3> QED
      BY <1>6, <2>2, <3>2
  <2> QED
    BY <2>1, <2>2
<1>12. T \in SUBSET (DOMAIN staged \cup {Root})
  BY DEF D
<1> HIDE DEF T
<1> QED
  BY <1>10, <1>11, <1>12 DEF Leads

\* What is never ready refers, in the end, to the root.
LEMMA TheRestLeadsToRoot ==
  ASSUME Lists(order, staged), RefersBack(order, staged),
         NEW S \in SUBSET DOMAIN staged, NEW done,
         Ready(S, [k \in S |-> staged[k].refs], done) = {}
  PROVE  S \ done \subseteq Leads(staged)
<1> DEFINE B == {Position(k) : k \in (S \ done) \ Leads(staged)}
<1> SUFFICES ASSUME NEW k0 \in S \ done, k0 \notin Leads(staged) PROVE FALSE
  OBVIOUS
<1>1. B \in SUBSET Nat /\ B # {}
  <2>1. \A k \in S : Position(k) \in Nat
    BY Positions
  <2> QED
    BY <2>1
<1>2. PICK n \in B : \A i \in B : n <= i
  <2> HIDE DEF B
  <2> QED
    BY <1>1, LeastElement
<1>3. PICK k \in (S \ done) \ Leads(staged) : n = Position(k)
  OBVIOUS
<1>4. PICK r \in staged[k].refs : r \in S /\ r \notin done
  BY <1>3 DEF Ready
<1>5. r \notin Leads(staged)
  BY <1>3, <1>4, LeadsIsClosed DEF Closed
<1>6. r # Root
  BY <1>5, LeadsIsClosed DEF Closed
<1>7. Position(r) < Position(k) /\ Position(r) \in Nat /\ Position(k) \in Nat
  <2>1. k \in DOMAIN staged /\ r \in DOMAIN staged
    BY <1>3, <1>4
  <2>2. Position(r) < Position(k)
    BY <1>4, <1>6, <2>1, ReferencesStandEarlier
  <2> QED
    BY <2>1, <2>2, Positions
<1>8. Position(r) \in B
  BY <1>4, <1>5
<1> HIDE DEF B
<1> QED
  BY <1>2, <1>3, <1>7, <1>8

\* The sequence a takes all of S; an entity comes after what it refers to in S, unless that
\* leads to the root.
Serves(S, a) ==
  /\ a \in Seq(S) /\ ToSet(a) = S
  /\ \A i \in DOMAIN a : staged[a[i]].refs \cap S \subseteq {a[j] : j \in 1..i} \cup Leads(staged)

\* The order of the application serves every set of staged entities.
LEMMA ApplyOrderServes ==
  ASSUME Lists(order, staged), RefersBack(order, staged),
         \A k \in DOMAIN staged : staged[k].depth \in Nat,
         NEW S \in SUBSET DOMAIN staged
  PROVE  Serves(S, ApplyOrder(S))
<1> DEFINE refs == [k \in S |-> staged[k].refs]
           a    == ReferenceFirst(S)
           M    == S \ ToSet(a)
           none == [k \in M |-> {}]
           b    == OneByOne(M, none)
<1>1. ApplyOrder(S) = a \o b
  BY DEF ApplyOrder
<1>2. a = OneByOne(S, refs)
  BY DEF ReferenceFirst
<1>3. Placeable(S) /\ IsFiniteSet(S)
  BY StagedIsPlaceable
<1>4. InTurn(S, refs, a) /\ Ready(S, refs, ToSet(a)) = {}
  <2> HIDE DEF a, refs
  <2> QED
    BY <1>2, <1>3, OneByOneIs
<1>5. M \subseteq Leads(staged)
  <2> HIDE DEF a
  <2> QED
    BY <1>4, TheRestLeadsToRoot
<1>6. Placeable(M) /\ IsFiniteSet(M)
  <2>1. M \in SUBSET DOMAIN staged
    OBVIOUS
  <2> HIDE DEF M
  <2> QED
    BY <2>1, StagedIsPlaceable
<1>7. InTurn(M, none, b) /\ Ready(M, none, ToSet(b)) = {}
  <2> HIDE DEF M, none
  <2> QED
    BY <1>6, OneByOneIs
<1>8. ToSet(b) = M
  <2>1. M \ ToSet(b) = {}
    <3> HIDE DEF M, b
    <3> QED
      BY <1>7 DEF Ready
  <2>2. ToSet(b) \subseteq M
    <3> HIDE DEF M, b
    <3>1. b \in Seq(M)
      BY <1>7 DEF InTurn
    <3> QED
      BY <3>1 DEF ToSet
  <2> HIDE DEF M, b
  <2> QED
    BY <2>1, <2>2
<1>9. a \in Seq(S) /\ ToSet(a) \subseteq S /\ b \in Seq(S)
  <2> HIDE DEF a, b
  <2>1. a \in Seq(S) /\ b \in Seq(M)
    BY <1>4, <1>7 DEF InTurn
  <2>2. M \subseteq S
    OBVIOUS
  <2> HIDE DEF M
  <2>3. b \in Seq(S)
    BY <2>1, <2>2, SeqMonotonic
  <2> QED
    BY <2>1, <2>3 DEF ToSet
<1> HIDE DEF a, b
<1> DEFINE c == a \o b
<1>10. /\ c \in Seq(S) /\ Len(a) \in Nat /\ Len(b) \in Nat
       /\ DOMAIN c = 1..(Len(a) + Len(b)) /\ DOMAIN a = 1..Len(a) /\ DOMAIN b = 1..Len(b)
       /\ \A i \in DOMAIN a : i \in DOMAIN c /\ c[i] = a[i]
       /\ \A i \in DOMAIN b : Len(a) + i \in DOMAIN c /\ c[Len(a) + i] = b[i]
  BY <1>9
<1> HIDE DEF c
<1>11. ASSUME NEW i \in DOMAIN c
       PROVE  i \in DOMAIN a \/ \E n \in DOMAIN b : i = Len(a) + n
  <2>1. i \in Nat /\ (i \in 1..Len(a) \/ i - Len(a) \in 1..Len(b))
    BY <1>10
  <2> QED
    BY <1>10, <2>1
<1>12. ToSet(c) = S
  <2>1. ToSet(c) \subseteq S
    BY <1>10 DEF ToSet
  <2>2. ToSet(a) \subseteq ToSet(c)
    BY <1>10 DEF ToSet
  <2>3. ToSet(b) \subseteq ToSet(c)
    BY <1>10 DEF ToSet
  <2> QED
    BY <1>8, <2>1, <2>2, <2>3
<1>13. ASSUME NEW i \in DOMAIN c
       PROVE  staged[c[i]].refs \cap S \subseteq {c[j] : j \in 1..i} \cup Leads(staged)
  <2>1. CASE i \in DOMAIN a
    <3>1. c[i] = a[i] /\ a[i] \in S
      BY <1>9, <1>10, <2>1
    <3>2. staged[a[i]].refs \cap (S \ {a[i]}) \subseteq {a[j] : j \in 1..(i - 1)}
      BY <1>4, <2>1, <3>1 DEF InTurn
    <3>3. {a[j] : j \in 1..(i - 1)} \subseteq {c[j] : j \in 1..i} /\ c[i] \in {c[j] : j \in 1..i}
      BY <1>10, <2>1
    <3> QED
      BY <3>1, <3>2, <3>3
  <2>2. CASE \E n \in DOMAIN b : i = Len(a) + n
    <3>1. ToSet(a) \subseteq {c[j] : j \in 1..i}
      BY <1>10, <2>2 DEF ToSet
    <3> QED
      BY <1>5, <3>1
  <2> QED
    BY <1>11, <2>1, <2>2
<1>14. Serves(S, c)
  BY <1>10, <1>12, <1>13 DEF Serves
<1> QED
  BY <1>1, <1>14 DEF c

(***************************************************************************)
(* The mappings under way.                                                 *)
(***************************************************************************)
TargetsOf(w) == {l[1] : l \in LinksOf(w)}
FrameType(w) ==
  [id : Nat, rec : RecordsOf(w), path : Seq(TargetsOf(w)), todo : SUBSET LinksOf(w),
   names : Seq(NamesOf(w)), refs : SUBSET Nat, chain : SUBSET RecordsOf(w)]
AskType(w) ==
  [name : NamesOf(w), n : Nat, by : Nat, path : Seq(StepsOf(w)), chain : SUBSET RecordsOf(w)]

WorldOK(w) ==
  /\ RootRecord \in RecordsOf(w) /\ w.same \in [RecordsOf(w) -> RecordsOf(w)]
  /\ NamesOf(w) \cap RecordsOf(w) = {}
  /\ \A r \in RecordsOf(w) : w.names[r] \in Seq(NamesOf(w)) /\ w.links[r] \subseteq LinksOf(w)
  /\ \A l \in LinksOf(w) : l[2] \in RecordsOf(w)
  /\ "name" \notin TargetsOf(w)

\* The assumption on worlds, in the terms of the proofs.
LEMMA WorldsAreOK ==
  ASSUME NEW w \in Worlds
  PROVE  WorldOK(w)
<1>1. /\ RootRecord \in RecordsOf(w) /\ w.same \in [RecordsOf(w) -> RecordsOf(w)]
      /\ NamesOf(w) \cap RecordsOf(w) = {}
      /\ \A r \in RecordsOf(w) :
            /\ w.names[r] \in Seq(NamesOf(w))
            /\ \A l \in w.links[r] : l[1] # "name" /\ l[2] \in RecordsOf(w)
  BY WorldsAssumption DEF RecordsOf, NamesOf
<1>2. \A r \in RecordsOf(w) : w.links[r] \subseteq LinksOf(w)
  BY DEF LinksOf
<1>3. \A l \in LinksOf(w) : l[1] # "name" /\ l[2] \in RecordsOf(w)
  BY <1>1 DEF LinksOf
<1>4. "name" \notin TargetsOf(w)
  BY <1>3 DEF TargetsOf
<1> QED
  BY <1>1, <1>2, <1>3, <1>4 DEF WorldOK

\* b drew an id, and nothing is to be expected of it: its mapping was given up.
Dead(D, n, s, b) == b \in 0..n /\ b \notin D /\ \A i \in DOMAIN s : s[i].id # b

\* The mappings s nest along a path, each for a record not met above; D are staged, and n
\* ids have been drawn.
Frame1(w, D, n, s, i) ==
  /\ Len(s[i].path) = i - 1
  /\ s[i].id \in 0..n /\ s[i].id \notin D
  /\ \A j \in 1..(i - 1) : s[j].rec \in s[i].chain /\ s[j].id < s[i].id
  /\ s[i].todo \subseteq w.links[s[i].rec]
  /\ s[i].todo # {} => Depth(s[i].path) <= MaxDepth
  /\ (s[i].id = Root) <=> (i = 1)
  /\ s[i].refs \subseteq D \cup {Root}
  /\ i > 1 => s[i - 1].path = SubSeq(s[i].path, 1, i - 2)
Frames(w, D, n, s) ==
  /\ s \in Seq(FrameType(w)) /\ n \in Nat /\ Len(s) <= MaxLen
  /\ \A i \in DOMAIN s : Frame1(w, D, n, s, i)

\* g is the mapping f, gone on.
Later(f, g) ==
  /\ g.id = f.id /\ g.rec = f.rec /\ g.path = f.path /\ g.chain = f.chain
  /\ g.todo \subseteq f.todo /\ f.refs \subseteq g.refs
\* ... and t the mappings of s that have not ended.
GoesOn(s, t) == Len(t) <= Len(s) /\ \A i \in DOMAIN t : Later(s[i], t[i])

\* Mappings that go on keep nesting.
LEMMA FramesGoOn ==
  ASSUME NEW w, NEW D, NEW n, NEW s, Frames(w, D, n, s),
         NEW E, NEW m \in Nat, n <= m, NEW t \in Seq(FrameType(w)), GoesOn(s, t),
         \A i \in DOMAIN t : t[i].id \notin E /\ t[i].refs \subseteq E \cup {Root}
  PROVE  Frames(w, E, m, t)
<1>1. /\ Len(s) \in Nat /\ Len(t) \in Nat /\ DOMAIN s = 1..Len(s) /\ DOMAIN t = 1..Len(t)
      /\ Len(t) <= Len(s) /\ Len(s) <= MaxLen
  BY DEF Frames, GoesOn
<1>2. ASSUME NEW i \in DOMAIN t PROVE Frame1(w, E, m, t, i)
  <2>1. i \in DOMAIN s /\ \A j \in 1..(i - 1) : j \in DOMAIN s /\ j \in DOMAIN t
    BY <1>1
  <2>2. Frame1(w, D, n, s, i)
    BY <2>1 DEF Frames
  <2>3. Later(s[i], t[i]) /\ \A j \in 1..(i - 1) : Later(s[j], t[j])
    BY <2>1 DEF GoesOn
  <2>4. /\ Len(t[i].path) = i - 1 /\ t[i].id \in 0..m
        /\ (t[i].id = Root) <=> (i = 1)
    BY <2>2, <2>3 DEF Frame1, Later, Frames
  <2>5. \A j \in 1..(i - 1) : t[j].rec \in t[i].chain /\ t[j].id < t[i].id
    BY <2>2, <2>3 DEF Frame1, Later
  <2>6. /\ t[i].todo \subseteq w.links[t[i].rec]
        /\ t[i].todo # {} => Depth(t[i].path) <= MaxDepth
    BY <2>2, <2>3 DEF Frame1, Later
  <2>7. i > 1 => t[i - 1].path = SubSeq(t[i].path, 1, i - 2)
    <3>1. i > 1 => i - 1 \in 1..(i - 1)
      BY <1>1
    <3> QED
      BY <2>2, <2>3, <3>1 DEF Frame1, Later
  <2> QED
    BY <2>4, <2>5, <2>6, <2>7 DEF Frame1
<1>3. Len(t) <= MaxLen
  BY <1>1, MaxLenIsNat
<1> QED
  BY <1>2, <1>3 DEF Frames

\* A path and the next step.
LEMMA NextStep ==
  ASSUME NEW X, NEW p \in Seq(X), NEW e \in X
  PROVE  /\ Append(p, e) \in Seq(X) /\ Append(p, e) # <<>>
         /\ Len(Append(p, e)) = Len(p) + 1 /\ Len(p) \in Nat
         /\ Append(p, e)[Len(p) + 1] = e
         /\ SubSeq(Append(p, e), 1, Len(p)) = p
<1> DEFINE q == Append(p, e)
<1>1. /\ q \in Seq(X) /\ Len(q) = Len(p) + 1 /\ Len(p) \in Nat /\ q[Len(p) + 1] = e
      /\ \A i \in 1..Len(p) : q[i] = p[i]
  OBVIOUS
<1> HIDE DEF q
<1>2. q # <<>>
  BY <1>1
<1>3. SubSeq(q, 1, Len(p)) = p
  BY <1>1
<1> QED
  BY <1>1, <1>2, <1>3 DEF q

\* A new mapping f on top, for a link of the topmost.
LEMMA FramesNest ==
  ASSUME NEW w, NEW D, NEW n, NEW s, Frames(w, D, n, s), s # <<>>, D \subseteq 0..n,
         NEW f \in FrameType(w), f.id = n + 1, f.refs = {}, f.todo \subseteq w.links[f.rec],
         f.todo # {} => Depth(f.path) <= MaxDepth,
         NEW e \in TargetsOf(w), f.path = Append(s[Len(s)].path, e),
         Depth(s[Len(s)].path) <= MaxDepth,
         s[Len(s)].chain \cup {s[Len(s)].rec} \subseteq f.chain
  PROVE  Frames(w, D, n + 1, Append(s, f))
<1> DEFINE t == Append(s, f)
<1>0. PICK N : N = Len(s)
  OBVIOUS
<1>1. /\ N \in Nat \ {0} /\ DOMAIN s = 1..N /\ n \in Nat
  BY <1>0 DEF Frames
<1>2. /\ t \in Seq(FrameType(w)) /\ Len(t) = N + 1 /\ DOMAIN t = 1..(N + 1)
      /\ t[N + 1] = f /\ \A i \in 1..N : t[i] = s[i]
  <2>1. s \in Seq(FrameType(w))
    BY DEF Frames
  <2> QED
    BY <1>0, <1>1, <2>1
<1>3. Frame1(w, D, n, s, N)
  BY <1>1 DEF Frames
<1>4. s[N].path \in Seq(TargetsOf(w)) /\ Len(s[N].path) = N - 1
  <2>1. s[N] \in FrameType(w)
    BY <1>1 DEF Frames
  <2> QED
    BY <1>3, <2>1 DEF FrameType, Frame1
<1> HIDE DEF t
<1>5. N + 1 <= MaxLen
  <2>1. CASE N = 1
    BY <2>1, DepthAssumption DEF MaxLen
  <2>2. CASE N # 1
    <3>1. s[N].path # <<>>
      <4>1. Len(s[N].path) # 0
        BY <1>1, <1>4, <2>2
      <4> QED
        BY <4>1
    <3>2. 2 * (N - 1) - 1 <= MaxDepth
      BY <1>0, <1>4, <3>1 DEF Depth
    <3> QED
      BY <1>1, <3>2, DepthAssumption DEF MaxLen
  <2> QED
    BY <2>1, <2>2
<1>6. ASSUME NEW i \in 1..N PROVE Frame1(w, D, n + 1, t, i)
  <2>1. Frame1(w, D, n, s, i)
    BY <1>1 DEF Frames
  <2>2. t[i] = s[i] /\ (i > 1 => t[i - 1] = s[i - 1]) /\ \A j \in 1..(i - 1) : t[j] = s[j]
    BY <1>1, <1>2
  <2>3. s[i].id \in 0..(n + 1)
    BY <1>1, <2>1 DEF Frame1
  <2> QED
    BY <2>1, <2>2, <2>3 DEF Frame1
<1>7. Frame1(w, D, n + 1, t, N + 1)
  <2>1. f.path # <<>> /\ Len(f.path) = N /\ SubSeq(f.path, 1, N - 1) = s[N].path
    <3>1. /\ f.path # <<>> /\ Len(f.path) = Len(s[N].path) + 1
          /\ SubSeq(f.path, 1, Len(s[N].path)) = s[N].path
      BY <1>0, <1>4, NextStep
    <3>2. Len(s[N].path) = N - 1
      BY <1>4
    <3> QED
      BY <1>1, <3>1, <3>2
  <2>2. ASSUME NEW j \in 1..N PROVE s[j].rec \in f.chain /\ s[j].id < f.id
    <3>1. s[j].rec \in f.chain
      <4>1. CASE j = N
        BY <1>0, <4>1
      <4>2. CASE j # N
        <5>1. j \in 1..(N - 1)
          BY <1>1, <4>2
        <5> QED
          BY <1>0, <1>3, <5>1 DEF Frame1
      <4> QED
        BY <4>1, <4>2
    <3>2. Frame1(w, D, n, s, j)
      BY <1>1 DEF Frames
    <3> QED
      BY <1>1, <3>1, <3>2 DEF Frame1
  <2>3. t[N + 1] = f /\ t[N] = s[N] /\ \A j \in 1..N : t[j] = s[j]
    BY <1>1, <1>2
  <2>4. (N + 1) - 1 = N /\ (N + 1) - 2 = N - 1 /\ N + 1 # 1 /\ f.id \in 0..(n + 1)
        /\ f.id # Root /\ f.id \notin D
    BY <1>1 DEF Root
  <2>5. /\ Len(t[N + 1].path) = (N + 1) - 1
        /\ t[N + 1].id \in 0..(n + 1) /\ t[N + 1].id \notin D
        /\ (t[N + 1].id = Root) <=> (N + 1 = 1)
        /\ t[(N + 1) - 1].path = SubSeq(t[N + 1].path, 1, (N + 1) - 2)
    BY <2>1, <2>3, <2>4
  <2>6. \A j \in 1..((N + 1) - 1) : t[j].rec \in t[N + 1].chain /\ t[j].id < t[N + 1].id
    BY <2>2, <2>3, <2>4
  <2> QED
    BY <2>3, <2>5, <2>6 DEF Frame1
<1>8. \A i \in DOMAIN t : Frame1(w, D, n + 1, t, i)
  <2>1. \A i \in DOMAIN t : i \in 1..N \/ i = N + 1
    BY <1>1, <1>2
  <2> QED
    BY <1>6, <1>7, <2>1
<1> QED
  BY <1>1, <1>2, <1>5, <1>8 DEF Frames, t

(***************************************************************************)
(* Causes: an entity is staged under, or is to come under, the entity in   *)
(* whose mapping it was created, unless that mapping was given up.         *)
(***************************************************************************)
\* Of the ids that were given up none is staged or being mapped again.
NoneRevived(D, n, s, E, m, t) ==
  /\ n \in Nat /\ m \in Nat /\ n <= m
  /\ \A e \in E : e \in D \/ e = n + 1 \/ \E j \in DOMAIN s : e = s[j].id
  /\ \A i \in DOMAIN t : t[i].id = n + 1 \/ \E j \in DOMAIN s : t[i].id = s[j].id

\* What was given up stays given up.
LEMMA DeadStayDead ==
  ASSUME NEW D, NEW n, NEW s, NEW E, NEW m, NEW t, NoneRevived(D, n, s, E, m, t),
         NEW b, Dead(D, n, s, b)
  PROVE  Dead(E, m, t, b)
<1>1. b \in 0..n /\ b \notin D /\ \A i \in DOMAIN s : s[i].id # b
  BY DEF Dead
<1>2. b \in 0..m /\ b # n + 1
  BY <1>1 DEF NoneRevived
<1>3. b \notin E
  BY <1>1, <1>2, Zenon DEF NoneRevived
<1>4. \A i \in DOMAIN t : t[i].id # b
  BY <1>1, <1>2, Zenon DEF NoneRevived
<1> QED
  BY <1>2, <1>3, <1>4 DEF Dead

UnderCause(S, k) ==
  LET b == S[k].by IN
  /\ b \in DOMAIN S /\ S[k].parent = b /\ k \in S[b].refs
  /\ Len(S[k].path) = Len(S[b].path) + 1
UnderWay(S, s, k, i) ==
  /\ S[k].by = s[i].id /\ S[k].parent = Root /\ k \in s[i].refs
  /\ Len(S[k].path) = i /\ SubSeq(S[k].path, 1, i - 1) = s[i].path
CauseOf(S, n, s, k) ==
  \/ Dead(DOMAIN S, n, s, S[k].by)
  \/ UnderCause(S, k)
  \/ \E i \in DOMAIN s : UnderWay(S, s, k, i)
Caused(S, n, s) == \A k \in DOMAIN S \ {Root} : CauseOf(S, n, s, k)

\* Mappings that go on or end bring no id back.
LEMMA NoneRevivedByGoingOn ==
  ASSUME NEW w, NEW D, NEW n, NEW s, Frames(w, D, n, s), NEW m \in Nat, n <= m,
         NEW t \in Seq(FrameType(w)), GoesOn(s, t)
  PROVE  NoneRevived(D, n, s, D, m, t)
<1>1. ASSUME NEW i \in DOMAIN t PROVE \E j \in DOMAIN s : t[i].id = s[j].id
  <2>1. i \in DOMAIN s
    BY DEF GoesOn, Frames
  <2>2. t[i].id = s[i].id
    BY DEF GoesOn, Later
  <2> QED
    BY <2>1, <2>2
<1>2. n \in Nat
  BY DEF Frames
<1> QED
  BY <1>1, <1>2 DEF NoneRevived

\* A mapping that has ended with its entity not staged is dead.
LEMMA EndedIsDead ==
  ASSUME NEW w, NEW D, NEW n, NEW s, Frames(w, D, n, s), NEW m \in Nat, n <= m,
         NEW t \in Seq(FrameType(w)), GoesOn(s, t),
         NEW i \in DOMAIN s, i \notin DOMAIN t
  PROVE  Dead(D, m, t, s[i].id)
<1>1. /\ Len(s) \in Nat /\ Len(t) \in Nat /\ DOMAIN s = 1..Len(s) /\ DOMAIN t = 1..Len(t)
      /\ n \in Nat
  BY DEF Frames
<1>2. Frame1(w, D, n, s, i)
  BY DEF Frames
<1>3. s[i].id \in 0..m /\ s[i].id \notin D
  BY <1>1, <1>2 DEF Frame1
<1>4. ASSUME NEW j \in DOMAIN t PROVE t[j].id # s[i].id
  <2>1. j \in 1..(i - 1) /\ j \in DOMAIN s
    BY <1>1 DEF GoesOn
  <2>2. s[j].id < s[i].id /\ t[j].id = s[j].id
    BY <1>2, <2>1 DEF Frame1, GoesOn, Later
  <2>3. s[j].id \in 0..n
    BY <2>1 DEF Frames, Frame1
  <2> QED
    BY <1>1, <1>3, <2>2, <2>3
<1> QED
  BY <1>3, <1>4 DEF Dead

\* They keep the causes, too.
LEMMA CausedGoesOn ==
  ASSUME NEW w, NEW S, NEW n, NEW s, Frames(w, DOMAIN S, n, s), NEW m \in Nat, n <= m,
         NEW t \in Seq(FrameType(w)), GoesOn(s, t), Caused(S, n, s)
  PROVE  Caused(S, m, t)
<1> SUFFICES ASSUME NEW k \in DOMAIN S \ {Root} PROVE CauseOf(S, m, t, k)
  BY DEF Caused
<1>1. CauseOf(S, n, s, k)
  BY DEF Caused
<1>2. CASE Dead(DOMAIN S, n, s, S[k].by)
  <2>1. NoneRevived(DOMAIN S, n, s, DOMAIN S, m, t)
    BY NoneRevivedByGoingOn
  <2> QED
    BY <1>2, <2>1, DeadStayDead DEF CauseOf
<1>3. CASE UnderCause(S, k)
  BY <1>3 DEF CauseOf
<1>4. CASE \E i \in DOMAIN s : UnderWay(S, s, k, i)
  <2>1. PICK i \in DOMAIN s : UnderWay(S, s, k, i)
    BY <1>4
  <2>2. CASE i \in DOMAIN t
    <3>1. UnderWay(S, t, k, i)
      BY <2>1, <2>2 DEF UnderWay, GoesOn, Later
    <3> QED
      BY <2>2, <3>1 DEF CauseOf
  <2>3. CASE i \notin DOMAIN t
    <3>1. Dead(DOMAIN S, m, t, s[i].id)
      BY <2>3, EndedIsDead
    <3> QED
      BY <2>1, <3>1 DEF CauseOf, UnderWay
  <2> QED
    BY <2>2, <2>3
<1> QED
  BY <1>1, <1>2, <1>3, <1>4 DEF CauseOf

\* Of a stack and a new mapping on top.
LEMMA OnTop ==
  ASSUME NEW w, NEW s \in Seq(FrameType(w)), NEW f \in FrameType(w)
  PROVE  /\ Append(s, f) \in Seq(FrameType(w))
         /\ Len(Append(s, f)) = Len(s) + 1 /\ Len(s) \in Nat /\ DOMAIN s = 1..Len(s)
         /\ DOMAIN Append(s, f) = 1..(Len(s) + 1)
         /\ Append(s, f)[Len(s) + 1] = f
         /\ \A i \in DOMAIN s : i \in DOMAIN Append(s, f) /\ Append(s, f)[i] = s[i]
OBVIOUS

\* A new mapping brings no id back.
LEMMA NoneRevivedByNesting ==
  ASSUME NEW w, NEW D, NEW n \in Nat, NEW s \in Seq(FrameType(w)),
         NEW f \in FrameType(w), f.id = n + 1
  PROVE  NoneRevived(D, n, s, D, n + 1, Append(s, f))
<1> DEFINE t == Append(s, f)
<1>1. /\ DOMAIN t = 1..(Len(s) + 1) /\ t[Len(s) + 1] = f /\ Len(s) \in Nat
      /\ DOMAIN s = 1..Len(s) /\ \A i \in DOMAIN s : t[i] = s[i]
  BY OnTop
<1> HIDE DEF t
<1>2. ASSUME NEW i \in DOMAIN t
      PROVE  t[i].id = n + 1 \/ \E j \in DOMAIN s : t[i].id = s[j].id
  <2>1. CASE i = Len(s) + 1
    BY <1>1, <2>1
  <2>2. CASE i # Len(s) + 1
    BY <1>1, <2>2
  <2> QED
    BY <2>1, <2>2
<1> QED
  BY <1>2 DEF NoneRevived, t

\* ... and keeps the causes.
LEMMA CausedNests ==
  ASSUME NEW w, NEW S, NEW n \in Nat, NEW s \in Seq(FrameType(w)), Caused(S, n, s),
         NEW f \in FrameType(w), f.id = n + 1
  PROVE  Caused(S, n + 1, Append(s, f))
<1> DEFINE t == Append(s, f)
<1>1. \A i \in DOMAIN s : i \in DOMAIN t /\ t[i] = s[i]
  BY OnTop
<1>2. NoneRevived(DOMAIN S, n, s, DOMAIN S, n + 1, t)
  BY NoneRevivedByNesting
<1> HIDE DEF t
<1> SUFFICES ASSUME NEW k \in DOMAIN S \ {Root} PROVE CauseOf(S, n + 1, t, k)
  BY DEF Caused, t
<1>3. CauseOf(S, n, s, k)
  BY DEF Caused
<1>4. CASE Dead(DOMAIN S, n, s, S[k].by)
  BY <1>2, <1>4, DeadStayDead DEF CauseOf
<1>5. CASE UnderCause(S, k)
  BY <1>5 DEF CauseOf
<1>6. CASE \E i \in DOMAIN s : UnderWay(S, s, k, i)
  <2>1. PICK i \in DOMAIN s : UnderWay(S, s, k, i)
    BY <1>6
  <2>2. i \in DOMAIN t /\ UnderWay(S, t, k, i)
    BY <1>1, <2>1 DEF UnderWay
  <2> QED
    BY <2>2 DEF CauseOf
<1> QED
  BY <1>3, <1>4, <1>5, <1>6 DEF CauseOf

\* The entity id = new is staged, and what has been found for it comes under it; the
\* mappings that go on keep what they have found at the root.
LEMMA CausedStaged ==
  ASSUME NEW w, NEW S, S \in [DOMAIN S -> EntryType(w)], TreeShape(S),
         NEW n, NEW s, Frames(w, DOMAIN S, n, s), Caused(S, n, s),
         NEW T, NEW id, NEW new \in EntryType(w), Joined(w, S, T, id, new), id \notin DOMAIN S,
         id = Root <=> new.path = <<>>,
         NEW m, NEW t, GoesOn(s, t), NoneRevived(DOMAIN S, n, s, DOMAIN T, m, t),
         \A k \in DOMAIN S : \A i \in DOMAIN t : UnderWay(S, s, k, i) => ~Below(new, S[k]),
         \A i \in DOMAIN s : i \notin DOMAIN t =>
            s[i].id = id /\ s[i].path = new.path /\ s[i].refs = new.refs,
         id # Root => CauseOf(T, m, t, id)
  PROVE  Caused(T, m, t)
<1> SUFFICES ASSUME NEW k \in DOMAIN T \ {Root} PROVE CauseOf(T, m, t, k)
  BY DEF Caused
<1>1. CASE k = id
  BY <1>1
<1>2. CASE k # id
  <2>1. k \in DOMAIN S /\ k # Root
    BY <1>2 DEF Joined
  <2>2. /\ T[k].path = S[k].path /\ T[k].by = S[k].by
        /\ T[k].parent = S[k].parent \/ (Below(new, S[k]) /\ T[k].parent = id)
        /\ Below(new, S[k]) /\ Len(S[k].path) = Len(new.path) + 1 => T[k].parent = id
    BY <2>1, Zenon DEF Joined, SameEntry
  <2>3. CauseOf(S, n, s, k)
    BY <2>1 DEF Caused
  <2>4. /\ S[k].path \in Seq(StepsOf(w)) /\ new.path \in Seq(StepsOf(w))
        /\ Len(S[k].path) \in Nat /\ Len(new.path) \in Nat
    <3>1. S[k] \in EntryType(w)
      BY <2>1
    <3> QED
      BY <3>1 DEF EntryType
  <2>5. CASE Dead(DOMAIN S, n, s, S[k].by)
    BY <2>2, <2>5, DeadStayDead DEF CauseOf
  <2>6. CASE UnderCause(S, k)
    <3> DEFINE b == S[k].by
    <3>1. b \in DOMAIN S /\ S[k].parent = b /\ k \in S[b].refs /\ Len(S[k].path) = Len(S[b].path) + 1
      BY <2>6 DEF UnderCause
    <3>2. ~Below(new, S[k])
      <4>1. CASE b = Root
        <5>1. Len(S[k].path) = 1
          BY <3>1, <4>1 DEF TreeShape
        <5>2. ASSUME Below(new, S[k]) PROVE FALSE
          <6>1. new.path # <<>> /\ Len(new.path) < Len(S[k].path)
            BY <2>4, <5>2, StrictPrefix DEF Below
          <6>2. Len(new.path) # 0
            BY <2>4, <6>1
          <6> QED
            BY <2>4, <5>1, <6>1, <6>2
        <5> QED
          BY <5>2
      <4>2. CASE b # Root
        BY <3>1, <4>2 DEF Below
      <4> QED
        BY <4>1, <4>2
    <3>3. T[k].parent = b /\ T[k].by = b
      BY <2>2, <3>1, <3>2
    <3>4. b \in DOMAIN T /\ T[b].refs = S[b].refs /\ T[b].path = S[b].path
      BY <3>1, Zenon DEF Joined, SameEntry
    <3> HIDE DEF b
    <3>5. UnderCause(T, k)
      BY <2>2, <3>1, <3>3, <3>4 DEF UnderCause
    <3> QED
      BY <3>5 DEF CauseOf
  <2>7. CASE \E i \in DOMAIN s : UnderWay(S, s, k, i)
    <3>1. PICK i \in DOMAIN s : UnderWay(S, s, k, i)
      BY <2>7
    <3>2. CASE i \in DOMAIN t
      <4>1. ~Below(new, S[k])
        BY <2>1, <3>1, <3>2
      <4>2. Later(s[i], t[i])
        BY <3>2 DEF GoesOn
      <4>3. UnderWay(T, t, k, i)
        BY <2>2, <3>1, <4>1, <4>2 DEF UnderWay, Later
      <4> QED
        BY <3>2, <4>3 DEF CauseOf
    <3>3. CASE i \notin DOMAIN t
      <4>1. s[i].id = id /\ s[i].path = new.path /\ s[i].refs = new.refs
        BY <3>3
      <4>2. Len(new.path) = i - 1 /\ i \in Nat
        BY <4>1 DEF Frames, Frame1
      <4>3. Len(S[k].path) = Len(new.path) + 1 /\ SubSeq(S[k].path, 1, Len(new.path)) = new.path
        BY <2>4, <3>1, <4>1, <4>2 DEF UnderWay
      <4>4. IsStrictPrefix(new.path, S[k].path)
        <5>1. Len(new.path) < Len(S[k].path)
          BY <2>4, <4>3
        <5> QED
          BY <2>4, <4>3, <5>1, StrictPrefix
      <4>5. T[k].parent = id
        <5>1. CASE new.path = <<>>
          BY <2>2, <3>1, <5>1 DEF Below, UnderWay
        <5>2. CASE new.path # <<>>
          <6>1. Below(new, S[k])
            BY <3>1, <4>4, <5>2 DEF Below, UnderWay
          <6> QED
            BY <2>2, <4>3, <6>1
        <5> QED
          BY <5>1, <5>2
      <4>6. T[id].refs = new.refs /\ T[id].path = new.path /\ id \in DOMAIN T
        BY DEF Joined, SameEntry
      <4>7. UnderCause(T, k)
        BY <2>2, <3>1, <4>1, <4>3, <4>5, <4>6 DEF UnderCause, UnderWay
      <4> QED
        BY <4>7 DEF CauseOf
    <3> QED
      BY <3>2, <3>3
  <2> QED
    BY <2>3, <2>5, <2>6, <2>7 DEF CauseOf
<1> QED
  BY <1>1, <1>2

(***************************************************************************)
(* The order of staging.                                                   *)
(***************************************************************************)
LEMMA OneMoreListed ==
  ASSUME NEW S, NEW o, Lists(o, S), NEW id \in Nat, id \notin DOMAIN S,
         NEW T, DOMAIN T = DOMAIN S \cup {id}
  PROVE  /\ Lists(Append(o, id), T)
         /\ \A j, k : Before(o, j, k) => Before(Append(o, id), j, k)
         /\ \A j \in DOMAIN S : Before(Append(o, id), j, id)
         /\ \A j, k : Before(Append(o, id), j, k) =>
               Before(o, j, k) \/ (k = id /\ j \in DOMAIN S)
<1> DEFINE q == Append(o, id)
<1>1. /\ o \in Seq(Nat) /\ Len(o) \in Nat /\ DOMAIN o = 1..Len(o) /\ IsInjective(o)
      /\ ToSet(o) = DOMAIN S
  BY DEF Lists
<1>2. /\ q \in Seq(Nat) /\ DOMAIN q = 1..(Len(o) + 1) /\ q[Len(o) + 1] = id
      /\ \A i \in DOMAIN o : i \in DOMAIN q /\ q[i] = o[i]
  BY <1>1
<1> HIDE DEF q
<1>3. \A i \in DOMAIN q : i \in DOMAIN o \/ i = Len(o) + 1
  BY <1>1, <1>2
<1>4. \A i \in DOMAIN o : o[i] \in DOMAIN S /\ o[i] # id
  BY <1>1 DEF ToSet
<1>5. IsInjective(q)
  BY <1>1, <1>2, <1>3, <1>4, Zenon DEF IsInjective
<1>6. ToSet(q) = DOMAIN T
  <2>1. ToSet(q) \subseteq DOMAIN S \cup {id}
    BY <1>2, <1>3, <1>4 DEF ToSet
  <2>2. ToSet(o) \subseteq ToSet(q)
    BY <1>2 DEF ToSet
  <2>3. id \in ToSet(q)
    <3>1. Len(o) + 1 \in DOMAIN q
      BY <1>1, <1>2
    <3> QED
      BY <1>2, <3>1, Zenon DEF ToSet
  <2> QED
    BY <1>1, <2>1, <2>2, <2>3
<1>7. ASSUME NEW j, NEW k, Before(o, j, k) PROVE Before(q, j, k)
  BY <1>2, <1>7 DEF Before
<1>8. ASSUME NEW j \in DOMAIN S PROVE Before(q, j, id)
  <2>1. PICK i \in DOMAIN o : o[i] = j
    BY <1>1 DEF ToSet
  <2>2. i \in DOMAIN q /\ Len(o) + 1 \in DOMAIN q /\ i < Len(o) + 1
    BY <1>1, <1>2
  <2> QED
    BY <1>2, <2>1, <2>2, Zenon DEF Before
<1>9. ASSUME NEW j, NEW k, Before(q, j, k)
      PROVE  Before(o, j, k) \/ (k = id /\ j \in DOMAIN S)
  <2>1. PICK i, n \in DOMAIN q : i < n /\ q[i] = j /\ q[n] = k
    BY <1>9 DEF Before
  <2>2. i \in DOMAIN o
    BY <1>1, <1>2, <2>1
  <2>3. CASE n \in DOMAIN o
    BY <1>2, <2>1, <2>2, <2>3, Zenon DEF Before
  <2>4. CASE n = Len(o) + 1
    BY <1>2, <1>4, <2>1, <2>2, <2>4
  <2> QED
    BY <1>3, <2>3, <2>4
<1> QED
  BY <1>2, <1>5, <1>6, <1>7, <1>8, <1>9 DEF Lists, q

\* An entity staged last refers to earlier ones.
LEMMA RefersBackStaged ==
  ASSUME NEW w, NEW S, NEW o, Lists(o, S), RefersBack(o, S),
         NEW T, NEW id \in Nat, id \notin DOMAIN S, NEW new, Joined(w, S, T, id, new),
         new.refs \subseteq DOMAIN S \cup {Root}
  PROVE  RefersBack(Append(o, id), T)
<1>1. DOMAIN T = DOMAIN S \cup {id}
  BY DEF Joined
<1>2. /\ \A j, k : Before(o, j, k) => Before(Append(o, id), j, k)
      /\ \A j \in DOMAIN S : Before(Append(o, id), j, id)
  BY <1>1, OneMoreListed
<1> SUFFICES ASSUME NEW k \in DOMAIN T, NEW r \in T[k].refs
             PROVE  r = Root \/ Before(Append(o, id), r, k)
  BY DEF RefersBack
<1>3. CASE k = id
  <2>1. T[k].refs = new.refs
    BY <1>3 DEF Joined, SameEntry
  <2> QED
    BY <1>2, <1>3, <2>1
<1>4. CASE k # id
  <2>1. k \in DOMAIN S /\ T[k].refs = S[k].refs
    BY <1>1, <1>4 DEF Joined, SameEntry
  <2> QED
    BY <1>2, <2>1 DEF RefersBack
<1> QED
  BY <1>3, <1>4

(***************************************************************************)
(* What the main store is being asked for.                                 *)
(***************************************************************************)
AtTop(s, a) == s # <<>> /\ a.by = s[Len(s)].id /\ a.path = Append(s[Len(s)].path, "name")
\* Nobody else whose mapping goes on has staged the name meanwhile.
Alone(S, n, s, a, k) ==
  \/ S[k].src # a.name
  \/ S[k].by = a.by
  \/ Dead(DOMAIN S, n, s, a.by)
  \/ Dead(DOMAIN S, n, s, S[k].by)
AskOK(S, n, s, a) ==
  /\ a.path # <<>> /\ a.path[Len(a.path)] = "name" /\ Len(a.path) <= MaxLen
  /\ a.by \in 0..n
  /\ Dead(DOMAIN S, n, s, a.by) \/ AtTop(s, a)
  /\ \A k \in DOMAIN S : Alone(S, n, s, a, k)

\* A question stays well asked.
LEMMA AskStays ==
  ASSUME NEW S, NEW n, NEW s, NEW a, AskOK(S, n, s, a),
         NEW T, NEW m, NEW t, NoneRevived(DOMAIN S, n, s, DOMAIN T, m, t),
         \A k \in DOMAIN T : \/ k \in DOMAIN S /\ T[k].src = S[k].src /\ T[k].by = S[k].by
                             \/ Alone(T, m, t, a, k),
         AtTop(s, a) => AtTop(t, a) \/ Dead(DOMAIN T, m, t, a.by)
  PROVE  AskOK(T, m, t, a)
<1>1. Dead(DOMAIN S, n, s, a.by) => Dead(DOMAIN T, m, t, a.by)
  BY DeadStayDead
<1>2. ASSUME NEW k \in DOMAIN T PROVE Alone(T, m, t, a, k)
  <2>1. CASE k \in DOMAIN S /\ T[k].src = S[k].src /\ T[k].by = S[k].by
    <3>1. Alone(S, n, s, a, k)
      BY <2>1 DEF AskOK
    <3>2. Dead(DOMAIN S, n, s, S[k].by) => Dead(DOMAIN T, m, t, S[k].by)
      BY DeadStayDead
    <3> QED
      BY <1>1, <2>1, <3>1, <3>2 DEF Alone
  <2> QED
    BY <2>1
<1>3. a.by \in 0..m
  BY DEF AskOK, NoneRevived
<1>4. Dead(DOMAIN T, m, t, a.by) \/ AtTop(t, a)
  BY <1>1 DEF AskOK
<1> QED
  BY <1>2, <1>3, <1>4 DEF AskOK

(***************************************************************************)
(* One entity for each record.                                             *)
(***************************************************************************)
Excused(w, S, n, s, i, j) ==
  \/ S[i].src \in S[j].chain
  \/ /\ S[i].src \notin RecordsOf(w)
     /\ \/ S[i].by = S[j].by
        \/ Dead(DOMAIN S, n, s, S[i].by)
        \/ Dead(DOMAIN S, n, s, S[j].by)
OneEach(w, S, n, s, o, sw) ==
  /\ \A i \in DOMAIN s : \A j \in DOMAIN S : S[j].src = s[i].rec => s[i].rec \in S[j].chain
  /\ \A i, j \in DOMAIN S : S[i].src = S[j].src /\ Before(o, j, i) => Excused(w, S, n, s, i, j)
  /\ \A i \in DOMAIN S \ {Root} : S[i].src \in w.known => sw
  /\ \A i \in DOMAIN s : i > 1 /\ s[i].rec \in w.known => sw

\* Mappings that go on or end stage nothing twice.
LEMMA OneEachGoesOn ==
  ASSUME NEW w, NEW S, NEW n, NEW s, Frames(w, DOMAIN S, n, s), NEW m \in Nat, n <= m,
         NEW t \in Seq(FrameType(w)), GoesOn(s, t), NEW o, NEW sw,
         OneEach(w, S, n, s, o, sw), NEW sx, sw => sx
  PROVE  OneEach(w, S, m, t, o, sx)
<1>1. NoneRevived(DOMAIN S, n, s, DOMAIN S, m, t)
  BY NoneRevivedByGoingOn
<1>2. \A b : Dead(DOMAIN S, n, s, b) => Dead(DOMAIN S, m, t, b)
  BY <1>1, DeadStayDead
<1>3. \A i \in DOMAIN t : i \in DOMAIN s /\ t[i].rec = s[i].rec
  BY DEF GoesOn, Later, Frames
<1>4. \A i, j \in DOMAIN S : S[i].src = S[j].src /\ Before(o, j, i) => Excused(w, S, m, t, i, j)
  BY <1>2, Zenon DEF OneEach, Excused
<1> QED
  BY <1>3, <1>4 DEF OneEach

\* A mapping begins for a record that is not staged.
LEMMA OneEachNests ==
  ASSUME NEW w, NEW S, NEW n \in Nat, NEW s \in Seq(FrameType(w)), NEW o, NEW sw,
         OneEach(w, S, n, s, o, sw), NEW sx, sw => sx,
         NEW f \in FrameType(w), f.id = n + 1,
         \A j \in DOMAIN S : S[j].src # f.rec,
         f.rec \in w.known => sx
  PROVE  OneEach(w, S, n + 1, Append(s, f), o, sx)
<1> DEFINE t == Append(s, f)
<1>1. /\ DOMAIN t = 1..(Len(s) + 1) /\ t[Len(s) + 1] = f /\ Len(s) \in Nat
      /\ DOMAIN s = 1..Len(s) /\ \A i \in DOMAIN s : t[i] = s[i]
  BY OnTop
<1>2. NoneRevived(DOMAIN S, n, s, DOMAIN S, n + 1, t)
  BY NoneRevivedByNesting
<1> HIDE DEF t
<1>3. \A b : Dead(DOMAIN S, n, s, b) => Dead(DOMAIN S, n + 1, t, b)
  BY <1>2, DeadStayDead
<1>4. \A i \in DOMAIN t : t[i] = f \/ (i \in DOMAIN s /\ t[i] = s[i])
  <2>1. \A i \in DOMAIN t : i = Len(s) + 1 \/ i \in DOMAIN s
    BY <1>1
  <2> QED
    BY <1>1, <2>1
<1>5. \A i, j \in DOMAIN S :
        S[i].src = S[j].src /\ Before(o, j, i) => Excused(w, S, n + 1, t, i, j)
  BY <1>3, Zenon DEF OneEach, Excused
<1> QED
  BY <1>4, <1>5 DEF OneEach, t

\* The entity staged is the first for its record, or excused.
LEMMA OneEachStaged ==
  ASSUME NEW w, NEW S, NEW n, NEW s, NEW o, Lists(o, S), NEW sw,
         OneEach(w, S, n, s, o, sw),
         NEW T, NEW id \in Nat, id \notin DOMAIN S, NEW new, Joined(w, S, T, id, new),
         NEW m, NEW t, NoneRevived(DOMAIN S, n, s, DOMAIN T, m, t),
         \A i \in DOMAIN t : i \in DOMAIN s /\ t[i].rec = s[i].rec,
         \A i \in DOMAIN t : new.src = t[i].rec => t[i].rec \in new.chain,
         \A j \in DOMAIN S : S[j].src = new.src => Excused(w, T, m, t, id, j),
         id # Root /\ new.src \in w.known => sw
  PROVE  OneEach(w, T, m, t, Append(o, id), sw)
<1>1. DOMAIN T = DOMAIN S \cup {id} /\ SameEntry(T[id], new)
      /\ \A k \in DOMAIN S : SameEntry(T[k], S[k])
  BY Zenon DEF Joined
<1>2. \A j, k : Before(Append(o, id), j, k) =>
         Before(o, j, k) \/ (k = id /\ j \in DOMAIN S)
  BY <1>1, OneMoreListed
<1>3. \A b : Dead(DOMAIN S, n, s, b) => Dead(DOMAIN T, m, t, b)
  BY DeadStayDead
<1>4. ASSUME NEW i \in DOMAIN t, NEW j \in DOMAIN T, T[j].src = t[i].rec
      PROVE  t[i].rec \in T[j].chain
  <2>1. CASE j = id
    BY <1>1, <1>4, <2>1 DEF SameEntry
  <2>2. CASE j # id
    BY <1>1, <1>4, <2>2 DEF SameEntry, OneEach
  <2> QED
    BY <2>1, <2>2
<1>5. ASSUME NEW i \in DOMAIN T, NEW j \in DOMAIN T,
             T[i].src = T[j].src, Before(Append(o, id), j, i)
      PROVE  Excused(w, T, m, t, i, j)
  <2>1. CASE i = id /\ j \in DOMAIN S
    BY <1>1, <1>5, <2>1 DEF SameEntry
  <2>2. CASE Before(o, j, i)
    <3>1. i \in DOMAIN S /\ j \in DOMAIN S
      BY <2>2 DEF Before, Lists, ToSet
    <3>2. /\ T[i].src = S[i].src /\ T[j].src = S[j].src /\ T[j].chain = S[j].chain
          /\ T[i].by = S[i].by /\ T[j].by = S[j].by
      BY <1>1, <3>1 DEF SameEntry
    <3>3. Excused(w, S, n, s, i, j)
      BY <1>5, <2>2, <3>1, <3>2 DEF OneEach
    <3> QED
      BY <1>3, <3>2, <3>3 DEF Excused
  <2> QED
    BY <1>2, <1>5, <2>1, <2>2
<1>6. ASSUME NEW i \in DOMAIN T \ {Root}, T[i].src \in w.known PROVE sw
  <2>1. CASE i = id
    BY <1>1, <1>6, <2>1 DEF SameEntry
  <2>2. CASE i # id
    <3>1. i \in DOMAIN S \ {Root} /\ T[i].src = S[i].src
      BY <1>1, <2>2 DEF SameEntry
    <3> QED
      BY <1>6, <3>1 DEF OneEach
  <2> QED
    BY <2>1, <2>2
<1>7. \A i \in DOMAIN t : i > 1 /\ t[i].rec \in w.known => sw
  BY DEF OneEach
<1> QED
  BY <1>4, <1>5, <1>6, <1>7, Zenon DEF OneEach

(***************************************************************************)
(* The mapping as a whole: what the steps of a mapping, each in its way,   *)
(* preserve.                                                               *)
(***************************************************************************)
MapOK(w, S, o, n, s, A, sw) ==
  /\ Frames(w, DOMAIN S, n, s)
  /\ S \in [DOMAIN S -> EntryType(w)] /\ DOMAIN S \subseteq 0..n
  /\ TreeShape(S) /\ Caused(S, n, s)
  /\ Lists(o, S) /\ RefersBack(o, S)
  /\ OneEach(w, S, n, s, o, sw)
  /\ A \subseteq AskType(w) /\ \A a \in A : AskOK(S, n, s, a)

\* Some mappings go on, others end, some questions are answered: nothing is staged.
LEMMA MapGoesOn ==
  ASSUME NEW w, NEW S, NEW o, NEW n, NEW s, NEW A, NEW sw, MapOK(w, S, o, n, s, A, sw),
         NEW t \in Seq(FrameType(w)), GoesOn(s, t),
         \A i \in DOMAIN t : t[i].refs \subseteq DOMAIN S \cup {Root},
         NEW B, B \subseteq A, NEW sx, sw => sx
  PROVE  MapOK(w, S, o, n, t, B, sx)
<1> DEFINE D == DOMAIN S
<1>1. Frames(w, D, n, s) /\ n \in Nat /\ n <= n
  BY DEF MapOK, Frames
<1>2. \A i \in DOMAIN t : t[i].id \notin D
  <2> SUFFICES ASSUME NEW i \in DOMAIN t PROVE t[i].id \notin D
    OBVIOUS
  <2>1. i \in DOMAIN s /\ t[i].id = s[i].id
    BY <1>1 DEF GoesOn, Later, Frames
  <2> QED
    BY <1>1, <2>1 DEF Frames, Frame1
<1>3. Frames(w, D, n, t)
  BY <1>1, <1>2, FramesGoOn
<1>4. Caused(S, n, t)
  BY <1>1, CausedGoesOn DEF MapOK
<1>5. OneEach(w, S, n, t, o, sx)
  BY <1>1, OneEachGoesOn DEF MapOK
<1>6. ASSUME NEW a \in B PROVE AskOK(S, n, t, a)
  <2>1. AskOK(S, n, s, a)
    BY DEF MapOK
  <2>2. NoneRevived(D, n, s, D, n, t)
    BY <1>1, NoneRevivedByGoingOn
  <2>3. ASSUME AtTop(s, a) PROVE AtTop(t, a) \/ Dead(D, n, t, a.by)
    <3>1. Len(s) \in Nat /\ DOMAIN s = 1..Len(s) /\ Len(t) \in Nat /\ DOMAIN t = 1..Len(t)
          /\ Len(t) <= Len(s) /\ Len(s) # 0
      BY <1>1, <2>3 DEF Frames, GoesOn, AtTop
    <3>2. CASE Len(t) = Len(s)
      <4>1. t # <<>> /\ Later(s[Len(s)], t[Len(t)])
        BY <3>1, <3>2 DEF GoesOn
      <4> QED
        BY <2>3, <3>2, <4>1 DEF AtTop, Later
    <3>3. CASE Len(t) # Len(s)
      <4>1. Len(s) \in DOMAIN s /\ Len(s) \notin DOMAIN t
        <5>1. \A i, j \in Nat : j <= i /\ i # 0 /\ j # i => i \in 1..i /\ i \notin 1..j
          OBVIOUS
        <5> QED
          BY <3>1, <3>3, <5>1, Zenon
      <4>2. Dead(D, n, t, s[Len(s)].id)
        BY <1>1, <4>1, EndedIsDead
      <4> QED
        BY <2>3, <4>2 DEF AtTop
    <3> QED
      BY <3>2, <3>3
  <2> QED
    BY <2>1, <2>2, <2>3, AskStays
<1> QED
  BY <1>3, <1>4, <1>5, <1>6 DEF MapOK

\* A mapping begins, when nothing is being asked for the one above it.
LEMMA MapNests ==
  ASSUME NEW w, NEW S, NEW o, NEW n, NEW s, NEW A, NEW sw, MapOK(w, S, o, n, s, A, sw),
         s # <<>>, \A a \in A : a.by # s[Len(s)].id,
         NEW f \in FrameType(w), f.id = n + 1, f.refs = {}, f.todo \subseteq w.links[f.rec],
         f.todo # {} => Depth(f.path) <= MaxDepth,
         NEW e \in TargetsOf(w), f.path = Append(s[Len(s)].path, e),
         Depth(s[Len(s)].path) <= MaxDepth,
         s[Len(s)].chain \cup {s[Len(s)].rec} \subseteq f.chain,
         NEW sx, sw => sx,
         \A j \in DOMAIN S : S[j].src # f.rec,
         f.rec \in w.known => sx
  PROVE  MapOK(w, S, o, n + 1, Append(s, f), A, sx)
<1> DEFINE D == DOMAIN S
           t == Append(s, f)
<1>1. Frames(w, D, n, s) /\ n \in Nat /\ s \in Seq(FrameType(w)) /\ D \subseteq 0..n
  BY DEF MapOK, Frames
<1>2. Frames(w, D, n + 1, t)
  BY <1>1, FramesNest
<1>3. Caused(S, n + 1, t)
  BY <1>1, CausedNests DEF MapOK
<1>4. OneEach(w, S, n + 1, t, o, sx)
  BY <1>1, OneEachNests DEF MapOK
<1>5. NoneRevived(D, n, s, D, n + 1, t)
  BY <1>1, NoneRevivedByNesting
<1>6. ASSUME NEW a \in A PROVE AskOK(S, n + 1, t, a)
  <2>1. AskOK(S, n, s, a) /\ ~AtTop(s, a)
    BY DEF MapOK, AtTop
  <2> HIDE DEF t
  <2> QED
    BY <1>5, <2>1, AskStays
<1>7. D \subseteq 0..(n + 1)
  BY <1>1
<1> HIDE DEF t
<1> QED
  BY <1>2, <1>3, <1>4, <1>6, <1>7 DEF MapOK, t

\* The main store is asked for names that nobody has staged.
LEMMA MapAsks ==
  ASSUME NEW w, NEW S, NEW o, NEW n, NEW s, NEW A, NEW sw, MapOK(w, S, o, n, s, A, sw),
         s # <<>>, NEW B \in SUBSET AskType(w),
         \A b \in B : /\ b.by = s[Len(s)].id /\ b.path = Append(s[Len(s)].path, "name")
                      /\ \A k \in DOMAIN S : S[k].src # b.name
  PROVE  MapOK(w, S, o, n, s, A \cup B, sw)
<1> DEFINE N == Len(s)
<1>1. N \in DOMAIN s /\ Frames(w, DOMAIN S, n, s) /\ N \in Nat /\ N <= MaxLen
  BY DEF MapOK, Frames
<1>2. Frame1(w, DOMAIN S, n, s, N) /\ s[N] \in FrameType(w)
  BY <1>1 DEF Frames
<1>3. s[N].path \in Seq(StepsOf(w)) /\ "name" \in StepsOf(w)
  <2>1. TargetsOf(w) \subseteq StepsOf(w)
    BY DEF TargetsOf, StepsOf
  <2>2. s[N].path \in Seq(TargetsOf(w))
    BY <1>2 DEF FrameType
  <2> HIDE DEF N
  <2> QED
    BY <2>1, <2>2, SeqMonotonic DEF StepsOf
<1> HIDE DEF N
<1>4. ASSUME NEW b \in B PROVE AskOK(S, n, s, b)
  <2>1. b.path = Append(s[N].path, "name") /\ b.by = s[N].id /\ AtTop(s, b)
    BY DEF N, AtTop
  <2>2. Len(s[N].path) = N - 1 /\ s[N].id \in 0..n
    BY <1>2 DEF Frame1
  <2>3. b.path # <<>> /\ Len(b.path) = Len(s[N].path) + 1 /\ b.path[Len(s[N].path) + 1] = "name"
    BY <1>3, <2>1, NextStep
  <2>4. Len(b.path) <= MaxLen /\ b.path[Len(b.path)] = "name"
    BY <1>1, <2>2, <2>3
  <2>5. \A k \in DOMAIN S : Alone(S, n, s, b, k)
    BY DEF Alone
  <2> QED
    BY <2>1, <2>2, <2>3, <2>4, <2>5 DEF AskOK
<1> QED
  BY <1>4 DEF MapOK

\* The mapping on top is done: its entity is staged, and the one above has found it.
LEMMA MapDone ==
  ASSUME NEW w, WorldOK(w),
         NEW S, NEW o, NEW n, NEW s, NEW A, NEW sw, MapOK(w, S, o, n, s, A, sw),
         s # <<>>, \A a \in A : a.by # s[Len(s)].id,
         NEW f, f = s[Len(s)],
         NEW new \in EntryType(w), new.src = f.rec, new.path = f.path, new.refs = f.refs,
         new.chain = f.chain, new.parent = IF f.path = <<>> THEN NoParent ELSE Root,
         Len(s) > 1 => new.by = s[Len(s) - 1].id,
         NEW T, Joined(w, S, T, f.id, new), TreeShape(T),
         NEW t \in Seq(FrameType(w)), GoesOn(s, t), Len(t) = Len(s) - 1,
         \A i \in DOMAIN t : t[i].refs \subseteq DOMAIN S \cup {Root, f.id},
         Len(s) > 1 => f.id \in t[Len(s) - 1].refs
  PROVE  MapOK(w, T, Append(o, f.id), n, t, A, sw)
<1> DEFINE D == DOMAIN S
           E == DOMAIN T
<1>0. PICK N : N = Len(s)
  OBVIOUS
<1>1. /\ Frames(w, D, n, s) /\ n \in Nat /\ N \in Nat \ {0} /\ DOMAIN s = 1..N
      /\ DOMAIN t = 1..(N - 1) /\ f = s[N] /\ D \subseteq 0..n /\ Len(s) = N
  BY <1>0 DEF MapOK, Frames
<1>2. Frame1(w, D, n, s, N) /\ f \in FrameType(w)
  BY <1>1 DEF Frames
<1>3. f.id \in 0..n /\ f.id \notin D /\ E = D \cup {f.id} /\ E \subseteq 0..n
  BY <1>1, <1>2 DEF Frame1, Joined
<1>4. ASSUME NEW i \in DOMAIN t
      PROVE  /\ i \in DOMAIN s /\ Later(s[i], t[i]) /\ Frame1(w, D, n, s, i)
             /\ t[i].id \notin E /\ s[i].rec \in f.chain
  <2>1. i \in DOMAIN s /\ Later(s[i], t[i]) /\ i \in 1..(N - 1)
    BY <1>1 DEF GoesOn
  <2>2. Frame1(w, D, n, s, i)
    BY <1>1, <2>1 DEF Frames
  <2>3. s[i].rec \in f.chain /\ s[i].id < f.id
    BY <1>1, <1>2, <2>1 DEF Frame1
  <2>4. s[i].id \notin D /\ s[i].id \in 0..n
    BY <2>2 DEF Frame1
  <2>5. t[i].id \notin E
    BY <1>1, <1>3, <2>1, <2>3, <2>4 DEF Later
  <2> QED
    BY <2>1, <2>2, <2>3, <2>5
<1> HIDE DEF D, E
<1>5. Frames(w, E, n, t)
  <2>1. \A i \in DOMAIN t : t[i].id \notin E /\ t[i].refs \subseteq E \cup {Root}
    BY <1>3, <1>4 DEF D
  <2>2. n <= n
    BY <1>1
  <2> QED
    BY <1>1, <2>1, <2>2, FramesGoOn
<1>6. NoneRevived(D, n, s, E, n, t)
  <2>1. \A e \in E : e \in D \/ e = n + 1 \/ \E j \in DOMAIN s : e = s[j].id
    BY <1>1, <1>3
  <2>2. \A i \in DOMAIN t : \E j \in DOMAIN s : t[i].id = s[j].id
    BY <1>4 DEF Later
  <2> QED
    BY <1>1, <2>1, <2>2 DEF NoneRevived
<1>7. f.id = Root <=> new.path = <<>>
  <2>1. f.path \in Seq(TargetsOf(w)) /\ Len(f.path) = N - 1
    BY <1>1, <1>2 DEF FrameType, Frame1
  <2>2. f.path = <<>> <=> N = 1
    BY <1>1, <2>1
  <2> QED
    BY <1>1, <1>2, <2>2 DEF Frame1
<1>8. /\ T[f.id].src = f.rec /\ T[f.id].path = f.path /\ T[f.id].refs = f.refs
      /\ T[f.id].chain = f.chain /\ T[f.id].by = new.by /\ T[f.id].parent = new.parent
  BY DEF Joined, SameEntry
<1>9. f.id # Root => N > 1 /\ N - 1 \in DOMAIN t
  BY <1>1, <1>2 DEF Frame1
<1>10. f.id # Root => CauseOf(T, n, t, f.id)
  <2> SUFFICES ASSUME f.id # Root PROVE CauseOf(T, n, t, f.id)
    OBVIOUS
  <2> DEFINE i == N - 1
  <2>1. i \in DOMAIN t /\ N > 1
    BY <1>9
  <2>2. T[f.id].by = t[i].id /\ T[f.id].parent = Root /\ f.id \in t[i].refs
    BY <1>1, <1>4, <1>7, <1>8, <2>1 DEF Later
  <2>3. Len(f.path) = i /\ SubSeq(f.path, 1, i - 1) = s[i].path
    <3>1. i - 1 = N - 2
      BY <1>1
    <3> QED
      BY <1>1, <1>2, <2>1, <3>1 DEF Frame1
  <2>4. t[i].path = s[i].path
    BY <1>4, <2>1 DEF Later
  <2>5. UnderWay(T, t, f.id, i)
    BY <1>8, <2>2, <2>3, <2>4 DEF UnderWay
  <2> QED
    BY <2>1, <2>5 DEF CauseOf
<1>11. Caused(T, n, t)
  <2>1. ASSUME NEW k \in DOMAIN S, NEW i \in DOMAIN t, UnderWay(S, s, k, i)
        PROVE  ~Below(new, S[k])
    <3>1. Len(S[k].path) = i /\ i < N
      BY <1>1, <2>1 DEF UnderWay
    <3>2. Len(new.path) = N - 1 /\ new.path \in Seq(StepsOf(w)) /\ S[k].path \in Seq(StepsOf(w))
      <4>1. S[k] \in EntryType(w)
        BY DEF MapOK
      <4> QED
        BY <1>1, <1>2, <4>1 DEF Frame1, EntryType
    <3>3. ~(Len(new.path) < Len(S[k].path))
      BY <1>1, <3>1, <3>2
    <3> QED
      BY <3>2, <3>3, StrictPrefix DEF Below
  <2>2. ASSUME NEW i \in DOMAIN s, i \notin DOMAIN t
        PROVE  s[i].id = f.id /\ s[i].path = new.path /\ s[i].refs = new.refs
    <3>1. i = N
      BY <1>1, <2>2
    <3> QED
      BY <1>1, <3>1
  <2>3. /\ S \in [DOMAIN S -> EntryType(w)] /\ TreeShape(S) /\ Caused(S, n, s)
        /\ Frames(w, DOMAIN S, n, s)
    BY DEF MapOK
  <2>4. NoneRevived(DOMAIN S, n, s, DOMAIN T, n, t) /\ f.id \notin DOMAIN S
    BY <1>3, <1>6 DEF D, E
  <2> QED
    BY <1>7, <1>10, <2>1, <2>2, <2>3, <2>4, CausedStaged
<1>12. OneEach(w, T, n, t, Append(o, f.id), sw)
  <2>1. \A i \in DOMAIN t : i \in DOMAIN s /\ t[i].rec = s[i].rec
    BY <1>4 DEF Later
  <2>2. \A i \in DOMAIN t : new.src = t[i].rec => t[i].rec \in new.chain
    BY <1>4 DEF Later
  <2>3. ASSUME NEW j \in DOMAIN S, S[j].src = new.src PROVE Excused(w, T, n, t, f.id, j)
    <3>1. N \in DOMAIN s /\ OneEach(w, S, n, s, o, sw)
      BY <1>1 DEF MapOK
    <3>2. f.rec \in S[j].chain
      BY <1>1, <2>3, <3>1 DEF OneEach
    <3>3. T[j].chain = S[j].chain
      BY DEF Joined, SameEntry
    <3> QED
      BY <1>8, <3>2, <3>3 DEF Excused
  <2>4. f.id # Root /\ new.src \in w.known => sw
    <3>1. N \in DOMAIN s /\ OneEach(w, S, n, s, o, sw)
      BY <1>1 DEF MapOK
    <3> QED
      BY <1>1, <1>9, <3>1 DEF OneEach
  <2>5. f.id \in Nat /\ Lists(o, S)
    BY <1>1, <1>3 DEF MapOK
  <2> QED
    BY <1>3, <1>6, <2>1, <2>2, <2>3, <2>4, <2>5, OneEachStaged DEF MapOK, D, E
<1>13. ASSUME NEW a \in A PROVE AskOK(T, n, t, a)
  <2>1. AskOK(S, n, s, a) /\ ~AtTop(s, a)
    BY DEF MapOK, AtTop
  <2>2. Dead(D, n, s, a.by)
    BY <2>1 DEF AskOK, D
  <2>3. Dead(E, n, t, a.by)
    BY <1>6, <2>2, DeadStayDead
  <2>4. ASSUME NEW k \in DOMAIN T
        PROVE  \/ k \in DOMAIN S /\ T[k].src = S[k].src /\ T[k].by = S[k].by
               \/ Alone(T, n, t, a, k)
    BY <2>3 DEF Alone, E
  <2> QED
    BY <1>6, <2>1, <2>4, AskStays DEF D, E
<1>14. Lists(Append(o, f.id), T) /\ RefersBack(Append(o, f.id), T)
  <2>1. f.id \in Nat /\ Lists(o, S) /\ RefersBack(o, S) /\ DOMAIN T = DOMAIN S \cup {f.id}
    BY <1>1, <1>3 DEF MapOK, D, E
  <2>2. new.refs \subseteq DOMAIN S \cup {Root}
    BY <1>1, <1>2 DEF Frame1, D
  <2>3. f.id \notin DOMAIN S
    BY <1>3 DEF D
  <2> QED
    BY <2>1, <2>2, <2>3, OneMoreListed, RefersBackStaged
<1>15. T \in [DOMAIN T -> EntryType(w)]
  BY DEF Joined
<1> QED
  BY <1>3, <1>5, <1>11, <1>12, <1>13, <1>14, <1>15 DEF MapOK, E

\* Nothing is staged yet at a path that goes on from the name asked for.
LEMMA NamesEndPaths ==
  ASSUME NEW w, WorldOK(w), NEW S, S \in [DOMAIN S -> EntryType(w)],
         NEW n, NEW s, Frames(w, DOMAIN S, n, s),
         NEW p \in Seq(StepsOf(w)), p # <<>>, p[Len(p)] = "name",
         NEW k \in DOMAIN S, NEW i \in DOMAIN s, UnderWay(S, s, k, i)
  PROVE  ~IsStrictPrefix(p, S[k].path)
<1> SUFFICES ASSUME IsStrictPrefix(p, S[k].path) PROVE FALSE
  OBVIOUS
<1>0. PICK q : q = S[k].path
  OBVIOUS
<1>1. q \in Seq(StepsOf(w)) /\ Len(q) = i /\ i \in Nat \ {0} /\ SubSeq(q, 1, i - 1) = s[i].path
  <2>1. S[k] \in EntryType(w)
    OBVIOUS
  <2>2. i \in Nat \ {0}
    BY DEF Frames
  <2> QED
    BY <1>0, <2>1, <2>2 DEF UnderWay, EntryType
<1>2. Len(p) < Len(q) /\ SubSeq(q, 1, Len(p)) = p
  BY <1>0, <1>1, StrictPrefix
<1>3. Len(p) \in 1..(i - 1)
  <2>1. Len(p) \in Nat /\ Len(p) # 0
    OBVIOUS
  <2> QED
    BY <1>1, <1>2, <2>1
<1>4. q[Len(p)] = "name"
  <2>1. \A j \in 1..Len(p) : j \in 1..Len(q) /\ SubSeq(q, 1, Len(p))[j] = q[j]
    BY <1>1, <1>3
  <2>2. Len(p) \in 1..Len(p)
    BY <1>3
  <2> QED
    BY <1>2, <2>1, <2>2
<1>5. s[i].path[Len(p)] = q[Len(p)]
  <2>1. \A j \in 1..(i - 1) : SubSeq(q, 1, i - 1)[j] = q[j]
    BY <1>1
  <2> QED
    BY <1>1, <1>3, <2>1
<1>6. s[i].path[Len(p)] \in TargetsOf(w)
  <2>1. s[i] \in FrameType(w) /\ Frame1(w, DOMAIN S, n, s, i)
    BY DEF Frames
  <2>2. s[i].path \in Seq(TargetsOf(w)) /\ Len(s[i].path) = i - 1
    BY <2>1 DEF FrameType, Frame1
  <2> QED
    BY <1>3, <2>2, ElementOfSeq
<1> QED
  BY <1>4, <1>5, <1>6 DEF WorldOK

\* The main store does not know the name a was for: an entity is staged for it.
LEMMA MapNamed ==
  ASSUME NEW w, WorldOK(w),
         NEW S, NEW o, NEW n, NEW s, NEW A, NEW sw, MapOK(w, S, o, n, s, A, sw),
         NEW a \in A, a.name \notin w.known,
         NEW new \in EntryType(w), new.src = a.name, new.path = a.path, new.refs = {},
         new.by = a.by, new.parent = IF a.path = <<>> THEN NoParent ELSE Root,
         NEW T, Joined(w, S, T, n + 1, new), TreeShape(T),
         NEW t \in Seq(FrameType(w)), GoesOn(s, t), Len(t) = Len(s),
         \A i \in DOMAIN t : t[i].refs \subseteq DOMAIN S \cup {Root, n + 1},
         \A i \in DOMAIN t : t[i].id = a.by => n + 1 \in t[i].refs
  PROVE  MapOK(w, T, Append(o, n + 1), n + 1, t, A \ {a}, sw)
<1> DEFINE D == DOMAIN S
           E == DOMAIN T
           m == n + 1
<1>1. /\ Frames(w, D, n, s) /\ n \in Nat /\ m \in Nat /\ n <= m /\ D \subseteq 0..n
      /\ Len(s) \in Nat /\ DOMAIN s = 1..Len(s) /\ DOMAIN t = 1..Len(s)
  BY DEF MapOK, Frames
<1>2. m \notin D /\ E = D \cup {m} /\ E \subseteq 0..m /\ m # Root
  BY <1>1 DEF Joined, Root
<1>3. ASSUME NEW i \in DOMAIN t
      PROVE  i \in DOMAIN s /\ Later(s[i], t[i]) /\ t[i].id \notin E
  <2>1. i \in DOMAIN s /\ Later(s[i], t[i])
    BY <1>1 DEF GoesOn
  <2>2. Frame1(w, D, n, s, i)
    BY <1>1, <2>1 DEF Frames
  <2>3. s[i].id \notin D /\ s[i].id \in 0..n
    BY <2>2 DEF Frame1
  <2>4. t[i].id \notin E
    BY <1>1, <1>2, <2>1, <2>3 DEF Later
  <2> QED
    BY <2>1, <2>4
<1>4. AskOK(S, n, s, a) /\ a \in AskType(w)
  BY DEF MapOK
<1>5. a.path \in Seq(StepsOf(w)) /\ a.path # <<>> /\ a.path[Len(a.path)] = "name"
      /\ a.name \in NamesOf(w)
  BY <1>4 DEF AskOK, AskType
<1> HIDE DEF D, E
<1>6. Frames(w, E, m, t)
  <2>1. \A i \in DOMAIN t : t[i].id \notin E /\ t[i].refs \subseteq E \cup {Root}
    BY <1>2, <1>3 DEF D
  <2> QED
    BY <1>1, <2>1, FramesGoOn
<1>7. NoneRevived(D, n, s, E, m, t)
  <2>1. \A e \in E : e \in D \/ e = n + 1 \/ \E j \in DOMAIN s : e = s[j].id
    BY <1>2
  <2>2. \A i \in DOMAIN t : \E j \in DOMAIN s : t[i].id = s[j].id
    BY <1>3 DEF Later
  <2> QED
    BY <1>1, <2>1, <2>2 DEF NoneRevived
<1>8. /\ T[m].src = a.name /\ T[m].path = a.path /\ T[m].by = a.by
      /\ T[m].parent = Root
  BY <1>5 DEF Joined, SameEntry
<1>9. CauseOf(T, m, t, m)
  <2>1. CASE Dead(D, n, s, a.by)
    <3>1. Dead(E, m, t, a.by)
      BY <1>7, <2>1, DeadStayDead
    <3> QED
      BY <1>8, <3>1 DEF CauseOf, E
  <2>2. CASE AtTop(s, a)
    <3>0. PICK i : i = Len(s)
      OBVIOUS
    <3>1. i \in DOMAIN s /\ i \in DOMAIN t /\ a.by = s[i].id /\ a.path = Append(s[i].path, "name")
      BY <1>1, <2>2, <3>0 DEF AtTop
    <3>2. s[i].path \in Seq(TargetsOf(w)) /\ Len(s[i].path) = i - 1
      <4>1. s[i] \in FrameType(w) /\ Frame1(w, D, n, s, i)
        BY <1>1, <3>1 DEF Frames
      <4> QED
        BY <4>1 DEF FrameType, Frame1
    <3>3. s[i].path \in Seq(StepsOf(w)) /\ "name" \in StepsOf(w)
      <4>1. TargetsOf(w) \subseteq StepsOf(w)
        BY DEF TargetsOf, StepsOf
      <4> QED
        BY <3>2, <4>1, SeqMonotonic DEF StepsOf
    <3>4. Len(a.path) = i /\ SubSeq(a.path, 1, i - 1) = s[i].path
      <4>1. Len(a.path) = Len(s[i].path) + 1 /\ SubSeq(a.path, 1, Len(s[i].path)) = s[i].path
        BY <3>1, <3>3, NextStep
      <4> QED
        BY <1>1, <3>1, <3>2, <4>1
    <3>5. t[i].id = a.by /\ t[i].path = s[i].path
      BY <1>3, <3>1 DEF Later
    <3>6. m \in t[i].refs
      BY <3>1, <3>5
    <3>7. UnderWay(T, t, m, i)
      BY <1>8, <3>4, <3>5, <3>6 DEF UnderWay
    <3> QED
      BY <3>1, <3>7 DEF CauseOf
  <2> QED
    BY <1>4, <2>1, <2>2 DEF AskOK, D
<1> HIDE DEF m
<1>10. Caused(T, m, t)
  <2>1. ASSUME NEW k \in DOMAIN S, NEW i \in DOMAIN t, UnderWay(S, s, k, i)
        PROVE  ~Below(new, S[k])
    <3>1. i \in DOMAIN s /\ S \in [DOMAIN S -> EntryType(w)]
      BY <1>3 DEF MapOK
    <3>2. ~IsStrictPrefix(a.path, S[k].path)
      BY <1>1, <1>5, <2>1, <3>1, NamesEndPaths DEF D
    <3> QED
      BY <3>2 DEF Below
  <2>2. \A i \in DOMAIN s : i \in DOMAIN t
    BY <1>1
  <2>3. /\ S \in [DOMAIN S -> EntryType(w)] /\ TreeShape(S) /\ Caused(S, n, s)
        /\ Frames(w, DOMAIN S, n, s)
    BY DEF MapOK
  <2>4. /\ NoneRevived(DOMAIN S, n, s, DOMAIN T, m, t) /\ m \notin DOMAIN S
        /\ m = Root <=> new.path = <<>>
    BY <1>2, <1>5, <1>7 DEF D, E
  <2>5. Joined(w, S, T, m, new)
    BY DEF m
  <2> QED
    BY <1>9, <2>1, <2>2, <2>3, <2>4, <2>5, CausedStaged
<1>11. \A b : Dead(D, n, s, b) => Dead(E, m, t, b)
  BY <1>7, DeadStayDead
<1>12. OneEach(w, T, m, t, Append(o, m), sw)
  <2>1. \A i \in DOMAIN t : i \in DOMAIN s /\ t[i].rec = s[i].rec
    BY <1>3 DEF Later
  <2>2. ASSUME NEW i \in DOMAIN t PROVE new.src # t[i].rec
    <3>1. t[i] \in FrameType(w)
      BY <1>1
    <3> QED
      BY <1>5, <3>1 DEF FrameType, WorldOK
  <2>3. ASSUME NEW j \in DOMAIN S, S[j].src = new.src PROVE Excused(w, T, m, t, m, j)
    <3>1. Alone(S, n, s, a, j)
      BY <1>4 DEF AskOK
    <3>2. T[j].by = S[j].by
      BY DEF Joined, SameEntry
    <3>3. T[m].by = T[j].by \/ Dead(E, m, t, T[m].by) \/ Dead(E, m, t, T[j].by)
      BY <1>8, <1>11, <2>3, <3>1, <3>2 DEF Alone, D
    <3>4. T[m].src \notin RecordsOf(w)
      BY <1>5, <1>8 DEF WorldOK
    <3> QED
      BY <3>3, <3>4 DEF Excused, E
  <2>4. NoneRevived(DOMAIN S, n, s, DOMAIN T, m, t) /\ m \notin DOMAIN S /\ Joined(w, S, T, m, new)
    BY <1>2, <1>7 DEF D, E, m
  <2>5. Lists(o, S) /\ OneEach(w, S, n, s, o, sw)
    BY DEF MapOK
  <2>6. \A i \in DOMAIN t : new.src = t[i].rec => t[i].rec \in new.chain
    BY <2>2
  <2> QED
    BY <1>1, <2>1, <2>3, <2>4, <2>5, <2>6, OneEachStaged
<1>13. ASSUME NEW b \in A \ {a} PROVE AskOK(T, m, t, b)
  <2>1. AskOK(S, n, s, b)
    BY DEF MapOK
  <2>2. AtTop(s, b) => AtTop(t, b)
    <3> SUFFICES ASSUME AtTop(s, b) PROVE AtTop(t, b)
      OBVIOUS
    <3>1. s # <<>> /\ b.by = s[Len(s)].id /\ b.path = Append(s[Len(s)].path, "name")
      BY DEF AtTop
    <3>2. Len(s) \in DOMAIN t /\ t # <<>>
      BY <1>1, <3>1
    <3>3. Later(s[Len(s)], t[Len(s)])
      BY <1>3, <3>2
    <3> QED
      BY <3>1, <3>2, <3>3 DEF AtTop, Later
  <2>3. ASSUME NEW k \in DOMAIN T
        PROVE  \/ k \in DOMAIN S /\ T[k].src = S[k].src /\ T[k].by = S[k].by
               \/ Alone(T, m, t, b, k)
    <3>1. CASE k = m
      <4>1. CASE Dead(D, n, s, b.by)
        BY <1>11, <4>1 DEF Alone, E
      <4>2. CASE Dead(D, n, s, a.by)
        BY <1>8, <1>11, <3>1, <4>2 DEF Alone, E
      <4>3. CASE AtTop(s, a) /\ AtTop(s, b)
        BY <1>8, <3>1, <4>3 DEF Alone, AtTop
      <4> QED
        BY <1>4, <2>1, <4>1, <4>2, <4>3 DEF AskOK, D
    <3>2. CASE k # m
      BY <1>2, <3>2, Zenon DEF Joined, SameEntry, D, E
    <3> QED
      BY <3>1, <3>2
  <2>4. NoneRevived(DOMAIN S, n, s, DOMAIN T, m, t)
    BY <1>7 DEF D, E
  <2> QED
    BY <2>1, <2>2, <2>3, <2>4, AskStays
<1>14. Lists(Append(o, m), T) /\ RefersBack(Append(o, m), T)
  <2>1. /\ m \in Nat /\ Lists(o, S) /\ RefersBack(o, S) /\ DOMAIN T = DOMAIN S \cup {m}
        /\ m \notin DOMAIN S /\ Joined(w, S, T, m, new)
    BY <1>1, <1>2 DEF MapOK, D, E, m
  <2> QED
    BY <2>1, OneMoreListed, RefersBackStaged
<1>15. T \in [DOMAIN T -> EntryType(w)]
  BY DEF Joined
<1>16. A \ {a} \subseteq AskType(w)
  BY DEF MapOK
<1> QED
  BY <1>2, <1>6, <1>10, <1>12, <1>13, <1>14, <1>15, <1>16 DEF MapOK, E, m

\* T is S after a review.
Alike(S, T) ==
  /\ DOMAIN T = DOMAIN S
  /\ \A k \in DOMAIN S :
       /\ T[k].src = S[k].src /\ T[k].path = S[k].path /\ T[k].refs = S[k].refs
       /\ T[k].by = S[k].by /\ T[k].chain = S[k].chain /\ T[k].parent = S[k].parent
       /\ T[k].depth = S[k].depth

\* A review keeps what the mapping has made.
LEMMA MapReviewed ==
  ASSUME NEW w, NEW S, NEW o, NEW n, NEW s, NEW A, NEW sw, MapOK(w, S, o, n, s, A, sw),
         NEW T, Alike(S, T), T \in [DOMAIN T -> EntryType(w)]
  PROVE  MapOK(w, T, o, n, s, A, sw)
<1>1. DOMAIN T = DOMAIN S
  BY DEF Alike
<1>2. TreeShape(T)
  <2>1. TreeShape(S)
    BY DEF MapOK
  <2>2. Root \in DOMAIN T =>
          T[Root].path = <<>> /\ T[Root].parent = NoParent /\ T[Root].depth = 0
    BY <2>1, Zenon DEF TreeShape, Alike
  <2>3. \A k \in DOMAIN T : Len(T[k].path) <= MaxLen
    BY <2>1 DEF TreeShape, Alike
  <2>4. ASSUME NEW k \in DOMAIN T \ {Root}
        PROVE  /\ T[k].path # <<>>
               /\ \/ /\ T[k].parent = Root
                     /\ T[k].depth = Depth(T[k].path)
                  \/ /\ T[k].parent \in DOMAIN T \ {Root}
                     /\ Len(T[T[k].parent].path) < Len(T[k].path)
                     /\ T[k].depth = T[T[k].parent].depth + 1
    <3>1. k \in DOMAIN S \ {Root}
      BY <1>1
    <3>2. T[k].path = S[k].path /\ T[k].parent = S[k].parent /\ T[k].depth = S[k].depth
      BY <3>1 DEF Alike
    <3>3. S[k].parent \in DOMAIN S => /\ T[S[k].parent].path = S[S[k].parent].path
                                      /\ T[S[k].parent].depth = S[S[k].parent].depth
      BY DEF Alike
    <3>4. /\ S[k].path # <<>>
          /\ \/ /\ S[k].parent = Root
                /\ S[k].depth = Depth(S[k].path)
             \/ /\ S[k].parent \in DOMAIN S \ {Root}
                /\ Len(S[S[k].parent].path) < Len(S[k].path)
                /\ S[k].depth = S[S[k].parent].depth + 1
      BY <2>1, <3>1 DEF TreeShape
    <3> QED
      BY <1>1, <3>2, <3>3, <3>4
  <2>5. DOMAIN T \subseteq Nat
    BY <1>1, <2>1 DEF TreeShape
  <2> QED
    BY <2>2, <2>3, <2>4, <2>5 DEF TreeShape
<1>3. Caused(T, n, s)
  <2> SUFFICES ASSUME NEW k \in DOMAIN T \ {Root} PROVE CauseOf(T, n, s, k)
    BY DEF Caused
  <2>1. CauseOf(S, n, s, k)
    BY <1>1 DEF MapOK, Caused
  <2>2. /\ T[k].path = S[k].path /\ T[k].by = S[k].by /\ T[k].parent = S[k].parent
    BY <1>1 DEF Alike
  <2>3. CASE Dead(DOMAIN S, n, s, S[k].by)
    BY <1>1, <2>2, <2>3 DEF CauseOf
  <2>4. CASE UnderCause(S, k)
    <3>1. S[k].by \in DOMAIN S
      BY <2>4 DEF UnderCause
    <3>2. T[S[k].by].refs = S[S[k].by].refs /\ T[S[k].by].path = S[S[k].by].path
      BY <3>1 DEF Alike
    <3>3. UnderCause(T, k)
      BY <1>1, <2>2, <2>4, <3>1, <3>2 DEF UnderCause
    <3> QED
      BY <3>3 DEF CauseOf
  <2>5. CASE \E i \in DOMAIN s : UnderWay(S, s, k, i)
    <3>1. PICK i \in DOMAIN s : UnderWay(S, s, k, i)
      BY <2>5
    <3>2. UnderWay(T, s, k, i)
      BY <2>2, <3>1 DEF UnderWay
    <3> QED
      BY <3>2 DEF CauseOf
  <2> QED
    BY <2>1, <2>3, <2>4, <2>5 DEF CauseOf
<1>4. Lists(o, T) /\ RefersBack(o, T)
  BY <1>1 DEF MapOK, Alike, Lists, RefersBack
<1>5. OneEach(w, T, n, s, o, sw)
  <2>1. OneEach(w, S, n, s, o, sw)
    BY DEF MapOK
  <2>2. \A i, j \in DOMAIN S : Excused(w, S, n, s, i, j) => Excused(w, T, n, s, i, j)
    BY <1>1, Zenon DEF Excused, Alike
  <2>3. \A k \in DOMAIN T : T[k].src = S[k].src /\ T[k].chain = S[k].chain
    BY <1>1 DEF Alike
  <2> QED
    BY <1>1, <2>1, <2>2, <2>3, Zenon DEF OneEach
<1>6. ASSUME NEW a \in A PROVE AskOK(T, n, s, a)
  <2>1. AskOK(S, n, s, a)
    BY DEF MapOK
  <2>2. \A k \in DOMAIN T : Alone(S, n, s, a, k) => Alone(T, n, s, a, k)
    BY <1>1, Zenon DEF Alone, Alike
  <2> QED
    BY <1>1, <2>1, <2>2 DEF AskOK
<1> QED
  BY <1>1, <1>2, <1>3, <1>4, <1>5, <1>6 DEF MapOK

\* Nothing staged any more.
LEMMA MapDiscarded ==
  ASSUME NEW w, NEW S, NEW o, NEW n, NEW s, NEW A, NEW sw, MapOK(w, S, o, n, s, A, sw),
         s = <<>>
  PROVE  MapOK(w, <<>>, <<>>, n, s, A, sw)
<1>0. PICK T : T = <<>>
  OBVIOUS
<1>1. DOMAIN T = {} /\ T \in [DOMAIN T -> EntryType(w)] /\ T \in Seq(Nat) /\ DOMAIN s = {}
  BY <1>0
<1>2. Frames(w, DOMAIN T, n, s) /\ n \in Nat
  BY <1>1 DEF MapOK, Frames
<1>3. TreeShape(T) /\ Caused(T, n, s) /\ RefersBack(T, T) /\ OneEach(w, T, n, s, T, sw)
  BY <1>1 DEF TreeShape, Caused, RefersBack, OneEach
<1>4. Lists(T, T)
  BY <1>1 DEF Lists, IsInjective, ToSet
<1>5. ASSUME NEW a \in A PROVE AskOK(T, n, s, a)
  <2>1. AskOK(S, n, s, a)
    BY DEF MapOK
  <2>2. Dead(DOMAIN T, n, s, a.by)
    BY <1>1, <2>1 DEF AskOK, Dead
  <2> QED
    BY <1>1, <2>1, <2>2 DEF AskOK
<1>6. MapOK(w, T, T, n, s, A, sw)
  BY <1>1, <1>2, <1>3, <1>4, <1>5 DEF MapOK
<1> QED
  BY <1>0, <1>6

IsFrame(w, f, id, rec, path, links, chain) ==
  /\ f \in FrameType(w)
  /\ f.id = id /\ f.rec = rec /\ f.path = path /\ f.todo = links
  /\ f.refs = {} /\ f.chain = chain
\* A mapping that begins.
LEMMA FrameIs ==
  ASSUME NEW w, NEW id \in Nat, NEW rec \in RecordsOf(w), NEW path \in Seq(TargetsOf(w)),
         NEW links \in SUBSET LinksOf(w), NEW names \in Seq(NamesOf(w)),
         NEW chain \in SUBSET RecordsOf(w)
  PROVE  IsFrame(w, Frame(id, rec, path, links, names, chain), id, rec, path, links, chain)
BY DEF Frame, FrameType, IsFrame

\* The import begins with the root's mapping.
LEMMA MapBegins ==
  ASSUME NEW w, WorldOK(w),
         NEW f, f = Frame(Root, RootRecord, <<>>, w.links[RootRecord], w.names[RootRecord], {}),
         NEW s, s = <<f>>
  PROVE  MapOK(w, <<>>, <<>>, 0, s, {}, FALSE)
<1>0. PICK T : T = <<>>
  OBVIOUS
<1>1. DOMAIN T = {} /\ T \in [DOMAIN T -> EntryType(w)] /\ T \in Seq(Nat)
      /\ T \in Seq(TargetsOf(w)) /\ Len(T) = 0
  BY <1>0
<1>2. /\ f.id = 0 /\ f.rec = RootRecord /\ f.path = T /\ f.todo = w.links[RootRecord]
      /\ f.refs = {} /\ f.chain = {} /\ f \in FrameType(w)
  <2>1. RootRecord \in RecordsOf(w) /\ w.links[RootRecord] \in SUBSET LinksOf(w)
        /\ w.names[RootRecord] \in Seq(NamesOf(w))
    BY DEF WorldOK
  <2>2. Root \in Nat /\ Root = 0 /\ {} \in SUBSET RecordsOf(w)
    BY DEF Root
  <2>3. f = Frame(Root, RootRecord, T, w.links[RootRecord], w.names[RootRecord], {})
    BY <1>0
  <2>4. PICK L, M, C : L = w.links[RootRecord] /\ M = w.names[RootRecord] /\ C = {}
    OBVIOUS
  <2>5. L \in SUBSET LinksOf(w) /\ M \in Seq(NamesOf(w)) /\ C \in SUBSET RecordsOf(w)
    BY <2>1, <2>2, <2>4
  <2>6. IsFrame(w, Frame(Root, RootRecord, T, L, M, C), Root, RootRecord, T, L, C)
    BY <1>1, <2>1, <2>2, <2>5, FrameIs
  <2>7. IsFrame(w, f, Root, RootRecord, T, L, C)
    BY <2>3, <2>4, <2>6
  <2> QED
    BY <2>2, <2>4, <2>7 DEF IsFrame
<1>3. s \in Seq(FrameType(w)) /\ Len(s) = 1 /\ DOMAIN s = {1} /\ s[1] = f
  BY <1>2
<1>4. Depth(f.path) <= MaxDepth /\ 1 <= MaxLen
  BY <1>0, <1>2, DepthAssumption DEF Depth, MaxLen
<1>5. Frame1(w, DOMAIN T, 0, s, 1)
  BY <1>1, <1>2, <1>3, <1>4 DEF Frame1, Root
<1>6. Frames(w, DOMAIN T, 0, s)
  BY <1>3, <1>4, <1>5 DEF Frames
<1>7. TreeShape(T) /\ Caused(T, 0, s) /\ RefersBack(T, T)
  BY <1>1 DEF TreeShape, Caused, RefersBack
<1>8. Lists(T, T)
  BY <1>1 DEF Lists, IsInjective, ToSet
<1>9. OneEach(w, T, 0, s, T, FALSE)
  BY <1>1, <1>3 DEF OneEach
<1>10. MapOK(w, T, T, 0, s, {}, FALSE)
  BY <1>1, <1>6, <1>7, <1>8, <1>9 DEF MapOK
<1> QED
  BY <1>0, <1>10

(***************************************************************************)
(* The steps.                                                              *)
(***************************************************************************)
\* t are the first n mappings of s, gone on; they have found entities of R only.
Stepped(w, s, t, R, n) ==
  /\ t \in Seq(FrameType(w)) /\ GoesOn(s, t) /\ Len(t) = n
  /\ \A i \in DOMAIN t : t[i].refs \subseteq R

\* What a mapping may change: links followed, names split, entities found.
GoneOn(w, f, g, y) == g \in FrameType(w) /\ Later(f, g) /\ g.refs = f.refs \cup y

\* A mapping finds entities.
LEMMA FindsMore ==
  ASSUME NEW w, NEW f \in FrameType(w), NEW y \in SUBSET Nat
  PROVE  GoneOn(w, f, [f EXCEPT !.refs = @ \cup y], y)
BY DEF FrameType, Later, GoneOn

\* A mapping follows a link.
LEMMA FollowsLink ==
  ASSUME NEW w, NEW f \in FrameType(w), NEW x \in SUBSET f.todo, NEW y \in SUBSET Nat
  PROVE  /\ GoneOn(w, f, [f EXCEPT !.todo = x, !.refs = @ \cup y], y)
         /\ GoneOn(w, f, [f EXCEPT !.todo = x], {})
BY DEF FrameType, Later, GoneOn

\* A mapping splits its names.
LEMMA SplitsNames ==
  ASSUME NEW w, NEW f \in FrameType(w), NEW y \in SUBSET Nat
  PROVE  GoneOn(w, f, [f EXCEPT !.names = <<>>, !.refs = @ \cup y], y)
<1>1. PICK e : e = <<>>
  OBVIOUS
<1>2. e \in Seq(NamesOf(w))
  BY <1>1
<1>3. GoneOn(w, f, [f EXCEPT !.names = e, !.refs = @ \cup y], y)
  BY <1>2 DEF FrameType, Later, GoneOn
<1> QED
  BY <1>1, <1>3

\* One of the mappings goes on.
LEMMA OneChanges ==
  ASSUME NEW w, NEW s \in Seq(FrameType(w)), NEW i \in DOMAIN s,
         NEW f \in FrameType(w), Later(s[i], f),
         NEW R, f.refs \subseteq R, \A j \in DOMAIN s : s[j].refs \subseteq R
  PROVE  /\ Stepped(w, s, [s EXCEPT ![i] = f], R, Len(s))
         /\ [s EXCEPT ![i] = f][i] = f
<1> DEFINE t == [s EXCEPT ![i] = f]
<1>1. /\ t \in Seq(FrameType(w)) /\ Len(t) = Len(s) /\ DOMAIN t = DOMAIN s
      /\ t[i] = f /\ \A j \in DOMAIN s : j # i => t[j] = s[j]
  <2>1. i \in 1..Len(s)
    OBVIOUS
  <2> QED
    BY <2>1, ExceptSeq
<1> HIDE DEF t
<1>2. \A j \in DOMAIN t : Later(s[j], t[j]) /\ t[j].refs \subseteq R
  <2>1. \A j \in DOMAIN s : Later(s[j], s[j])
    BY DEF Later
  <2> QED
    BY <1>1, <2>1
<1>3. Len(t) <= Len(s)
  BY <1>1
<1> QED
  BY <1>1, <1>2, <1>3 DEF Stepped, GoesOn, t

\* The topmost mapping ends.
LEMMA TopEnds ==
  ASSUME NEW w, NEW s \in Seq(FrameType(w)), s # <<>>,
         NEW R, \A j \in DOMAIN s : s[j].refs \subseteq R
  PROVE  /\ Stepped(w, s, SubSeq(s, 1, Len(s) - 1), R, Len(s) - 1)
         /\ \A i \in 1..(Len(s) - 1) : SubSeq(s, 1, Len(s) - 1)[i] = s[i]
<1> DEFINE t == SubSeq(s, 1, Len(s) - 1)
<1>1. Len(s) \in Nat \ {0} /\ DOMAIN s = 1..Len(s)
  OBVIOUS
<1>2. /\ t \in Seq(FrameType(w)) /\ Len(t) = Len(s) - 1 /\ DOMAIN t = 1..(Len(s) - 1)
      /\ \A i \in 1..(Len(s) - 1) : t[i] = s[i]
  BY <1>1
<1> HIDE DEF t
<1>3. \A i \in DOMAIN t : i \in DOMAIN s /\ t[i] = s[i]
  BY <1>1, <1>2
<1>4. \A i \in DOMAIN t : Later(s[i], t[i]) /\ t[i].refs \subseteq R
  BY <1>3 DEF Later
<1>5. Len(t) <= Len(s)
  BY <1>1, <1>2
<1> QED
  BY <1>2, <1>4, <1>5 DEF Stepped, GoesOn, t

\* One of several mappings, or none, has found the entities y.
FoundBy(s, b, y) ==
  [i \in DOMAIN s |-> IF s[i].id = b THEN [s[i] EXCEPT !.refs = @ \cup y] ELSE s[i]]

\* The mapping that asked finds the entities.
LEMMA NamedSteps ==
  ASSUME NEW w, NEW s \in Seq(FrameType(w)), NEW b, NEW y \in SUBSET Nat,
         NEW R, y \subseteq R, \A j \in DOMAIN s : s[j].refs \subseteq R
  PROVE  /\ Stepped(w, s, FoundBy(s, b, y), R, Len(s))
         /\ \A i \in DOMAIN FoundBy(s, b, y) :
               FoundBy(s, b, y)[i].id = b => y \subseteq FoundBy(s, b, y)[i].refs
<1> DEFINE t == FoundBy(s, b, y)
<1>1. Len(s) \in Nat /\ DOMAIN s = 1..Len(s) /\ DOMAIN t = DOMAIN s
  BY DEF FoundBy
<1>2. ASSUME NEW i \in DOMAIN s
      PROVE  /\ t[i] \in FrameType(w) /\ Later(s[i], t[i]) /\ t[i].refs \subseteq R
             /\ t[i].id = b => y \subseteq t[i].refs
  <2>1. s[i] \in FrameType(w)
    OBVIOUS
  <2>2. CASE s[i].id = b
    <3>1. t[i] = [s[i] EXCEPT !.refs = @ \cup y]
      BY <2>2 DEF FoundBy
    <3> HIDE DEF t
    <3>2. PICK f : f = s[i]
      OBVIOUS
    <3>3. t[i] \in FrameType(w) /\ Later(f, t[i]) /\ t[i].refs = f.refs \cup y
      <4>1. t[i] = [f EXCEPT !.refs = @ \cup y] /\ f \in FrameType(w)
        BY <2>1, <3>1, <3>2
      <4>2. GoneOn(w, f, [f EXCEPT !.refs = @ \cup y], y)
        BY <4>1, FindsMore
      <4> QED
        BY <4>1, <4>2 DEF GoneOn
    <3> QED
      BY <3>2, <3>3
  <2>3. CASE s[i].id # b
    <3>1. t[i] = s[i]
      BY <2>3 DEF FoundBy
    <3> HIDE DEF t
    <3> QED
      BY <2>1, <2>3, <3>1 DEF Later
  <2> QED
    BY <2>2, <2>3
<1>3. t = [i \in 1..Len(s) |-> t[i]]
  BY <1>1 DEF FoundBy
<1> HIDE DEF t
<1>4. t \in Seq(FrameType(w)) /\ Len(t) = Len(s)
  BY <1>1, <1>2, <1>3
<1>5. GoesOn(s, t)
  BY <1>1, <1>2, <1>4 DEF GoesOn
<1> QED
  BY <1>1, <1>2, <1>4, <1>5 DEF Stepped, t

MapInv == MapOK(world, staged, order, ids, stack, asks, swallowed)

\* The entities a mapping may find.
Findable == DOMAIN staged \cup {Root}

\* What every step needs of the stack.
LEMMA StackIs ==
  ASSUME MapInv
  PROVE  /\ stack \in Seq(FrameType(world)) /\ ids \in Nat /\ Findable \in SUBSET Nat
         /\ \A i \in DOMAIN stack : stack[i].refs \subseteq Findable
         /\ Len(stack) \in Nat /\ DOMAIN stack = 1..Len(stack)
         /\ stack # <<>> => Top \in FrameType(world) /\ Len(stack) \in DOMAIN stack
<1>1. Frames(world, DOMAIN staged, ids, stack) /\ DOMAIN staged \subseteq 0..ids
  BY DEF MapInv, MapOK
<1>2. stack \in Seq(FrameType(world)) /\ ids \in Nat
  BY <1>1 DEF Frames
<1>3. \A i \in DOMAIN stack : stack[i].refs \subseteq Findable
  BY <1>1 DEF Frames, Frame1, Findable
<1>4. Findable \in SUBSET Nat
  BY <1>1, <1>2 DEF Findable, Root
<1>5. stack # <<>> => Top \in FrameType(world) /\ Len(stack) \in DOMAIN stack
  BY <1>2 DEF Top
<1> QED
  BY <1>2, <1>3, <1>4, <1>5
\* The steps that stage an entity.
Fresh(new, src, path, refs, by, chain) ==
  /\ new.src = src /\ new.path = path /\ new.refs = refs /\ new.by = by /\ new.chain = chain
  /\ new.parent = IF path = <<>> THEN NoParent ELSE Root
Staging(id, new) ==
  /\ Joined(world, staged, staged', id, new) /\ TreeShape(staged')
  /\ order' = Append(order, id) /\ pending' = FALSE

\* A step with Stage joins a fresh entry to the tree.
LEMMA StageStep ==
  ASSUME MapInv, pending \in BOOLEAN, NEW id \in Nat, id \notin DOMAIN staged,
         NEW src \in RecordsOf(world) \cup NamesOf(world), NEW path \in Seq(StepsOf(world)),
         Len(path) <= MaxLen, id = Root <=> path = <<>>,
         NEW refs \in SUBSET Nat, NEW by \in Nat \cup {NoParent},
         NEW chain \in SUBSET RecordsOf(world), Stage(id, src, path, refs, by, chain)
  PROVE  \E new \in EntryType(world) :
            Fresh(new, src, path, refs, by, chain) /\ Staging(id, new)
<1> DEFINE new == [src |-> src, path |-> path, refs |-> refs, by |-> by, chain |-> chain,
                   parent |-> IF path = <<>> THEN NoParent ELSE Root, depth |-> Depth(path),
                   rejected |-> FALSE, matched |-> pending]
<1>1. Depth(path) \in Nat
  <2>1. Len(path) \in Nat /\ (path # <<>> => Len(path) # 0)
    OBVIOUS
  <2> QED
    BY <2>1 DEF Depth
<1>2. new \in EntryType(world)
  <2>1. PICK p : p = IF path = <<>> THEN NoParent ELSE Root
    OBVIOUS
  <2>2. p \in Nat \cup {NoParent}
    BY <2>1 DEF Root
  <2>3. PICK d \in Nat : d = Depth(path)
    BY <1>1
  <2>4. [src |-> src, path |-> path, refs |-> refs, by |-> by, chain |-> chain,
         parent |-> p, depth |-> d, rejected |-> FALSE, matched |-> pending] \in EntryType(world)
    BY <2>2 DEF EntryType
  <2> QED
    BY <2>1, <2>3, <2>4
<1>3. /\ new.depth = Depth(path) /\ new.path = path
      /\ new.parent = IF new.path = <<>> THEN NoParent ELSE Root
      /\ Fresh(new, src, path, refs, by, chain)
  BY DEF Fresh
<1>4. PICK U : U = [k \in DOMAIN staged \cup {id} |-> IF k = id THEN new ELSE staged[k]]
  OBVIOUS
<1>5. staged' = Reparent(U, Adopted(U, path), id) /\ order' = Append(order, id)
      /\ pending' = FALSE
  BY <1>4 DEF Stage
<1>6. staged \in [DOMAIN staged -> EntryType(world)] /\ TreeShape(staged)
  BY DEF MapInv, MapOK
<1> HIDE DEF new
<1>7. Joined(world, staged, staged', id, new) /\ TreeShape(staged')
  BY <1>2, <1>3, <1>4, <1>5, <1>6, StageIs
<1> QED
  BY <1>2, <1>3, <1>5, <1>7 DEF Staging

(***************************************************************************)
(* The steps that stage nothing.                                           *)
(***************************************************************************)
LEMMA SteppedIsOK ==
  ASSUME MapInv, NEW t, NEW n, Stepped(world, stack, t, Findable, n),
         NEW B \in SUBSET asks, NEW sx, swallowed => sx
  PROVE  MapOK(world, staged, order, ids, t, B, sx)
<1>1. t \in Seq(FrameType(world)) /\ GoesOn(stack, t)
      /\ \A i \in DOMAIN t : t[i].refs \subseteq DOMAIN staged \cup {Root}
  BY DEF Stepped, Findable
<1>2. MapOK(world, staged, order, ids, stack, asks, swallowed)
  BY DEF MapInv
<1> QED
  BY <1>1, <1>2, MapGoesOn

\* Follow keeps the mapping's invariant; so do the other steps, one lemma each.
LEMMA FollowKeeps ==
  ASSUME MapInv, stack # <<>>, NEW l, NEW found \in SUBSET Findable, Follow(l, found),
         UNCHANGED <<world, staged, order, ids, asks>>, swallowed => swallowed'
  PROVE  MapInv'
<1>1. /\ stack \in Seq(FrameType(world)) /\ Top \in FrameType(world)
      /\ Len(stack) \in DOMAIN stack /\ Findable \in SUBSET Nat
      /\ \A i \in DOMAIN stack : stack[i].refs \subseteq Findable
  BY StackIs
<1>2. PICK f : f = [Top EXCEPT !.todo = Top.todo \ {l}, !.refs = @ \cup found]
  OBVIOUS
<1>3. GoneOn(world, Top, f, found)
  BY <1>1, <1>2, FollowsLink
<1>4. f \in FrameType(world) /\ Later(stack[Len(stack)], f) /\ f.refs \subseteq Findable
  BY <1>1, <1>3 DEF GoneOn, Top
<1>5. stack' = [stack EXCEPT ![Len(stack)] = f]
  BY <1>1, <1>2 DEF Follow, Top, FrameType
<1>6. Stepped(world, stack, stack', Findable, Len(stack))
  BY <1>1, <1>4, <1>5, OneChanges
<1>7. MapOK(world, staged, order, ids, stack', asks, swallowed')
  BY <1>6, SteppedIsOK
<1> QED
  BY <1>7 DEF MapInv

\* A mapping given up.
LEMMA ThrowKeeps ==
  ASSUME MapInv, stack # <<>>, stack' = SubSeq(stack, 1, Len(stack) - 1),
         UNCHANGED <<world, staged, order, ids, swallowed>>, asks' \subseteq asks
  PROVE  MapInv'
<1>1. /\ stack \in Seq(FrameType(world))
      /\ \A i \in DOMAIN stack : stack[i].refs \subseteq Findable
  BY StackIs
<1>2. Stepped(world, stack, stack', Findable, Len(stack) - 1)
  BY <1>1, TopEnds
<1>3. MapOK(world, staged, order, ids, stack', asks', swallowed')
  BY <1>2, SteppedIsOK
<1> QED
  BY <1>3 DEF MapInv
\* A nested mapping.
LEMMA DescendKeeps ==
  ASSUME MapInv, world \in Worlds, Mapping, NEW l \in Top.todo,
         NEW rec \in RecordsOf(world), StagedAs(rec) = {},
         NEW links \in SUBSET world.links[rec], NEW names \in Seq(NamesOf(world)),
         links # {} => Depth(Append(Top.path, l[1])) <= MaxDepth,
         Descend(l, rec, links, names),
         UNCHANGED <<world, staged, order, asks>>, swallowed => swallowed',
         rec \in world.known => swallowed'
  PROVE  MapInv'
<1>1. stack # <<>> /\ \A a \in asks : a.by # Top.id
  BY DEF Mapping
<1>2. /\ stack \in Seq(FrameType(world)) /\ Top \in FrameType(world) /\ ids \in Nat
      /\ Len(stack) \in DOMAIN stack /\ Findable \in SUBSET Nat
      /\ \A i \in DOMAIN stack : stack[i].refs \subseteq Findable
  BY <1>1, StackIs
<1>3. PICK p : p = Append(Top.path, l[1])
  OBVIOUS
<1>4. PICK c : c = Top.chain \cup {Top.rec}
  OBVIOUS
<1>5. PICK g : g = [Top EXCEPT !.todo = Top.todo \ {l}]
  OBVIOUS
<1>6. PICK s : s = [stack EXCEPT ![Len(stack)] = g]
  OBVIOUS
<1>7. PICK f : f = Frame(ids + 1, rec, p, links, names, c)
  OBVIOUS
<1>8. stack' = Append(s, f) /\ ids' = ids + 1
  <2>1. [stack EXCEPT ![Len(stack)].todo = @ \ {l}] = s
    BY <1>2, <1>5, <1>6 DEF Top
  <2> QED
    BY <2>1, <1>3, <1>4, <1>7 DEF Descend
<1>9. /\ Top.path \in Seq(TargetsOf(world)) /\ l[1] \in TargetsOf(world)
      /\ c \in SUBSET RecordsOf(world) /\ links \in SUBSET LinksOf(world)
  <2>1. /\ Top.path \in Seq(TargetsOf(world)) /\ Top.todo \subseteq LinksOf(world)
        /\ Top.chain \in SUBSET RecordsOf(world) /\ Top.rec \in RecordsOf(world)
    BY <1>2 DEF FrameType
  <2>2. links \subseteq LinksOf(world)
    BY DEF LinksOf
  <2> QED
    BY <2>1, <2>2, <1>4 DEF TargetsOf
<1>10. p \in Seq(TargetsOf(world))
  BY <1>3, <1>9, NextStep
<1>11. IsFrame(world, f, ids + 1, rec, p, links, c)
  BY <1>2, <1>7, <1>9, <1>10, FrameIs
<1>12. Depth(Top.path) <= MaxDepth
  BY <1>2 DEF MapInv, MapOK, Frames, Frame1, Top
<1>13. GoneOn(world, Top, g, {})
  BY <1>2, <1>5, FollowsLink
<1>14. g \in FrameType(world) /\ Later(stack[Len(stack)], g) /\ g.refs \subseteq Findable
       /\ g.id = Top.id /\ g.rec = Top.rec /\ g.path = Top.path /\ g.chain = Top.chain
  <2>1. g \in FrameType(world) /\ Later(Top, g) /\ g.refs = Top.refs
    BY <1>13 DEF GoneOn
  <2>2. Top.refs \subseteq Findable /\ Top = stack[Len(stack)]
    BY <1>2 DEF Top
  <2> QED
    BY <2>1, <2>2 DEF Later
<1>15. Stepped(world, stack, s, Findable, Len(stack)) /\ s[Len(stack)] = g
  BY <1>2, <1>6, <1>14, OneChanges
<1>16. MapOK(world, staged, order, ids, s, asks, swallowed)
  BY <1>15, SteppedIsOK
<1>17. s # <<>> /\ s[Len(s)] = g
  <2>1. s \in Seq(FrameType(world)) /\ Len(s) = Len(stack)
    BY <1>15 DEF Stepped
  <2> QED
    BY <2>1, <1>2, <1>15
<1>18. /\ f \in FrameType(world) /\ f.id = ids + 1 /\ f.refs = {} /\ f.todo = links
       /\ f.rec = rec /\ f.path = p /\ f.chain = c
  BY <1>11 DEF IsFrame
<1>19. /\ \A a \in asks : a.by # s[Len(s)].id
       /\ f.path = Append(s[Len(s)].path, l[1])
       /\ Depth(s[Len(s)].path) <= MaxDepth
       /\ s[Len(s)].chain \cup {s[Len(s)].rec} \subseteq f.chain
  BY <1>1, <1>3, <1>4, <1>12, <1>14, <1>17, <1>18
<1>20. /\ f.todo \subseteq world.links[f.rec]
       /\ f.todo # {} => Depth(f.path) <= MaxDepth
       /\ \A j \in DOMAIN staged : staged[j].src # f.rec
       /\ f.rec \in world.known => swallowed'
  BY <1>3, <1>18 DEF StagedAs
<1>21. MapOK(world, staged, order, ids + 1, Append(s, f), asks, swallowed')
  BY <1>9, <1>16, <1>17, <1>18, <1>19, <1>20, MapNests
<1> QED
  BY <1>8, <1>21 DEF MapInv

\* A match, staged or in the main store.
LEMMA MatchedKeeps ==
  ASSUME MapInv, stack # <<>>, NEW l, NEW rec, Matched(l, rec),
         UNCHANGED <<world, staged, order, asks>>
  PROVE  MapInv'
<1>1. \E found \in SUBSET Findable : Follow(l, found)
  <2>1. CASE FindStaged(rec) # {}
    <3> DEFINE P == {Position(k) : k \in FindStaged(rec)}
    <3>1. FindStaged(rec) \subseteq DOMAIN staged
      BY DEF FindStaged, StagedAs
    <3>2. Lists(order, staged)
      BY DEF MapInv, MapOK
    <3>3. \A k \in DOMAIN staged : Position(k) \in Nat
      BY <3>2, Positions
    <3>4. P \in SUBSET Nat /\ P # {}
      BY <2>1, <3>1, <3>3
    <3>5. \E n \in P : \A m \in P : n <= m
      BY <3>4, LeastElement
    <3>6. \E k \in FindStaged(rec) : \A j \in FindStaged(rec) : Position(k) <= Position(j)
      BY <3>5
    <3>7. PICK k : k = CHOOSE i \in FindStaged(rec) :
                         \A j \in FindStaged(rec) : Position(i) <= Position(j)
      OBVIOUS
    <3>8. k \in FindStaged(rec)
      BY <3>6, <3>7
    <3>9. Follow(l, {k})
      BY <2>1, <3>7 DEF Matched
    <3> QED
      BY <3>1, <3>8, <3>9 DEF Findable
  <2>2. CASE FindStaged(rec) = {}
    <3>1. Follow(l, MainEntity(rec))
      BY <2>2 DEF Matched
    <3>2. MainEntity(rec) \subseteq {Root}
      BY DEF MainEntity
    <3> QED
      BY <3>1, <3>2 DEF Findable
  <2> QED
    BY <2>1, <2>2
<1>2. PICK found \in SUBSET Findable : Follow(l, found)
  BY <1>1
<1>3. UNCHANGED <<world, staged, order, ids, asks>> /\ (swallowed => swallowed')
  BY DEF Matched
<1> QED
  BY <1>2, <1>3, FollowKeeps
\* All that can happen to one link.
LEMMA LinkKeeps ==
  ASSUME MapInv, world \in Worlds, NEW l, Link(l)
  PROVE  MapInv'
<1>1. PICK rec : rec = l[2]
  OBVIOUS
<1>2. PICK path : path = Append(Top.path, l[1])
  OBVIOUS
<1>3. PICK same : same = world.same[rec]
  BY <1>1
<1>4. Mapping /\ l \in Top.todo /\ stack # <<>>
  BY DEF Link, Mapping
<1>5. UNCHANGED <<world, asks, staged, order>>
  BY DEF Link
<1>6. /\ rec \in RecordsOf(world) /\ same \in RecordsOf(world)
      /\ Depth(path) \in Nat
      /\ \A r \in RecordsOf(world) :
           world.names[r] \in Seq(NamesOf(world)) /\ world.links[r] \in SUBSET world.links[r]
  <2>1. Top \in FrameType(world)
    BY <1>4, StackIs
  <2>2. Top.todo \subseteq LinksOf(world) /\ Top.path \in Seq(TargetsOf(world))
    BY <2>1 DEF FrameType
  <2>3. WorldOK(world)
    BY WorldsAreOK
  <2>4. l \in LinksOf(world) /\ l[1] \in TargetsOf(world)
    BY <1>4, <2>2 DEF TargetsOf
  <2>5. path \in Seq(TargetsOf(world)) /\ path # <<>> /\ Len(path) \in Nat /\ Len(path) # 0
    BY <1>2, <2>2, <2>4, NextStep
  <2>6. Depth(path) \in Nat
    BY <2>5 DEF Depth
  <2>7. rec \in RecordsOf(world) /\ world.same \in [RecordsOf(world) -> RecordsOf(world)]
    BY <1>1, <2>3, <2>4 DEF WorldOK
  <2> QED
    BY <1>3, <2>3, <2>6, <2>7 DEF WorldOK
<1>7. ~Stub(path) => Depth(path) <= MaxDepth
  BY <1>6, DepthAssumption DEF Stub
<1>8. ASSUME NEW r \in RecordsOf(world), Unmatched(r), ~Stub(path), swallowed => swallowed',
             Descend(l, r, world.links[r], world.names[r])
      PROVE  MapInv'
  <2>1. StagedAs(r) = {} /\ r \notin world.known
    BY <1>8 DEF Unmatched, FindStaged, InMain
  <2>2. Depth(Append(Top.path, l[1])) <= MaxDepth
    BY <1>2, <1>7, <1>8
  <2> QED
    BY <1>4, <1>5, <1>6, <1>8, <2>1, <2>2, DescendKeeps
<1>9. ASSUME NEW r, Matched(l, r)
      PROVE  MapInv'
  BY <1>4, <1>5, <1>9, MatchedKeeps
<1>10. ASSUME Follow(l, {}), UNCHANGED <<ids, swallowed>>
       PROVE  MapInv'
  <2>1. {} \in SUBSET Findable
    OBVIOUS
  <2> QED
    BY <1>4, <1>5, <1>10, <2>1, FollowKeeps
<1>11. CASE Matched(l, rec)
  BY <1>9, <1>11
<1>12. CASE Throw /\ UNCHANGED <<ids, swallowed>>
  <2>1. stack' = SubSeq(stack, 1, Len(stack) - 1)
    BY <1>12 DEF Throw
  <2>2. UNCHANGED <<world, staged, order, ids, swallowed>> /\ asks' \subseteq asks
    BY <1>5, <1>12
  <2> QED
    BY <1>4, <2>1, <2>2, ThrowKeeps
<1>13. CASE Follow(l, {}) /\ UNCHANGED <<ids, swallowed>>
  BY <1>10, <1>13
<1>14. CASE Unmatched(rec) /\ Descend(l, rec, {}, <<>>) /\ UNCHANGED swallowed
  <2>1. StagedAs(rec) = {} /\ rec \notin world.known
    BY <1>14 DEF Unmatched, FindStaged, InMain
  <2>2. PICK e : e = <<>>
    OBVIOUS
  <2>3. PICK none : none = {}
    OBVIOUS
  <2>4. e \in Seq(NamesOf(world)) /\ none \in SUBSET world.links[rec]
        /\ (none # {} => Depth(Append(Top.path, l[1])) <= MaxDepth)
    BY <2>2, <2>3
  <2>5. Descend(l, rec, none, e) /\ (swallowed => swallowed')
    BY <1>14, <2>2, <2>3
  <2> QED
    BY <1>4, <1>5, <1>6, <2>1, <2>4, <2>5, DescendKeeps
<1>15. CASE /\ Unmatched(rec) /\ ~Stub(path) /\ UNCHANGED swallowed
            /\ Descend(l, rec, world.links[rec], world.names[rec])
  BY <1>6, <1>8, <1>15
<1>16. CASE Matched(l, same)
  BY <1>9, <1>16
<1>17. CASE /\ Unmatched(same) /\ ~Stub(path) /\ UNCHANGED swallowed
            /\ Descend(l, same, world.links[same], world.names[same])
  BY <1>6, <1>8, <1>17
<1>18. CASE /\ FindStaged(same) = {} /\ ~Stub(path) /\ swallowed' = TRUE
            /\ Descend(l, same, world.links[same], world.names[same])
  <2>1. StagedAs(same) = {}
    BY <1>18 DEF FindStaged
  <2>2. Depth(Append(Top.path, l[1])) <= MaxDepth
    BY <1>2, <1>7, <1>18
  <2> QED
    BY <1>4, <1>5, <1>6, <1>18, <2>1, <2>2, DescendKeeps
<1> QED
  BY <1>1, <1>2, <1>3, <1>11, <1>12, <1>13, <1>14, <1>15, <1>16, <1>17, <1>18 DEF Link
\* The path of a mapping is the path of an entity.
LEMMA TargetsAreSteps ==
  ASSUME NEW w, NEW p \in Seq(TargetsOf(w))
  PROVE  p \in Seq(StepsOf(w))
<1>1. TargetsOf(w) \subseteq StepsOf(w)
  BY DEF TargetsOf, StepsOf
<1> QED
  BY <1>1

\* All names at once.
LEMMA SplitKeeps ==
  ASSUME MapInv, Split
  PROVE  MapInv'
<1>1. stack # <<>> /\ UNCHANGED <<world, staged, order, ids, swallowed>>
  BY DEF Split, Mapping, changeSetVars
<1>2. /\ stack \in Seq(FrameType(world)) /\ Top \in FrameType(world)
      /\ Len(stack) \in DOMAIN stack /\ Findable \in SUBSET Nat
      /\ \A i \in DOMAIN stack : stack[i].refs \subseteq Findable
  BY <1>1, StackIs
<1>3. PICK path : path = Append(Top.path, "name")
  OBVIOUS
<1>4. PICK new : new = {i \in DOMAIN Top.names : StagedAs(Top.names[i]) = {}}
  OBVIOUS
<1>5. PICK found : found = UNION {StagedAs(Top.names[i]) : i \in DOMAIN Top.names \ new}
  OBVIOUS
<1>6. PICK chain : chain = Top.chain \cup {Top.rec}
  OBVIOUS
<1>7. PICK B : B = {[name |-> Top.names[i], n |-> i, by |-> Top.id, path |-> path,
                     chain |-> chain] : i \in new}
  OBVIOUS
<1>8. asks' = asks \cup B
  BY <1>3, <1>4, <1>6, <1>7 DEF Split
<1>9. stack' = [stack EXCEPT ![Len(stack)].names = <<>>, ![Len(stack)].refs = @ \cup found]
  BY <1>4, <1>5 DEF Split
<1>10. found \in SUBSET Findable
  BY <1>5 DEF StagedAs, Findable
<1>11. found \in SUBSET Nat
  BY <1>2, <1>10
<1>12. PICK g : g = [Top EXCEPT !.names = <<>>, !.refs = @ \cup found]
  OBVIOUS
<1>13. GoneOn(world, Top, g, found)
  BY <1>2, <1>11, <1>12, SplitsNames
<1>14. g \in FrameType(world) /\ Later(stack[Len(stack)], g) /\ g.refs \subseteq Findable
  BY <1>2, <1>10, <1>13 DEF GoneOn, Top
<1>15. stack' = [stack EXCEPT ![Len(stack)] = g]
  BY <1>2, <1>9, <1>12 DEF Top, FrameType
<1>16. Stepped(world, stack, stack', Findable, Len(stack)) /\ stack'[Len(stack)] = g
  BY <1>2, <1>14, <1>15, OneChanges
<1>17. MapOK(world, staged, order, ids, stack', asks, swallowed)
  BY <1>16, SteppedIsOK
<1>18. stack' # <<>> /\ stack'[Len(stack')].id = Top.id /\ stack'[Len(stack')].path = Top.path
  <2>1. stack' \in Seq(FrameType(world)) /\ Len(stack') = Len(stack)
    BY <1>16 DEF Stepped
  <2>2. stack'[Len(stack')] = g /\ stack' # <<>>
    BY <1>2, <1>16, <2>1
  <2> QED
    BY <1>13, <2>2 DEF GoneOn, Later
<1>19. B \in SUBSET AskType(world)
  <2>1. /\ Top.names \in Seq(NamesOf(world)) /\ Top.id \in Nat
        /\ Top.path \in Seq(TargetsOf(world)) /\ chain \in SUBSET RecordsOf(world)
    BY <1>2, <1>6 DEF FrameType
  <2>2. path \in Seq(StepsOf(world))
    <3>1. Top.path \in Seq(StepsOf(world))
      BY <2>1, TargetsAreSteps
    <3>2. "name" \in StepsOf(world)
      BY DEF StepsOf
    <3> QED
      BY <1>3, <3>1, <3>2, NextStep
  <2>3. \A i \in new : i \in Nat /\ Top.names[i] \in NamesOf(world)
    BY <1>4, <2>1
  <2> QED
    BY <1>7, <2>1, <2>2, <2>3 DEF AskType
<1>20. \A b \in B : /\ b.by = stack'[Len(stack')].id
                    /\ b.path = Append(stack'[Len(stack')].path, "name")
                    /\ \A k \in DOMAIN staged : staged[k].src # b.name
  <2>1. ASSUME NEW i \in new, NEW k \in DOMAIN staged
        PROVE  staged[k].src # Top.names[i]
    BY <1>4 DEF StagedAs
  <2> QED
    BY <1>3, <1>7, <1>18, <2>1
<1>21. MapOK(world, staged, order, ids, stack', asks \cup B, swallowed)
  BY <1>17, <1>18, <1>19, <1>20, MapAsks
<1> QED
  BY <1>1, <1>8, <1>21 DEF MapInv

\* What the answer to a question may use.
LEMMA AskIs ==
  ASSUME MapInv, NEW a \in asks
  PROVE  /\ a.name \in NamesOf(world) /\ a.by \in Nat /\ a.path \in Seq(StepsOf(world))
         /\ a.chain \in SUBSET RecordsOf(world)
         /\ a.path # <<>> /\ Len(a.path) <= MaxLen
<1>1. a \in AskType(world) /\ AskOK(staged, ids, stack, a)
  BY DEF MapInv, MapOK
<1> QED
  BY <1>1 DEF AskType, AskOK

\* A question rejected.
LEMMA AnswerFailsKeeps ==
  ASSUME MapInv, NEW a, AnswerFails(a)
  PROVE  MapInv'
<1>1. asks' \subseteq asks /\ UNCHANGED <<world, staged, order, ids, swallowed>>
  BY DEF AnswerFails
<1>2. CASE stack # <<>> /\ Throw
  BY <1>1, <1>2, ThrowKeeps DEF Throw
<1>3. CASE stack' = stack
  <2>1. /\ stack \in Seq(FrameType(world))
        /\ \A i \in DOMAIN stack : stack[i].refs \subseteq Findable
        /\ Len(stack) \in Nat
    BY StackIs
  <2>2. \A i \in DOMAIN stack : Later(stack[i], stack[i])
    BY DEF Later
  <2>3. Stepped(world, stack, stack, Findable, Len(stack))
    BY <2>1, <2>2 DEF Stepped, GoesOn
  <2>4. MapOK(world, staged, order, ids, stack, asks', swallowed)
    BY <1>1, <2>3, SteppedIsOK
  <2> QED
    BY <1>1, <1>3, <2>4 DEF MapInv
<1> QED
  BY <1>2, <1>3 DEF AnswerFails
\* Entities are staged in addition, for the mapping of b.
Grows(S, T, b) ==
  /\ DOMAIN S \subseteq DOMAIN T
  /\ \A k \in DOMAIN S : T[k].refs = S[k].refs /\ T[k].by = S[k].by
  /\ \A k \in DOMAIN T \ DOMAIN S : T[k].by = b

\* A question answered, with an entity staged or without.
LEMMA AnswerKeeps ==
  ASSUME MapInv, world \in Worlds, pending \in BOOLEAN, NEW a, Answer(a)
  PROVE  /\ MapInv' /\ Grows(staged, staged', a.by)
         /\ DOMAIN staged' \subseteq DOMAIN staged \cup {ids + 1}
<1>1. a \in asks /\ asks' = asks \ {a} /\ UNCHANGED <<world, swallowed>>
  BY DEF Answer
<1>2. /\ stack \in Seq(FrameType(world)) /\ ids \in Nat /\ Findable \in SUBSET Nat
      /\ \A i \in DOMAIN stack : stack[i].refs \subseteq Findable
  BY StackIs
<1>3. MapOK(world, staged, order, ids, stack, asks, swallowed)
  BY DEF MapInv
<1>4. CASE Named(a, {}) /\ UNCHANGED <<ids, staged, order>>
  <2>1. PICK y : y = {}
    OBVIOUS
  <2>2. stack' = FoundBy(stack, a.by, y)
    BY <1>4, <2>1 DEF Named, FoundBy
  <2>3. y \in SUBSET Nat /\ y \subseteq Findable
    BY <2>1
  <2>4. Stepped(world, stack, stack', Findable, Len(stack))
    BY <1>2, <2>2, <2>3, NamedSteps
  <2>5. MapOK(world, staged, order, ids, stack', asks \ {a}, swallowed)
    BY <2>4, SteppedIsOK
  <2> QED
    BY <1>1, <1>4, <2>5 DEF MapInv, Grows
<1>5. CASE /\ ~InMain(a.name)
           /\ Stage(ids + 1, a.name, a.path, {}, a.by, a.chain)
           /\ ids' = ids + 1 /\ Named(a, {ids + 1})
  <2>1. PICK none : none = {}
    OBVIOUS
  <2>2. PICK id : id = ids + 1
    OBVIOUS
  <2>3. id \in Nat /\ id \notin DOMAIN staged /\ id # Root
    <3>1. DOMAIN staged \subseteq 0..ids
      BY <1>3 DEF MapOK
    <3> QED
      BY <1>2, <2>2, <3>1 DEF Root
  <2>4. /\ a.name \in RecordsOf(world) \cup NamesOf(world)
        /\ a.path \in Seq(StepsOf(world)) /\ Len(a.path) <= MaxLen
        /\ a.path # <<>> /\ (id = Root <=> a.path = <<>>)
        /\ none \in SUBSET Nat /\ a.by \in Nat \cup {NoParent}
        /\ a.chain \in SUBSET RecordsOf(world)
    BY <1>1, <2>1, <2>3, AskIs
  <2>5. Stage(id, a.name, a.path, none, a.by, a.chain)
    BY <1>5, <2>1, <2>2
  <2>6. PICK new \in EntryType(world) :
          Fresh(new, a.name, a.path, none, a.by, a.chain) /\ Staging(id, new)
    BY <2>3, <2>4, <2>5, StageStep
  <2>7. /\ new.src = a.name /\ new.path = a.path /\ new.refs = {} /\ new.by = a.by
        /\ new.parent = IF a.path = <<>> THEN NoParent ELSE Root
    BY <2>1, <2>6 DEF Fresh
  <2>8. Joined(world, staged, staged', ids + 1, new) /\ TreeShape(staged')
        /\ order' = Append(order, ids + 1)
    BY <2>2, <2>6 DEF Staging
  <2>9. PICK y : y = {id}
    OBVIOUS
  <2>10. stack' = FoundBy(stack, a.by, y)
    BY <1>5, <2>2, <2>9 DEF Named, FoundBy
  <2>11. PICK R : R = DOMAIN staged \cup {Root, id}
    OBVIOUS
  <2>12. y \in SUBSET Nat /\ y \subseteq R
         /\ \A j \in DOMAIN stack : stack[j].refs \subseteq R
    BY <1>2, <2>3, <2>11, <2>9 DEF Findable
  <2>13. /\ Stepped(world, stack, stack', R, Len(stack))
         /\ \A i \in DOMAIN stack' : stack'[i].id = a.by => y \subseteq stack'[i].refs
    BY <1>2, <2>10, <2>12, NamedSteps
  <2>14. /\ stack' \in Seq(FrameType(world)) /\ GoesOn(stack, stack')
         /\ Len(stack') = Len(stack)
         /\ \A i \in DOMAIN stack' : stack'[i].refs \subseteq DOMAIN staged \cup {Root, ids + 1}
         /\ \A i \in DOMAIN stack' : stack'[i].id = a.by => ids + 1 \in stack'[i].refs
    BY <2>2, <2>11, <2>13, <2>9 DEF Stepped
  <2>15. WorldOK(world) /\ a.name \notin world.known
    BY <1>5, WorldsAreOK DEF InMain
  <2>16. MapOK(world, staged', Append(order, ids + 1), ids + 1, stack', asks \ {a}, swallowed)
    BY <1>1, <1>3, <2>7, <2>8, <2>14, <2>15, MapNamed
  <2>17. MapInv'
    BY <1>1, <1>5, <2>8, <2>16 DEF MapInv
  <2>18. Grows(staged, staged', a.by) /\ DOMAIN staged' \subseteq DOMAIN staged \cup {ids + 1}
    BY <2>7, <2>8 DEF Joined, SameEntry, Grows
  <2> QED
    BY <2>17, <2>18
<1> QED
  BY <1>4, <1>5 DEF Answer

\* One mapping ends and the one above has found something.
FoundUnder(s, y) == [SubSeq(s, 1, Len(s) - 1) EXCEPT ![Len(s) - 1].refs = @ \cup y]

\* The topmost mapping ends, and the one above finds its entity.
LEMMA TopEndsFound ==
  ASSUME NEW w, NEW s \in Seq(FrameType(w)), Len(s) > 1,
         NEW y \in SUBSET Nat, NEW R, y \subseteq R, \A j \in DOMAIN s : s[j].refs \subseteq R,
         NEW t, t = FoundUnder(s, y)
  PROVE  Stepped(w, s, t, R, Len(s) - 1) /\ y \subseteq t[Len(s) - 1].refs
<1>1. PICK u : u = SubSeq(s, 1, Len(s) - 1)
  OBVIOUS
<1>2. PICK n : n = Len(s) - 1
  OBVIOUS
<1>3. s # <<>> /\ n \in Nat \ {0} /\ DOMAIN s = 1..Len(s)
  BY <1>2
<1>4. Stepped(w, s, u, R, n) /\ \A i \in 1..n : u[i] = s[i]
  BY <1>1, <1>2, <1>3, TopEnds
<1>5. u \in Seq(FrameType(w)) /\ GoesOn(s, u) /\ Len(u) = n
      /\ \A i \in DOMAIN u : u[i].refs \subseteq R
  BY <1>4 DEF Stepped
<1>6. n \in DOMAIN u /\ u[n] \in FrameType(w)
  BY <1>3, <1>5
<1>7. PICK f : f = [u[n] EXCEPT !.refs = @ \cup y]
  OBVIOUS
<1>8. GoneOn(w, u[n], f, y)
  BY <1>6, <1>7, FindsMore
<1>9. f \in FrameType(w) /\ Later(u[n], f) /\ f.refs \subseteq R /\ y \subseteq f.refs
  BY <1>5, <1>6, <1>8 DEF GoneOn
<1>10. t = [u EXCEPT ![n] = f]
  BY <1>1, <1>2, <1>6, <1>7 DEF FoundUnder
<1>11. Stepped(w, u, t, R, n) /\ t[n] = f
  <2>1. /\ u \in Seq(FrameType(w)) /\ n \in DOMAIN u /\ f \in FrameType(w)
        /\ Later(u[n], f) /\ f.refs \subseteq R
        /\ \A j \in DOMAIN u : u[j].refs \subseteq R
    BY <1>5, <1>6, <1>9
  <2>2. Stepped(w, u, [u EXCEPT ![n] = f], R, Len(u)) /\ [u EXCEPT ![n] = f][n] = f
    BY <2>1, OneChanges
  <2> QED
    BY <1>5, <1>10, <2>2
<1>12. t \in Seq(FrameType(w)) /\ Len(t) = n /\ GoesOn(u, t)
       /\ \A i \in DOMAIN t : t[i].refs \subseteq R
  BY <1>11 DEF Stepped
<1>13. DOMAIN t = DOMAIN u
  BY <1>5, <1>12
<1>14. GoesOn(s, t)
  BY <1>5, <1>12, <1>13 DEF GoesOn, Later
<1> QED
  BY <1>2, <1>9, <1>11, <1>12, <1>14 DEF Stepped
\* A mapping done; the root is staged when its own is.
LEMMA DoneKeeps ==
  ASSUME MapInv, world \in Worlds, pending \in BOOLEAN, Done
  PROVE  MapInv' /\ (Len(stack) = 1 => Root \in DOMAIN staged')
<1>1. PICK f : f = Top
  OBVIOUS
<1>2. PICK by : by = IF Len(stack) = 1 THEN NoParent ELSE stack[Len(stack) - 1].id
  OBVIOUS
<1>3. /\ stack # <<>> /\ UNCHANGED <<world, asks, ids, swallowed>>
      /\ Stage(f.id, f.rec, f.path, f.refs, by, f.chain)
      /\ \A a \in asks : a.by # f.id
  BY <1>1, <1>2 DEF Done, Mapping
<1>4. /\ stack \in Seq(FrameType(world)) /\ f \in FrameType(world) /\ f = stack[Len(stack)]
      /\ Len(stack) \in DOMAIN stack /\ Findable \in SUBSET Nat /\ Len(stack) \in Nat
      /\ DOMAIN stack = 1..Len(stack)
      /\ \A i \in DOMAIN stack : stack[i].refs \subseteq Findable
  BY <1>1, <1>3, StackIs DEF Top
<1>5. MapOK(world, staged, order, ids, stack, asks, swallowed)
  BY DEF MapInv
<1>6. /\ f.id \notin DOMAIN staged /\ f.id \in Nat /\ Len(f.path) <= MaxLen
      /\ (f.id = Root <=> f.path = <<>>) /\ (f.id = Root <=> Len(stack) = 1)
      /\ f.refs \subseteq Findable
  <2>1. Frame1(world, DOMAIN staged, ids, stack, Len(stack)) /\ Len(stack) <= MaxLen
    BY <1>4, <1>5 DEF MapOK, Frames
  <2>2. Len(f.path) = Len(stack) - 1 /\ f.path \in Seq(TargetsOf(world)) /\ f.id \in Nat
    BY <1>4, <2>1 DEF Frame1, FrameType
  <2>3. Len(f.path) = 0 <=> f.path = <<>>
    <3>1. PICK p : p = f.path
      OBVIOUS
    <3>2. p \in Seq(TargetsOf(world))
      BY <2>2, <3>1
    <3>3. Len(p) = 0 <=> p = <<>>
      BY <3>2
    <3> QED
      BY <3>1, <3>3
  <2>4. \A n, d \in Nat : (n - 1 = 0 <=> n = 1) /\ (n <= d => n - 1 <= d)
    OBVIOUS
  <2>5. Len(stack) \in Nat
    BY <1>4
  <2>6. Len(f.path) <= MaxLen
    BY <2>1, <2>2, <2>4, <2>5, MaxLenIsNat, Zenon
  <2>7. f.id \notin DOMAIN staged /\ (f.id = Root <=> Len(stack) = 1) /\ f.refs \subseteq Findable
    BY <1>4, <2>1 DEF Frame1, Findable
  <2>8. Len(f.path) = 0 <=> Len(stack) = 1
    BY <2>2, <2>4, <2>5, Zenon
  <2> QED
    BY <2>2, <2>3, <2>6, <2>7, <2>8, Zenon
<1>7. /\ f.rec \in RecordsOf(world) \cup NamesOf(world) /\ f.path \in Seq(StepsOf(world))
      /\ f.refs \in SUBSET Nat /\ f.chain \in SUBSET RecordsOf(world)
  <2>1. /\ f.rec \in RecordsOf(world) /\ f.path \in Seq(TargetsOf(world))
        /\ f.refs \in SUBSET Nat /\ f.chain \in SUBSET RecordsOf(world)
    BY <1>4 DEF FrameType
  <2> QED
    BY <2>1, TargetsAreSteps
<1>8. by \in Nat \cup {NoParent} /\ (Len(stack) > 1 => by = stack[Len(stack) - 1].id)
  <2>1. CASE Len(stack) = 1
    BY <1>2, <2>1
  <2>2. CASE Len(stack) # 1
    <3>1. Len(stack) - 1 \in DOMAIN stack
      BY <1>4, <2>2
    <3>2. stack[Len(stack) - 1] \in FrameType(world)
      BY <1>4, <3>1
    <3> QED
      BY <1>2, <2>2, <3>2 DEF FrameType
  <2> QED
    BY <2>1, <2>2
<1>9. PICK new \in EntryType(world) :
        Fresh(new, f.rec, f.path, f.refs, by, f.chain) /\ Staging(f.id, new)
  BY <1>3, <1>6, <1>7, <1>8, StageStep
<1>10. /\ new.src = f.rec /\ new.path = f.path /\ new.refs = f.refs /\ new.chain = f.chain
       /\ new.parent = IF f.path = <<>> THEN NoParent ELSE Root
       /\ Len(stack) > 1 => new.by = stack[Len(stack) - 1].id
  BY <1>8, <1>9 DEF Fresh
<1>11. /\ Joined(world, staged, staged', f.id, new) /\ TreeShape(staged')
       /\ order' = Append(order, f.id)
  BY <1>9 DEF Staging
<1>12. /\ stack' \in Seq(FrameType(world)) /\ GoesOn(stack, stack')
       /\ Len(stack') = Len(stack) - 1
       /\ \A i \in DOMAIN stack' : stack'[i].refs \subseteq DOMAIN staged \cup {Root, f.id}
       /\ Len(stack) > 1 => f.id \in stack'[Len(stack) - 1].refs
  <2>1. CASE Len(stack) > 1
    <3>1. PICK y : y = {f.id}
      OBVIOUS
    <3>2. PICK R : R = DOMAIN staged \cup {Root, f.id}
      OBVIOUS
    <3>3. stack' = FoundUnder(stack, y)
      <4>1. y = {Top.id} /\ Len(stack) # 1
        <5>1. Len(stack) \in Nat
          BY <1>4
        <5>2. \A n \in Nat : n > 1 => n # 1
          OBVIOUS
        <5>3. Len(stack) # 1
          BY <2>1, <5>1, <5>2, Zenon
        <5> QED
          BY <1>1, <3>1, <5>3, Zenon
      <4> QED
        BY <4>1, Zenon DEF Done, FoundUnder
    <3>4. y \in SUBSET Nat /\ y \subseteq R /\ \A j \in DOMAIN stack : stack[j].refs \subseteq R
      BY <1>4, <1>6, <3>1, <3>2 DEF Findable
    <3>5. /\ Stepped(world, stack, stack', R, Len(stack) - 1)
          /\ y \subseteq stack'[Len(stack) - 1].refs
      <4>1. stack \in Seq(FrameType(world))
        BY <1>4
      <4> QED
        BY <2>1, <3>3, <3>4, <4>1, TopEndsFound
    <3> QED
      BY <3>1, <3>2, <3>5 DEF Stepped
  <2>2. CASE Len(stack) = 1
    <3>1. stack' = <<>>
      BY <2>2 DEF Done
    <3>2. stack' \in Seq(FrameType(world)) /\ Len(stack') = 0 /\ DOMAIN stack' = {}
      BY <3>1
    <3>3. Len(stack') = Len(stack) - 1 /\ Len(stack') <= Len(stack) /\ ~(Len(stack) > 1)
      BY <2>2, <3>2
    <3> QED
      BY <3>2, <3>3 DEF GoesOn
  <2>3. Len(stack) > 1 \/ Len(stack) = 1
    BY <1>4
  <2> QED
    BY <2>1, <2>2, <2>3, Zenon
<1>13. WorldOK(world)
  BY WorldsAreOK
<1>14. \A a \in asks : a.by # stack[Len(stack)].id
  BY <1>3, <1>4
<1>15. MapOK(world, staged', Append(order, f.id), ids, stack', asks, swallowed)
  BY <1>3, <1>4, <1>5, <1>10, <1>11, <1>12, <1>13, <1>14, MapDone
<1>16. MapInv'
  BY <1>3, <1>11, <1>15 DEF MapInv
<1>17. Len(stack) = 1 => Root \in DOMAIN staged'
  BY <1>6, <1>11 DEF Joined
<1> QED
  BY <1>16, <1>17

(***************************************************************************)
(* Review and application.                                                 *)
(***************************************************************************)
LEMMA ReviewKeeps ==
  ASSUME MapInv, NEW k \in DOMAIN staged, Review(k),
         UNCHANGED <<world, stack, asks, ids, swallowed>>
  PROVE  MapInv' /\ Alike(staged, staged')
<1>1. staged \in [DOMAIN staged -> EntryType(world)]
      /\ MapOK(world, staged, order, ids, stack, asks, swallowed)
  BY DEF MapInv, MapOK
<1>2. order' = order /\ staged' = [staged EXCEPT ![k].rejected = ~staged[k].rejected]
  BY DEF Review
<1>3. PICK e : e = [staged[k] EXCEPT !.rejected = ~staged[k].rejected]
  OBVIOUS
<1>4. DOMAIN staged' = DOMAIN staged
  BY <1>2
<1>5. staged'[k] = e /\ \A j \in DOMAIN staged : j # k => staged'[j] = staged[j]
  BY <1>1, <1>2, <1>3
<1>6. staged[k] \in EntryType(world)
  BY <1>1
<1>7. e \in EntryType(world)
  <2>1. PICK b \in BOOLEAN : b = ~staged[k].rejected
    BY <1>6 DEF EntryType
  <2>2. e = [staged[k] EXCEPT !.rejected = b]
    BY <1>3, <2>1
  <2> QED
    BY <1>6, <2>2 DEF EntryType
<1>8. /\ e.src = staged[k].src /\ e.path = staged[k].path /\ e.refs = staged[k].refs
      /\ e.by = staged[k].by /\ e.chain = staged[k].chain /\ e.parent = staged[k].parent
      /\ e.depth = staged[k].depth
  BY <1>3, <1>6 DEF EntryType
<1>9. Alike(staged, staged')
  BY <1>4, <1>5, <1>8 DEF Alike
<1>10. staged' \in [DOMAIN staged' -> EntryType(world)]
  <2>1. \A j \in DOMAIN staged' : staged'[j] \in EntryType(world)
    BY <1>1, <1>4, <1>5, <1>7
  <2>2. staged' = [j \in DOMAIN staged' |-> staged'[j]]
    BY <1>1, <1>2
  <2> QED
    BY <2>1, <2>2
<1>11. MapOK(world, staged', order, ids, stack, asks, swallowed)
  BY <1>1, <1>9, <1>10, MapReviewed
<1> QED
  BY <1>2, <1>9, <1>11 DEF MapInv
(***************************************************************************)
(* The import as a whole.                                                  *)
(***************************************************************************)
\* What still has to be stored refers to what is stored, or will be before it.
Applying ==
  /\ toApply # <<>> /\ ToSet(toApply) \subseteq DOMAIN staged
  /\ \A i \in DOMAIN toApply :
       staged[toApply[i]].refs \ left \subseteq
         DOMAIN stored \cup {toApply[j] : j \in 1..i} \cup Leads(staged)
  /\ \A k \in DOMAIN staged : \/ k \in DOMAIN stored \cup left \cup ToSet(toApply)
                              \/ Dead(DOMAIN staged, ids, stack, staged[k].by)
ApplyInv ==
  /\ phase \in Phases
  /\ phase = "mapping" <=> stack # <<>>
  /\ phase \in {"review", "applying", "applied"} => Root \in DOMAIN staged
  /\ phase \in {"mapping", "aborted"} => stored = <<>>
  /\ toApply \in Seq(0..ids) /\ left \subseteq 0..ids /\ DOMAIN stored \subseteq 0..ids
  /\ phase # "discarded" =>
       \A k \in DOMAIN stored : stored[k] \subseteq DOMAIN stored \cup Leads(staged)
  /\ phase = "applying" => Applying
Flags == pending \in BOOLEAN /\ swallowed \in BOOLEAN /\ failures \in 0..MaxFailures

ImportInv == world \in Worlds /\ Flags /\ MapInv /\ ApplyInv

\* Flags and counters keep their types.
LEMMA FlagsKeep ==
  ASSUME Flags, [Next]_vars
  PROVE  Flags'
<1>1. Fail => failures' \in 0..MaxFailures
  BY BoundsAssumption DEF Fail, Flags
<1>2. ASSUME NEW l, NEW rec, Matched(l, rec)
      PROVE  Flags'
  BY <1>2 DEF Matched, Flags
<1>3. ASSUME NEW l, Link(l)
      PROVE  Flags'
  BY <1>1, <1>2, <1>3 DEF Link, Flags
<1>4. Split => Flags'
  BY Zenon DEF Split, Flags
<1>5. Done => Flags'
  BY DEF Done, Stage, Flags
<1>6. ASSUME NEW a, Answer(a) \/ AnswerFails(a)
      PROVE  Flags'
  BY <1>1, <1>6 DEF Answer, AnswerFails, Stage, Flags
<1>7. ASSUME ReviewStep \/ ApplyStep, UNCHANGED <<pending, swallowed>>
      PROVE  Flags'
  BY <1>1, <1>7 DEF ReviewStep, ApplyStep, Review, ApplyAll, Discard, Upserted, UpsertFails, Flags
<1>8. UNCHANGED vars => Flags'
  BY DEF vars, Flags
<1> QED
  BY <1>3, <1>4, <1>5, <1>6, <1>7, <1>8 DEF Next, MapStep

\* A mapping goes on, is given up or is done.
LEMMA MappingApplies ==
  ASSUME ApplyInv, ids \in Nat, ids' \in Nat, ids <= ids', UNCHANGED <<toApply, left, stored>>,
         phase = "mapping", phase' \in {"mapping", "aborted", "review"},
         phase' = "mapping" <=> stack' # <<>>,
         phase' = "review" => Root \in DOMAIN staged'
  PROVE  ApplyInv'
<1>1. stored = <<>>
  BY DEF ApplyInv
<1>2. DOMAIN stored = {}
  BY <1>1
<1>3. 0..ids \subseteq 0..ids'
  OBVIOUS
<1>4. toApply \in Seq(0..ids') /\ left \subseteq 0..ids'
  BY <1>3 DEF ApplyInv
<1> QED
  BY <1>1, <1>2, <1>4 DEF ApplyInv, Phases

\* Answers that come when the mapping is over, and reviews.
LEMMA LaterApplies ==
  ASSUME ApplyInv, ids \in Nat, ids' \in Nat, ids <= ids', UNCHANGED <<toApply, left, stored>>,
         phase # "mapping", phase' = phase, stack' = stack,
         NEW b, Grows(staged, staged', b),
         DOMAIN staged' # DOMAIN staged => Dead(DOMAIN staged, ids, stack, b),
         NoneRevived(DOMAIN staged, ids, stack, DOMAIN staged', ids', stack')
  PROVE  ApplyInv'
<1>1. \A c : Dead(DOMAIN staged, ids, stack, c) => Dead(DOMAIN staged', ids', stack', c)
  BY DeadStayDead
<1>2. Leads(staged) \subseteq Leads(staged')
  BY LeadsGrows DEF Grows
<1>3. 0..ids \subseteq 0..ids'
  OBVIOUS
<1>4. toApply' \in Seq(0..ids') /\ left' \subseteq 0..ids' /\ DOMAIN stored' \subseteq 0..ids'
  BY <1>3 DEF ApplyInv
<1>5. phase' # "discarded" =>
        \A k \in DOMAIN stored' : stored'[k] \subseteq DOMAIN stored' \cup Leads(staged')
  BY <1>2 DEF ApplyInv
<1>6. ASSUME phase = "applying"
      PROVE  Applying'
  <2>1. Applying
    BY <1>6 DEF ApplyInv
  <2>2. toApply' # <<>> /\ ToSet(toApply') \subseteq DOMAIN staged'
    BY <2>1 DEF Applying, Grows
  <2>3. ASSUME NEW i \in DOMAIN toApply
        PROVE  staged'[toApply[i]].refs \ left \subseteq
                 DOMAIN stored \cup {toApply[j] : j \in 1..i} \cup Leads(staged')
    <3>1. toApply[i] \in DOMAIN staged
      BY <2>1 DEF Applying, ToSet
    <3>2. staged'[toApply[i]].refs = staged[toApply[i]].refs
      BY <3>1 DEF Grows
    <3> QED
      BY <2>1, <3>2, <1>2 DEF Applying
  <2>4. ASSUME NEW k \in DOMAIN staged'
        PROVE  \/ k \in DOMAIN stored \cup left \cup ToSet(toApply)
               \/ Dead(DOMAIN staged', ids', stack', staged'[k].by)
    <3>1. CASE k \in DOMAIN staged
      <4>1. staged'[k].by = staged[k].by
        BY <3>1 DEF Grows
      <4>2. \/ k \in DOMAIN stored \cup left \cup ToSet(toApply)
            \/ Dead(DOMAIN staged, ids, stack, staged[k].by)
        BY <2>1, <3>1 DEF Applying
      <4> QED
        BY <1>1, <4>1, <4>2
    <3>2. CASE k \notin DOMAIN staged
      <4>1. staged'[k].by = b /\ DOMAIN staged' # DOMAIN staged
        BY <3>2 DEF Grows
      <4> QED
        BY <1>1, <4>1
    <3> QED
      BY <3>1, <3>2
  <2> QED
    BY <2>2, <2>3, <2>4 DEF Applying
<1>7. /\ phase' \in Phases /\ (phase' = "mapping" <=> stack' # <<>>)
      /\ phase' \in {"review", "applying", "applied"} => Root \in DOMAIN staged'
      /\ phase' \in {"mapping", "aborted"} => stored' = <<>>
  BY DEF ApplyInv, Phases, Grows
<1> QED
  BY <1>4, <1>5, <1>6, <1>7 DEF ApplyInv
\* Only the empty sequence has no positions.
LEMMA DomainOfNone ==
  ASSUME NEW X, NEW s \in Seq(X)
  PROVE  s = <<>> <=> DOMAIN s = {}
<1>1. s # <<>> => 1 \in DOMAIN s
  OBVIOUS
<1> QED
  BY <1>1

\* What the steps need of the invariant.
LEMMA IdsAre ==
  ASSUME ImportInv
  PROVE  /\ ids \in Nat /\ DOMAIN staged \subseteq 0..ids /\ stack \in Seq(FrameType(world))
         /\ pending \in BOOLEAN /\ world \in Worlds /\ MapInv /\ ApplyInv
         /\ Lists(order, staged) /\ RefersBack(order, staged)
         /\ \A k \in DOMAIN staged : staged[k].depth \in Nat
<1>1. MapOK(world, staged, order, ids, stack, asks, swallowed)
  BY DEF ImportInv, MapInv
<1>2. staged \in [DOMAIN staged -> EntryType(world)]
  BY <1>1 DEF MapOK
<1>3. \A k \in DOMAIN staged : staged[k].depth \in Nat
  BY <1>2 DEF EntryType
<1> QED
  BY <1>1, <1>3 DEF ImportInv, Flags, MapOK, Frames

\* A mapping that steps but for Done.
LEMMA MappingGoesOn ==
  ASSUME ImportInv, MapInv', ids' \in Nat, ids <= ids', phase = "mapping",
         UNCHANGED <<toApply, left, stored>>,
         \/ stack' # <<>> /\ phase' = phase
         \/ Throw
  PROVE  ApplyInv'
<1>1. stack # <<>> /\ ApplyInv /\ stack \in Seq(FrameType(world)) /\ ids \in Nat
  BY IdsAre DEF ApplyInv
<1>2. phase' \in {"mapping", "aborted"} /\ (phase' = "mapping" <=> stack' # <<>>)
  <2>1. CASE stack' # <<>> /\ phase' = phase
    BY <2>1
  <2>2. CASE Throw
    <3>1. PICK n \in Nat : n = Len(stack)
      BY <1>1
    <3>2. n # 0
      BY <1>1, <3>1
    <3>3. stack' = SubSeq(stack, 1, n - 1) /\ phase' = IF n = 1 THEN "aborted" ELSE phase
      BY <2>2, <3>1 DEF Throw
    <3>4. stack' \in Seq(FrameType(world)) /\ Len(stack') = n - 1
      BY <1>1, <3>1, <3>2, <3>3
    <3>5. stack' # <<>> <=> n # 1
      BY <3>2, <3>4
    <3> QED
      BY <3>3, <3>5
  <2> QED
    BY <2>1, <2>2
<1> QED
  BY <1>1, <1>2, MappingApplies

\* Now the steps as a whole, the application included.
LEMMA LinkApplies ==
  ASSUME ImportInv, NEW l, Link(l)
  PROVE  MapInv' /\ ApplyInv'
<1>1. /\ ids \in Nat /\ stack \in Seq(FrameType(world)) /\ ApplyInv /\ MapInv /\ world \in Worlds
  BY IdsAre
<1>2. stack # <<>> /\ phase = "mapping"
  BY <1>1 DEF Link, Mapping, ApplyInv
<1>3. MapInv'
  BY <1>1, LinkKeeps
<1>4. UNCHANGED <<toApply, left, stored>>
  BY DEF Link
<1>5. ASSUME NEW found, Follow(l, found)
      PROVE  stack' # <<>>
  <2>1. stack' \in Seq(FrameType(world)') /\ DOMAIN stack' = DOMAIN stack
    BY <1>3, <1>5 DEF MapInv, MapOK, Frames, Follow
  <2>2. DOMAIN stack # {}
    BY <1>1, <1>2
  <2> QED
    BY <2>1, <2>2
<1>6. ASSUME NEW rec, Matched(l, rec)
      PROVE  stack' # <<>> /\ phase' = phase /\ ids' = ids
  BY <1>5, <1>6 DEF Matched
<1>7. ASSUME NEW rec, NEW links, NEW names, Descend(l, rec, links, names)
      PROVE  stack' # <<>> /\ ids' = ids + 1
  <2>1. PICK s, f : stack' = Append(s, f) /\ s = [stack EXCEPT ![Len(stack)].todo = @ \ {l}]
    BY <1>7 DEF Descend
  <2>2. \A i \in DOMAIN stack : i \in DOMAIN s
    BY <2>1
  <2>3. ids' = ids + 1
    BY <1>7 DEF Descend
  <2>4. Len(s) = Len(stack) /\ Len(s) \in Nat
    BY <1>1, <2>1
  <2>5. stack' # <<>>
    BY <2>1, <2>4
  <2> QED
    BY <2>3, <2>5
<1>8. ids' \in Nat /\ ids <= ids' /\ (Throw \/ (stack' # <<>> /\ phase' = phase))
  <2>1. ids' = ids \/ ids' = ids + 1
    BY <1>6, <1>7 DEF Link
  <2>2. Throw \/ (stack' # <<>> /\ phase' = phase)
    BY <1>5, <1>6, <1>7 DEF Link
  <2> QED
    BY <1>1, <2>1, <2>2
<1> QED
  BY <1>2, <1>3, <1>4, <1>8, MappingGoesOn

\* Split.
LEMMA SplitApplies ==
  ASSUME ImportInv, Split
  PROVE  MapInv' /\ ApplyInv'
<1>1. /\ ids \in Nat /\ stack \in Seq(FrameType(world)) /\ ApplyInv /\ MapInv
  BY IdsAre
<1>2. stack # <<>> /\ phase = "mapping"
  BY <1>1 DEF Split, Mapping, ApplyInv
<1>3. MapInv'
  BY <1>1, SplitKeeps
<1>4. UNCHANGED <<ids, toApply, left, stored, phase>>
  BY DEF Split, changeSetVars
<1>5. DOMAIN stack' = DOMAIN stack
  BY DEF Split
<1>6. stack' # <<>>
  <2>1. DOMAIN stack # {}
    BY <1>1, <1>2, DomainOfNone
  <2> QED
    BY <1>5, <2>1
<1>7. ids' \in Nat /\ ids <= ids'
  BY <1>1, <1>4
<1> QED
  BY <1>2, <1>3, <1>4, <1>6, <1>7, MappingGoesOn

\* Done: a review begins with the root staged.
LEMMA DoneApplies ==
  ASSUME ImportInv, Done
  PROVE  MapInv' /\ ApplyInv'
<1>1. /\ ids \in Nat /\ stack \in Seq(FrameType(world)) /\ ApplyInv /\ MapInv
      /\ pending \in BOOLEAN /\ world \in Worlds
  BY IdsAre
<1>2. stack # <<>> /\ phase = "mapping"
  BY <1>1 DEF Done, Mapping, ApplyInv
<1>3. MapInv' /\ (Len(stack) = 1 => Root \in DOMAIN staged')
  BY <1>1, DoneKeeps
<1>4. UNCHANGED <<ids, toApply, left, stored>> /\ ids' \in Nat /\ ids <= ids'
  BY <1>1 DEF Done
<1>5. CASE Len(stack) = 1
  <2>1. phase' = "review" /\ stack' = <<>>
    BY <1>5 DEF Done
  <2>2. Root \in DOMAIN staged'
    BY <1>3, <1>5
  <2>3. phase' \in {"mapping", "aborted", "review"} /\ (phase' = "mapping" <=> stack' # <<>>)
    BY <2>1
  <2> QED
    BY <1>1, <1>2, <1>3, <1>4, <2>2, <2>3, MappingApplies
<1>6. CASE Len(stack) # 1
  <2>1. phase' = phase /\ DOMAIN stack' = DOMAIN SubSeq(stack, 1, Len(stack) - 1)
    BY <1>6 DEF Done
  <2>2. Len(stack) \in Nat \ {0, 1}
    BY <1>1, <1>2, <1>6
  <2>3. DOMAIN SubSeq(stack, 1, Len(stack) - 1) # {}
    <3>1. PICK n \in Nat \ {0, 1} : n = Len(stack)
      BY <2>2
    <3>2. PICK u : u = SubSeq(stack, 1, n - 1)
      OBVIOUS
    <3>3. DOMAIN u = 1..(n - 1)
      BY <1>1, <3>1, <3>2
    <3>4. 1 \in DOMAIN u
      BY <3>1, <3>3
    <3> QED
      BY <3>1, <3>2, <3>4
  <2>4. stack' # <<>>
    BY <2>1, <2>3
  <2> QED
    BY <1>2, <1>3, <1>4, <2>1, <2>4, MappingGoesOn
<1> QED
  BY <1>5, <1>6
\* AnswerFails, during the mapping or after it.
LEMMA AnswerFailsApplies ==
  ASSUME ImportInv, NEW a, AnswerFails(a)
  PROVE  MapInv' /\ ApplyInv'
<1>1. /\ ids \in Nat /\ stack \in Seq(FrameType(world)) /\ ApplyInv /\ MapInv
      /\ DOMAIN staged \subseteq 0..ids
  BY IdsAre
<1>2. MapInv'
  BY <1>1, AnswerFailsKeeps
<1>3. UNCHANGED <<ids, staged, toApply, left, stored>> /\ ids' \in Nat /\ ids <= ids'
  BY <1>1 DEF AnswerFails
<1>4. (stack # <<>> /\ Throw) \/ UNCHANGED <<stack, phase>>
  BY DEF AnswerFails
<1>5. CASE phase = "mapping"
  <2>1. Throw \/ (stack' # <<>> /\ phase' = phase)
    BY <1>1, <1>4, <1>5 DEF ApplyInv
  <2> QED
    BY <1>2, <1>3, <1>5, <2>1, MappingGoesOn
<1>6. CASE phase # "mapping"
  <2>1. stack = <<>> /\ UNCHANGED <<stack, phase>>
    BY <1>1, <1>4, <1>6 DEF ApplyInv
  <2>2. Grows(staged, staged', 0) /\ DOMAIN staged' = DOMAIN staged
    BY <1>3 DEF Grows
  <2>3. NoneRevived(DOMAIN staged, ids, stack, DOMAIN staged', ids', stack')
    BY <1>1, <1>3, <2>1 DEF NoneRevived
  <2> QED
    BY <1>1, <1>2, <1>3, <1>6, <2>1, <2>2, <2>3, LaterApplies
<1> QED
  BY <1>5, <1>6

\* Answer, during the mapping or after it.
LEMMA AnswerApplies ==
  ASSUME ImportInv, NEW a, Answer(a)
  PROVE  MapInv' /\ ApplyInv'
<1>1. /\ ids \in Nat /\ stack \in Seq(FrameType(world)) /\ ApplyInv /\ MapInv
      /\ pending \in BOOLEAN /\ world \in Worlds /\ DOMAIN staged \subseteq 0..ids
  BY IdsAre
<1>2. /\ MapInv' /\ Grows(staged, staged', a.by)
      /\ DOMAIN staged' \subseteq DOMAIN staged \cup {ids + 1}
  BY <1>1, AnswerKeeps
<1>3. a \in asks /\ UNCHANGED <<phase, toApply, left, stored>>
  BY DEF Answer
<1>4. ids' = ids \/ ids' = ids + 1
  BY DEF Answer
<1>5. ids' \in Nat /\ ids <= ids'
  BY <1>1, <1>4
<1>6. DOMAIN stack' = DOMAIN stack
  BY DEF Answer, Named
<1>7. stack' # <<>> <=> stack # <<>>
  <2>1. stack' \in Seq(FrameType(world)')
    BY <1>2 DEF MapInv, MapOK, Frames
  <2>2. \A X : \A s \in Seq(X) : s = <<>> <=> DOMAIN s = {}
    BY DomainOfNone
  <2> QED
    BY <1>1, <1>6, <2>1, <2>2
<1>8. CASE phase = "mapping"
  <2>1. stack' # <<>> /\ phase' = phase
    BY <1>1, <1>3, <1>7, <1>8 DEF ApplyInv
  <2> QED
    BY <1>2, <1>3, <1>5, <1>8, <2>1, MappingGoesOn
<1>9. CASE phase # "mapping"
  <2>1. stack = <<>> /\ stack' = stack /\ DOMAIN stack = {}
    <3>1. stack = <<>> /\ stack' = <<>>
      BY <1>1, <1>7, <1>9 DEF ApplyInv
    <3> QED
      BY <3>1
  <2>2. Dead(DOMAIN staged, ids, stack, a.by)
    BY <1>1, <1>3, <2>1 DEF MapInv, MapOK, AskOK, AtTop
  <2>3. NoneRevived(DOMAIN staged, ids, stack, DOMAIN staged', ids', stack')
    BY <1>1, <1>2, <1>5, <2>1 DEF NoneRevived
  <2> QED
    BY <1>1, <1>2, <1>3, <1>5, <1>9, <2>1, <2>2, <2>3, LaterApplies
<1> QED
  BY <1>8, <1>9

\* Review, before the application or during it.
LEMMA ReviewApplies ==
  ASSUME ImportInv, NEW k \in DOMAIN staged, Review(k),
         UNCHANGED <<world, stack, asks, ids, swallowed>>
  PROVE  MapInv' /\ ApplyInv'
<1>1. /\ ids \in Nat /\ ApplyInv /\ MapInv /\ DOMAIN staged \subseteq 0..ids
  BY IdsAre
<1>2. MapInv' /\ Alike(staged, staged')
  BY <1>1, ReviewKeeps
<1>3. phase # "mapping" /\ phase' = phase /\ UNCHANGED <<toApply, left, stored>>
  BY DEF Review
<1>4. Grows(staged, staged', 0) /\ DOMAIN staged' = DOMAIN staged
  BY <1>2 DEF Alike, Grows
<1>5. NoneRevived(DOMAIN staged, ids, stack, DOMAIN staged', ids', stack')
  BY <1>1, <1>4 DEF NoneRevived
<1>6. ids' \in Nat /\ ids <= ids' /\ stack' = stack
  BY <1>1
<1> QED
  BY <1>1, <1>2, <1>3, <1>4, <1>5, <1>6, LaterApplies

\* Discard.
LEMMA DiscardApplies ==
  ASSUME ImportInv, Discard, UNCHANGED <<world, stack, asks, ids, swallowed>>
  PROVE  MapInv' /\ ApplyInv'
<1>1. phase = "review" /\ phase' = "discarded" /\ staged' = <<>> /\ order' = <<>>
      /\ UNCHANGED <<toApply, left, stored>>
  BY DEF Discard
<1>2. ApplyInv /\ MapInv
  BY IdsAre
<1>3. stack = <<>>
  BY <1>1, <1>2 DEF ApplyInv
<1>4. MapOK(world, <<>>, <<>>, ids, stack, asks, swallowed)
  BY <1>2, <1>3, MapDiscarded DEF MapInv
<1>5. MapInv'
  BY <1>1, <1>4 DEF MapInv
<1>6. ApplyInv'
  BY <1>1, <1>2, <1>3 DEF ApplyInv, Phases
<1> QED
  BY <1>5, <1>6
SameImport == UNCHANGED <<world, stack, asks, ids, swallowed, staged, order>>

\* What does not touch the change set keeps what is known of it.
LEMMA SameImportKeeps ==
  ASSUME ImportInv, SameImport
  PROVE  /\ MapInv' /\ Leads(staged)' = Leads(staged)
         /\ \A c : Dead(DOMAIN staged, ids, stack, c)' <=> Dead(DOMAIN staged, ids, stack, c)
BY IdsAre DEF SameImport, MapInv

\* ApplyAll orders what it is going to store.
LEMMA ApplyAllApplies ==
  ASSUME ImportInv, ApplyAll, SameImport
  PROVE  /\ MapInv' /\ ApplyInv'
         /\ phase' = "applied" => DOMAIN staged \ left' = {}
<1>1. /\ ids \in Nat /\ ApplyInv /\ DOMAIN staged \subseteq 0..ids
      /\ Lists(order, staged) /\ RefersBack(order, staged)
      /\ \A k \in DOMAIN staged : staged[k].depth \in Nat
  BY IdsAre
<1>2. PICK S : S = DOMAIN staged \ Rejected
  OBVIOUS
<1>3. /\ phase = "review" /\ toApply' = ApplyOrder(S) /\ left' = Rejected
      /\ phase' = IF toApply' = <<>> THEN "applied" ELSE "applying"
      /\ UNCHANGED <<staged, order, stored>>
  BY <1>2 DEF ApplyAll
<1>4. S \in SUBSET DOMAIN staged /\ Rejected \subseteq DOMAIN staged
  BY <1>2 DEF Rejected
<1>5. Serves(S, ApplyOrder(S))
  BY <1>1, <1>4, ApplyOrderServes
<1>6. /\ toApply' \in Seq(S) /\ ToSet(toApply') = S
      /\ \A i \in DOMAIN toApply' :
           staged[toApply'[i]].refs \cap S \subseteq {toApply'[j] : j \in 1..i} \cup Leads(staged)
  BY <1>3, <1>5 DEF Serves
<1>7. MapInv' /\ Leads(staged)' = Leads(staged)
  BY SameImportKeeps
<1>8. \A k \in DOMAIN staged : staged[k].refs \subseteq DOMAIN staged \cup {Root}
  BY <1>1, ReferencesStandEarlier
<1>9. Root \in Leads(staged)
  BY LeadsIsClosed DEF Closed
<1>10. ASSUME NEW i \in DOMAIN toApply'
       PROVE  staged[toApply'[i]].refs \ left' \subseteq
                DOMAIN stored \cup {toApply'[j] : j \in 1..i} \cup Leads(staged)
  <2>1. toApply'[i] \in DOMAIN staged
    BY <1>4, <1>6
  <2>2. staged[toApply'[i]].refs \subseteq DOMAIN staged \cup {Root}
    BY <1>8, <2>1
  <2>3. staged[toApply'[i]].refs \ left' \subseteq (staged[toApply'[i]].refs \cap S) \cup {Root}
    BY <1>2, <1>3, <2>2
  <2> QED
    BY <1>6, <1>9, <2>3
<1>11. phase' = "applying" => Applying'
  <2>1. ASSUME toApply' # <<>>
        PROVE  Applying'
    <3>1. ToSet(toApply') \subseteq DOMAIN staged'
      BY <1>3, <1>4, <1>6
    <3>2. \A k \in DOMAIN staged' : k \in DOMAIN stored' \cup left' \cup ToSet(toApply')
      BY <1>2, <1>3, <1>6
    <3>3. \A i \in DOMAIN toApply' :
            staged'[toApply'[i]].refs \ left' \subseteq
              DOMAIN stored' \cup {toApply'[j] : j \in 1..i} \cup Leads(staged')
      BY <1>3, <1>7, <1>10
    <3> QED
      BY <2>1, <3>1, <3>2, <3>3 DEF Applying
  <2> QED
    BY <1>3, <2>1
<1>12. phase' \in {"applied", "applying"} /\ Root \in DOMAIN staged' /\ stack' = stack
  BY <1>1, <1>3 DEF ApplyInv, SameImport
<1>13. toApply' \in Seq(0..ids') /\ left' \subseteq 0..ids' /\ DOMAIN stored' \subseteq 0..ids'
  <2>1. S \subseteq 0..ids
    BY <1>1, <1>4
  <2>2. toApply' \in Seq(0..ids)
    <3>1. PICK q : q = toApply'
      OBVIOUS
    <3>2. PICK D : D = 0..ids
      OBVIOUS
    <3>3. q \in Seq(S) /\ S \subseteq D
      BY <1>6, <2>1, <3>1, <3>2
    <3>4. q \in Seq(D)
      BY <3>3
    <3> QED
      BY <3>1, <3>2, <3>4
  <2> QED
    BY <1>1, <1>3, <1>4, <2>2 DEF ApplyInv, SameImport
<1>14. \A k \in DOMAIN stored' : stored'[k] \subseteq DOMAIN stored' \cup Leads(staged')
  BY <1>1, <1>3, <1>7 DEF ApplyInv
<1>15. ApplyInv'
  BY <1>1, <1>3, <1>11, <1>12, <1>13, <1>14 DEF ApplyInv, Phases
<1>16. phase' = "applied" => DOMAIN staged \ left' = {}
  <2>1. phase' = "applied" => toApply' = <<>>
    BY <1>3
  <2>2. toApply' = <<>> => ToSet(toApply') = {}
    BY DEF ToSet
  <2> QED
    BY <1>2, <1>3, <1>6, <2>1, <2>2
<1> QED
  BY <1>7, <1>15, <1>16

\* One more entity is stored.
LEMMA StoreIs ==
  ASSUME ImportInv, Applying, phase = "applying"
  PROVE  LET h == Head(toApply)
             T == Store(h)
         IN  /\ h = toApply[1] /\ h \in DOMAIN staged /\ DOMAIN T = DOMAIN stored \cup {h}
             /\ \A k \in DOMAIN T : T[k] \subseteq DOMAIN T \cup Leads(staged)
<1>1. toApply \in Seq(0..ids) /\ toApply # <<>> /\ ToSet(toApply) \subseteq DOMAIN staged
      /\ \A k \in DOMAIN stored : stored[k] \subseteq DOMAIN stored \cup Leads(staged)
  BY IdsAre DEF ApplyInv, Applying
<1>2. PICK h : h = Head(toApply)
  OBVIOUS
<1>3. h = toApply[1] /\ 1 \in DOMAIN toApply /\ h \in ToSet(toApply)
  <2>1. h = toApply[1] /\ 1 \in DOMAIN toApply
    BY <1>1, <1>2
  <2> QED
    BY <2>1 DEF ToSet
<1>4. staged[h].refs \ left \subseteq DOMAIN stored \cup {h} \cup Leads(staged)
  <2>1. staged[toApply[1]].refs \ left \subseteq
          DOMAIN stored \cup {toApply[j] : j \in 1..1} \cup Leads(staged)
    BY <1>3 DEF Applying
  <2>2. {toApply[j] : j \in 1..1} = {h}
    BY <1>3
  <2> QED
    BY <1>3, <2>1, <2>2
<1>5. PICK T : T = Store(h)
  OBVIOUS
<1>6. DOMAIN T = DOMAIN stored \cup {h}
      /\ \A k \in DOMAIN T : T[k] = IF k = h THEN staged[h].refs \ left ELSE stored[k]
  BY <1>5 DEF Store
<1>7. \A k \in DOMAIN T : T[k] \subseteq DOMAIN T \cup Leads(staged)
  BY <1>1, <1>4, <1>6
<1> QED
  BY <1>1, <1>2, <1>3, <1>5, <1>6, <1>7
\* Upserted stores the next; when none is left, all are stored, left out or abandoned.
LEMMA UpsertedApplies ==
  ASSUME ImportInv, Upserted, SameImport
  PROVE  /\ MapInv' /\ ApplyInv'
         /\ phase' = "applied" =>
              \A k \in DOMAIN staged : \/ k \in DOMAIN stored' \cup left'
                                       \/ Dead(DOMAIN staged, ids, stack, staged[k].by)
<1>1. ids \in Nat /\ ApplyInv /\ DOMAIN staged \subseteq 0..ids
  BY IdsAre
<1>2. PICK h : h = Head(toApply)
  OBVIOUS
<1>3. PICK q : q = Tail(toApply)
  OBVIOUS
<1>4. /\ phase = "applying" /\ stored' = Store(h) /\ toApply' = q
      /\ phase' = IF q = <<>> THEN "applied" ELSE phase
      /\ UNCHANGED <<staged, order, left>>
  BY <1>2, <1>3 DEF Upserted
<1>5. Applying
  BY <1>1, <1>4 DEF ApplyInv
<1>6. /\ h = toApply[1] /\ h \in DOMAIN staged /\ DOMAIN stored' = DOMAIN stored \cup {h}
      /\ \A k \in DOMAIN stored' : stored'[k] \subseteq DOMAIN stored' \cup Leads(staged)
  BY <1>2, <1>4, <1>5, StoreIs
<1>7. MapInv' /\ Leads(staged)' = Leads(staged)
      /\ \A c : Dead(DOMAIN staged, ids, stack, c)' <=> Dead(DOMAIN staged, ids, stack, c)
  BY SameImportKeeps
<1>8. PICK n \in Nat \ {0} : n = Len(toApply)
  BY <1>1, <1>5 DEF ApplyInv, Applying
<1>9. /\ q \in Seq(0..ids) /\ DOMAIN q = 1..(n - 1) /\ DOMAIN toApply = 1..n
      /\ \A i \in 1..(n - 1) : q[i] = toApply[i + 1]
  <2>1. toApply \in Seq(0..ids) /\ toApply # <<>>
    BY <1>1, <1>5 DEF ApplyInv, Applying
  <2> QED
    BY <1>3, <1>8, <2>1
<1>10. \A i \in 1..n : toApply[i] = h \/ (i - 1 \in 1..(n - 1) /\ q[i - 1] = toApply[i])
  <2>1. ASSUME NEW i \in 1..n, i # 1
        PROVE  i - 1 \in 1..(n - 1) /\ (i - 1) + 1 = i
    BY <1>8, <2>1
  <2> QED
    BY <1>6, <1>9, <2>1
<1>11. ToSet(toApply) \subseteq {h} \cup ToSet(q) /\ ToSet(q) \subseteq ToSet(toApply)
  <2>1. ToSet(toApply) \subseteq {h} \cup ToSet(q)
    BY <1>9, <1>10 DEF ToSet
  <2>2. \A i \in 1..(n - 1) : i + 1 \in 1..n
    BY <1>8
  <2> QED
    BY <1>9, <2>1, <2>2 DEF ToSet
<1>12. ASSUME NEW i \in DOMAIN q
       PROVE  staged[q[i]].refs \ left \subseteq
                DOMAIN stored' \cup {q[j] : j \in 1..i} \cup Leads(staged)
  <2>1. i \in 1..(n - 1) /\ i + 1 \in 1..n /\ i \in Nat
    BY <1>8, <1>9
  <2>2. staged[toApply[i + 1]].refs \ left \subseteq
          DOMAIN stored \cup {toApply[j] : j \in 1..(i + 1)} \cup Leads(staged)
    BY <1>5, <1>9, <2>1 DEF Applying
  <2>3. {toApply[j] : j \in 1..(i + 1)} \subseteq {h} \cup {q[j] : j \in 1..i}
    <3>1. ASSUME NEW j \in 1..(i + 1)
          PROVE  j \in 1..n /\ (j - 1 \in 1..(n - 1) => j - 1 \in 1..i)
      BY <1>8, <2>1
    <3> QED
      BY <1>10, <3>1
  <2> QED
    BY <1>6, <1>9, <2>1, <2>2, <2>3
<1>13. \A k \in DOMAIN staged : \/ k \in DOMAIN stored' \cup left \cup ToSet(q)
                                \/ Dead(DOMAIN staged, ids, stack, staged[k].by)
  BY <1>5, <1>6, <1>11 DEF Applying
<1>14. phase' = "applying" => Applying'
  <2>1. ASSUME q # <<>>
        PROVE  Applying'
    <3>1. toApply' # <<>> /\ ToSet(toApply') \subseteq DOMAIN staged'
      BY <1>4, <1>5, <1>11, <2>1 DEF Applying
    <3>2. \A i \in DOMAIN toApply' :
            staged'[toApply'[i]].refs \ left' \subseteq
              DOMAIN stored' \cup {toApply'[j] : j \in 1..i} \cup Leads(staged')
      BY <1>4, <1>7, <1>12
    <3>3. \A k \in DOMAIN staged' : \/ k \in DOMAIN stored' \cup left' \cup ToSet(toApply')
                                    \/ Dead(DOMAIN staged', ids', stack', staged'[k].by)
      BY <1>4, <1>7, <1>13
    <3> QED
      BY <3>1, <3>2, <3>3 DEF Applying
  <2> QED
    BY <1>4, <2>1
<1>15. ApplyInv'
  <2>1. phase' \in {"applying", "applied"} /\ Root \in DOMAIN staged' /\ stack' = stack
    BY <1>1, <1>4 DEF ApplyInv, SameImport
  <2>2. toApply' \in Seq(0..ids') /\ left' \subseteq 0..ids' /\ DOMAIN stored' \subseteq 0..ids'
    BY <1>1, <1>4, <1>6, <1>9 DEF ApplyInv, SameImport
  <2>3. \A k \in DOMAIN stored' : stored'[k] \subseteq DOMAIN stored' \cup Leads(staged')
    BY <1>6, <1>7
  <2> QED
    BY <1>1, <1>4, <1>14, <2>1, <2>2, <2>3 DEF ApplyInv, Phases
<1>16. phase' = "applied" =>
         \A k \in DOMAIN staged : \/ k \in DOMAIN stored' \cup left'
                                  \/ Dead(DOMAIN staged, ids, stack, staged[k].by)
  <2>1. phase' = "applied" => ToSet(q) = {}
    BY <1>4 DEF ToSet
  <2> QED
    BY <1>4, <1>13, <2>1
<1> QED
  BY <1>7, <1>15, <1>16

\* UpsertFails leaves what was stored in order, whether the last was stored or not.
LEMMA UpsertFailsApplies ==
  ASSUME ImportInv, UpsertFails, SameImport
  PROVE  MapInv' /\ ApplyInv' /\ phase' = "review"
<1>1. ids \in Nat /\ ApplyInv /\ DOMAIN staged \subseteq 0..ids
  BY IdsAre
<1>2. PICK h : h = Head(toApply)
  OBVIOUS
<1>3. /\ phase = "applying" /\ stored' \in {stored, Store(h)} /\ toApply' = <<>>
      /\ phase' = "review" /\ UNCHANGED <<staged, order, left>>
  BY <1>2 DEF UpsertFails
<1>4. Applying
  BY <1>1, <1>3 DEF ApplyInv
<1>5. /\ h \in DOMAIN staged /\ DOMAIN Store(h) = DOMAIN stored \cup {h}
      /\ \A k \in DOMAIN Store(h) : Store(h)[k] \subseteq DOMAIN Store(h) \cup Leads(staged)
  BY <1>2, <1>3, <1>4, StoreIs
<1>6. MapInv' /\ Leads(staged)' = Leads(staged)
  BY SameImportKeeps
<1>7. /\ DOMAIN stored' \subseteq 0..ids
      /\ \A k \in DOMAIN stored' : stored'[k] \subseteq DOMAIN stored' \cup Leads(staged)
  <2>1. CASE stored' = stored
    BY <1>1, <1>3, <2>1 DEF ApplyInv
  <2>2. CASE stored' = Store(h)
    BY <1>1, <1>5, <2>2 DEF ApplyInv
  <2> QED
    BY <1>3, <2>1, <2>2
<1>8. ApplyInv'
  <2>1. Root \in DOMAIN staged' /\ stack' = stack /\ ids' = ids
    BY <1>1, <1>3 DEF ApplyInv, SameImport
  <2>2. toApply' \in Seq(0..ids')
    BY <1>3
  <2> QED
    BY <1>1, <1>3, <1>6, <1>7, <2>1, <2>2 DEF ApplyInv, Phases
<1> QED
  BY <1>3, <1>6, <1>8
\* The initial states.
LEMMA ImportBegins ==
  ASSUME Init
  PROVE  ImportInv
<1>1. world \in Worlds /\ WorldOK(world)
  BY WorldsAreOK DEF Init
<1>2. PICK f : f = Frame(Root, RootRecord, <<>>, world.links[RootRecord],
                         world.names[RootRecord], {})
  OBVIOUS
<1>3. stack = <<f>>
  BY <1>2 DEF Init
<1>4. MapOK(world, <<>>, <<>>, 0, stack, {}, FALSE)
  BY <1>1, <1>2, <1>3, MapBegins
<1>5. MapInv
  BY <1>4 DEF Init, MapInv
<1>6. Flags
  <2>1. pending = FALSE /\ swallowed = FALSE /\ failures = 0
    BY DEF Init
  <2>2. 0 \in 0..MaxFailures
    BY BoundsAssumption
  <2> QED
    BY <2>1, <2>2 DEF Flags
<1>7. ApplyInv
  <2>1. /\ phase = "mapping" /\ stored = <<>> /\ left = {} /\ ids = 0 /\ toApply = <<>>
        /\ stack # <<>>
    BY <1>3 DEF Init
  <2>2. DOMAIN stored = {} /\ toApply \in Seq(0..ids)
    BY <2>1
  <2> QED
    BY <2>1, <2>2 DEF ApplyInv, Phases
<1> QED
  BY <1>1, <1>5, <1>6, <1>7 DEF ImportInv

\* Every step.
LEMMA ImportStep ==
  ASSUME ImportInv, [Next]_vars
  PROVE  ImportInv'
<1>1. Flags'
  BY FlagsKeep DEF ImportInv
<1>2. world' = world
  BY DEF Next, MapStep, Link, Split, Done, Answer, AnswerFails, vars
<1> SUFFICES MapInv' /\ ApplyInv'
  BY <1>1, <1>2 DEF ImportInv
<1>3. CASE \E l : Link(l)
  BY <1>3, LinkApplies
<1>4. CASE Split
  BY <1>4, SplitApplies
<1>5. CASE Done
  BY <1>5, DoneApplies
<1>6. CASE \E a : Answer(a) \/ AnswerFails(a)
  BY <1>6, AnswerApplies, AnswerFailsApplies
<1>7. CASE ReviewStep /\ UNCHANGED <<world, stack, asks, pending, ids, swallowed>>
  <2>1. UNCHANGED <<world, stack, asks, ids, swallowed>>
    BY <1>7
  <2>2. CASE \E k \in DOMAIN staged : Review(k)
    BY <2>1, <2>2, ReviewApplies
  <2>3. CASE ApplyAll
    <3>1. SameImport
      BY <2>1, <2>3 DEF ApplyAll, SameImport
    <3> QED
      BY <2>3, <3>1, ApplyAllApplies
  <2>4. CASE Discard
    BY <2>1, <2>4, DiscardApplies
  <2> QED
    BY <1>7, <2>2, <2>3, <2>4 DEF ReviewStep
<1>8. CASE ApplyStep /\ UNCHANGED <<world, stack, asks, pending, ids, swallowed>>
  <2>1. SameImport
    BY <1>8 DEF ApplyStep, Upserted, UpsertFails, SameImport
  <2> QED
    BY <1>8, <2>1, UpsertedApplies, UpsertFailsApplies DEF ApplyStep
<1>9. CASE UNCHANGED vars
  <2>1. MapInv /\ ApplyInv
    BY DEF ImportInv
  <2>2. /\ SameImport /\ UNCHANGED <<phase, toApply, left, stored>>
    BY <1>9 DEF vars, changeSetVars, SameImport
  <2>3. MapInv'
    BY <2>1, <2>2 DEF MapInv, SameImport
  <2>4. Applying => Applying'
    BY <2>2 DEF Applying, SameImport
  <2>5. ApplyInv'
    BY <2>1, <2>2, <2>4 DEF ApplyInv, SameImport
  <2> QED
    BY <2>3, <2>5
<1> QED
  BY <1>3, <1>4, <1>5, <1>6, <1>7, <1>8, <1>9 DEF Next, MapStep

\* The invariant of the import holds always.
LEMMA ImportInvariant == Spec => []ImportInv
<1>1. Init => ImportInv
  BY ImportBegins
<1>2. ImportInv /\ [Next]_vars => ImportInv'
  BY ImportStep
<1> QED
  BY <1>1, <1>2, PTL DEF Spec

(***************************************************************************)
(* The theorems.                                                           *)
(***************************************************************************)
LEMMA AbandonedIsDead ==
  ASSUME NEW k, Dead(DOMAIN staged, ids, stack, staged[k].by)
  PROVE  Abandoned(k)
BY DEF Dead, Abandoned

\* The properties follow from the invariant.
LEMMA ImportIsTyped ==
  ASSUME ImportInv
  PROVE  TypeOK
<1>1. /\ ids \in Nat /\ stack \in Seq(FrameType(world)) /\ ApplyInv
      /\ DOMAIN staged \subseteq 0..ids /\ Lists(order, staged) /\ RefersBack(order, staged)
  BY IdsAre
<1>2. MapOK(world, staged, order, ids, stack, asks, swallowed)
  BY DEF ImportInv, MapInv
<1>3. Records = RecordsOf(world) /\ Sources = RecordsOf(world) \cup NamesOf(world)
  BY DEF Records, Sources, RecordsOf, NamesOf
<1>4. Len(stack) <= (MaxDepth + 1) \div 2 + 2
  BY <1>2 DEF MapOK, Frames, MaxLen
<1>5. \A i \in DOMAIN stack : stack[i].id \in Ids /\ stack[i].rec \in Records
  <2>1. \A i \in DOMAIN stack : stack[i].id \in 0..ids
    BY <1>2 DEF MapOK, Frames, Frame1
  <2>2. \A i \in DOMAIN stack : stack[i] \in FrameType(world)
    BY <1>1
  <2> QED
    BY <1>3, <2>1, <2>2 DEF FrameType, Ids
<1>6. \A a \in asks : a.name \in Sources /\ a.by \in Ids
  <2>1. \A a \in asks : a.by \in 0..ids
    BY <1>2 DEF MapOK, AskOK
  <2>2. \A a \in asks : a.name \in NamesOf(world)
    BY <1>2 DEF MapOK, AskType
  <2> QED
    BY <1>3, <2>1, <2>2 DEF Ids
<1>7. DOMAIN staged \subseteq Ids /\ ToSet(order) = DOMAIN staged
  BY <1>1 DEF Ids, Lists
<1>8. ASSUME NEW k \in DOMAIN staged
      PROVE  /\ staged[k].src \in Sources /\ staged[k].refs \subseteq Ids
             /\ staged[k].parent \in Ids \cup {NoParent} /\ staged[k].depth \in Nat
             /\ staged[k].rejected \in BOOLEAN /\ staged[k].matched \in BOOLEAN
  <2>1. staged[k] \in EntryType(world)
    BY <1>2 DEF MapOK
  <2>2. /\ staged[k].src \in RecordsOf(world) \cup NamesOf(world) /\ staged[k].depth \in Nat
        /\ staged[k].rejected \in BOOLEAN /\ staged[k].matched \in BOOLEAN
    BY <2>1 DEF EntryType
  <2>3. Root \in Ids
    BY <1>1 DEF Root, Ids
  <2>4. staged[k].refs \subseteq Ids
    <3>1. \A r \in staged[k].refs : r = Root \/ r \in DOMAIN staged
      BY <1>1, ReferencesStandEarlier
    <3> QED
      BY <1>7, <2>3, <3>1
  <2>5. staged[k].parent \in Ids \cup {NoParent}
    <3>1. TreeShape(staged)
      BY <1>2 DEF MapOK
    <3>2. k = Root => staged[k].parent = NoParent
      BY <3>1 DEF TreeShape
    <3>3. k # Root => staged[k].parent = Root \/ staged[k].parent \in DOMAIN staged
      BY <3>1 DEF TreeShape
    <3> QED
      BY <1>7, <2>3, <3>2, <3>3
  <2> QED
    BY <1>3, <2>2, <2>4, <2>5
<1>9. ToSet(toApply) \cup left \cup DOMAIN stored \subseteq Ids
  <2>1. toApply \in Seq(0..ids) /\ left \subseteq 0..ids /\ DOMAIN stored \subseteq 0..ids
    BY <1>1 DEF ApplyInv
  <2>2. ToSet(toApply) \subseteq 0..ids
    <3>1. PICK D : D = 0..ids
      OBVIOUS
    <3>2. toApply \in Seq(D)
      BY <2>1, <3>1
    <3>3. \A i \in DOMAIN toApply : toApply[i] \in D
      BY <3>2
    <3> QED
      BY <3>1, <3>3 DEF ToSet
  <2> QED
    BY <2>1, <2>2 DEF Ids
<1>10. world \in Worlds /\ phase \in Phases /\ pending \in BOOLEAN /\ swallowed \in BOOLEAN
       /\ failures \in 0..MaxFailures
  BY <1>1 DEF ImportInv, Flags, ApplyInv
<1> QED
  BY <1>4, <1>5, <1>6, <1>7, <1>8, <1>9, <1>10 DEF TypeOK
\* Whatever is staged, stored, asked for or being mapped is of its type, and mappings nest
\* no deeper than the authority is asked (createEntityWithAuthoritativeLink's maxDepth),
\* even when records refer to each other in a circle.
THEOREM ImportStaysTyped == Spec => []TypeOK
BY ImportInvariant, ImportIsTyped, PTL

\* Position and Before say the same.
LEMMA ImportHasOneEach ==
  ASSUME ImportInv
  PROVE  OneEntityPerRecord
<1>1. MapOK(world, staged, order, ids, stack, asks, swallowed)
  BY DEF ImportInv, MapInv
<1>2. OneEach(world, staged, ids, stack, order, swallowed) /\ Lists(order, staged)
  BY <1>1 DEF MapOK
<1>3. ASSUME NEW i \in DOMAIN staged, NEW j \in DOMAIN staged,
             staged[i].src = staged[j].src, Position(j) < Position(i)
      PROVE  \/ staged[i].src \in staged[j].chain
             \/ /\ staged[i].src \notin Records
                /\ staged[i].by = staged[j].by \/ Abandoned(i) \/ Abandoned(j)
  <2>1. Before(order, j, i)
    <3>1. /\ Position(j) \in DOMAIN order /\ order[Position(j)] = j
          /\ Position(i) \in DOMAIN order /\ order[Position(i)] = i
      BY <1>2, Positions
    <3> QED
      BY <1>3, <3>1 DEF Before
  <2>2. Excused(world, staged, ids, stack, i, j)
    BY <1>2, <1>3, <2>1 DEF OneEach
  <2> QED
    BY <2>2, AbandonedIsDead DEF Excused, Records, RecordsOf
<1>4. \A i \in DOMAIN staged \ {Root} : staged[i].src \in world.known => swallowed
  BY <1>2 DEF OneEach
<1> QED
  BY <1>3, <1>4 DEF OneEntityPerRecord

\* A record or a name that several others refer to is staged once, but for the excuses the
\* property names (findStagedByAuthority, searched before the main store and before a new
\* entity is made).
THEOREM OneEntityForEachRecord == Spec => []OneEntityPerRecord
BY ImportInvariant, ImportHasOneEach, PTL

\* In a review no mapping is under way, so no entity waits for its cause.
LEMMA ImportHasCauses ==
  ASSUME ImportInv
  PROVE  ParentIsCause
<1>1. MapOK(world, staged, order, ids, stack, asks, swallowed) /\ ApplyInv
  BY DEF ImportInv, MapInv
<1>2. Caused(staged, ids, stack) /\ TreeShape(staged)
      /\ staged \in [DOMAIN staged -> EntryType(world)]
  BY <1>1 DEF MapOK
<1>3. ASSUME phase \in {"review", "applying", "applied"}, NEW k \in DOMAIN staged \ {Root}
      PROVE  \/ Abandoned(k)
             \/ /\ staged[k].parent = staged[k].by
                /\ staged[k].depth = staged[staged[k].by].depth + 1
                /\ k \in staged[staged[k].by].refs
  <2>1. stack = <<>> /\ DOMAIN stack = {}
    <3>1. stack = <<>>
      BY <1>1, <1>3 DEF ApplyInv
    <3> QED
      BY <3>1
  <2>2. Dead(DOMAIN staged, ids, stack, staged[k].by) \/ UnderCause(staged, k)
    BY <1>2, <2>1 DEF Caused, CauseOf
  <2>3. CASE Dead(DOMAIN staged, ids, stack, staged[k].by)
    BY <2>3, AbandonedIsDead
  <2>4. CASE UnderCause(staged, k)
    <3>1. PICK b : b = staged[k].by
      OBVIOUS
    <3>2. /\ b \in DOMAIN staged /\ staged[k].parent = b /\ k \in staged[b].refs
          /\ Len(staged[k].path) = Len(staged[b].path) + 1
      BY <2>4, <3>1 DEF UnderCause
    <3>3. CASE b = Root
      <4>1. staged[b].depth = 0 /\ staged[b].path = <<>>
        BY <1>2, <3>2, <3>3 DEF TreeShape
      <4>2. Len(staged[k].path) = 1 /\ staged[k].path # <<>>
        BY <3>2, <4>1
      <4>3. Depth(staged[k].path) = 1
        BY <4>2 DEF Depth
      <4>4. staged[k].depth = 1
        BY <1>2, <3>2, <3>3, <4>3 DEF TreeShape
      <4> QED
        BY <3>1, <3>2, <4>1, <4>4
    <3>4. CASE b # Root
      <4>1. staged[k].depth = staged[b].depth + 1
        BY <1>2, <3>2, <3>4 DEF TreeShape
      <4> QED
        BY <3>1, <3>2, <4>1
    <3> QED
      BY <3>3, <3>4
  <2> QED
    BY <2>2, <2>3, <2>4
<1> QED
  BY <1>3 DEF ParentIsCause

\* In the tree the user reviews, an entity stands one level below the entity in whose
\* mapping it was created (reparentFallbackChildren, with the depths of
\* recomputeDepthSubtree), unless that mapping was given up.
THEOREM ParentsAreCauses == Spec => []ParentIsCause
BY ImportInvariant, ImportHasCauses, PTL

\* What leads to the root is circular.
LEMMA ImportDoesNotDangle ==
  ASSUME ImportInv
  PROVE  NoDanglingReference
<1>1. /\ ApplyInv /\ Lists(order, staged) /\ RefersBack(order, staged)
  BY IdsAre
<1>2. ASSUME phase # "discarded", stored # <<>>
      PROVE  UNION {stored[k] : k \in DOMAIN stored} \subseteq DOMAIN stored \cup Circular
  <2>1. Root \in DOMAIN staged
    BY <1>1, <1>2 DEF ApplyInv, Phases
  <2>2. Leads(staged) \subseteq Circular
    BY <1>1, <2>1, LeadsAreCircular
  <2>3. \A k \in DOMAIN stored : stored[k] \subseteq DOMAIN stored \cup Leads(staged)
    BY <1>1, <1>2 DEF ApplyInv
  <2> QED
    BY <2>2, <2>3
<1> QED
  BY <1>2 DEF NoDanglingReference

\* Whenever the application of the change set stops, stored entities refer to stored
\* entities only, but for what refers back to the root (referenceFirstApplyOrder, which
\* takes an entity after all that it refers to).
THEOREM NothingDangles == Spec => []NoDanglingReference
BY ImportInvariant, ImportDoesNotDangle, PTL

\* Only ApplyAll and Upserted complete an application.
LEMMA ApplyStepCompletes ==
  ASSUME ImportInv, [Next]_vars, phase # "applied", phase' = "applied",
         NEW k \in DOMAIN staged \ left'
  PROVE  k \in DOMAIN stored' \/ Abandoned(k)
<1>1. MapStep => phase' \in {phase, "aborted", "review"}
  <2>1. ASSUME NEW l, NEW rec, Matched(l, rec)
        PROVE  phase' = phase
    BY <2>1 DEF Matched
  <2>2. ASSUME NEW l, Link(l)
        PROVE  phase' \in {phase, "aborted"}
    BY <2>1, <2>2 DEF Link, Throw
  <2>3. Split \/ Done => phase' \in {phase, "review"}
    BY DEF Split, Done, changeSetVars
  <2>4. ASSUME NEW a, Answer(a) \/ AnswerFails(a)
        PROVE  phase' \in {phase, "aborted"}
    BY <2>4 DEF Answer, AnswerFails, Throw
  <2> QED
    BY <2>2, <2>3, <2>4 DEF MapStep
<1>2. ~MapStep /\ ~UNCHANGED vars
  BY <1>1 DEF vars, changeSetVars
<1>3. (ReviewStep \/ ApplyStep) /\ UNCHANGED <<world, stack, asks, pending, ids, swallowed>>
  BY <1>2 DEF Next
<1>4. ApplyAll \/ Upserted
  BY <1>3 DEF ReviewStep, ApplyStep, Review, Discard, UpsertFails
<1>5. SameImport
  BY <1>3, <1>4 DEF ApplyAll, Upserted, SameImport
<1>6. CASE ApplyAll
  BY <1>5, <1>6, ApplyAllApplies
<1>7. CASE Upserted
  <2>1. k \in DOMAIN stored' \cup left' \/ Dead(DOMAIN staged, ids, stack, staged[k].by)
    BY <1>5, <1>7, UpsertedApplies
  <2> QED
    BY <2>1, AbandonedIsDead
<1> QED
  BY <1>4, <1>6, <1>7

\* An application reported as complete (applyAll emits "applied") has stored everything
\* staged that was not rejected when it began, circular references included, but for
\* entities whose mapping was given up.
THEOREM AppliedHasStoredAll == Spec => AppliedIsComplete
<1>1. ImportInv /\ [Next]_vars =>
        [phase # "applied" /\ phase' = "applied" =>
           \A k \in DOMAIN staged \ left' : k \in DOMAIN stored' \/ Abandoned(k)]_vars
  BY ApplyStepCompletes
<1> QED
  BY <1>1, ImportInvariant, PTL DEF Spec, AppliedIsComplete
====
