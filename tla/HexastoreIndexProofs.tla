------------------------- MODULE HexastoreIndexProofs -------------------------
(***************************************************************************)
(* Proofs about what the database holds.  The three indexes agree whatever *)
(* fails, and a range read from any of them finds what matches.  While no  *)
(* transaction fails, the term dictionary and its caches stay consistent,  *)
(* a pattern read gives exactly the matching quads, and the buffered,      *)
(* queued and batched writes implement the store of QuadStore.             *)
(***************************************************************************)
EXTENDS QuadReads, HexastoreProofs, FiniteSetTheorems

Keys == [1..4 -> Ids]

\* The indexes of one database hold the same quads.
Agree(db) == \A x \in Indexes : db.idx[x] = {Key(x, k) : k \in db.idx["spo"]}
IndexInv  == IInv /\ Agree(disk) /\ Agree(work)

\* In the index spo a key is the quad itself.
LEMMA SpoKey ==
  ASSUME NEW S, NEW k \in [1..4 -> S]
  PROVE  Key("spo", k) = k
<1>1. Permutation["spo"] = <<1, 2, 3, 4>>
  BY DEF Permutation
<1>2. \A i \in 1..4 : <<1, 2, 3, 4>>[i] = i
  OBVIOUS
<1>3. \A i \in 1..4 : Permutation["spo"][i] = i
  BY <1>1, <1>2
<1> QED
  BY <1>3 DEF Key

\* Each permutation of the components is its own inverse, so decodeKey undoes the
\* key functions.
LEMMA KeyTwice ==
  ASSUME NEW x \in Indexes, NEW S, NEW k \in [1..4 -> S]
  PROVE  Key(x, k) \in [1..4 -> S] /\ Key(x, Key(x, k)) = k
<1>1. /\ \A i \in 1..4 : Permutation[x][i] \in 1..4
      /\ \A i \in 1..4 : Permutation[x][Permutation[x][i]] = i
  <2>1. CASE x = "spo"
    <3>1. Permutation[x] = <<1, 2, 3, 4>>
      BY <2>1 DEF Permutation
    <3> QED
      BY <3>1
  <2>2. CASE x = "ops"
    <3>1. Permutation[x] = <<3, 2, 1, 4>>
      BY <2>2 DEF Permutation
    <3> QED
      BY <3>1
  <2>3. CASE x = "pso"
    <3>1. Permutation[x] = <<2, 1, 3, 4>>
      BY <2>3 DEF Permutation
    <3> QED
      BY <3>1
  <2> QED
    BY <2>1, <2>2, <2>3 DEF Indexes
<1>2. Key(x, k) \in [1..4 -> S]
  BY <1>1 DEF Key
<1>3. \A i \in 1..4 : Key(x, Key(x, k))[i] = k[i]
  BY <1>1 DEF Key
<1>4. Key(x, Key(x, k)) \in [1..4 -> S]
  BY <1>1, <1>2 DEF Key
<1> QED
  BY <1>2, <1>3, <1>4

\* A put into all three stores keeps them in agreement.
LEMMA PutAgrees ==
  ASSUME NEW T, NEW db \in [terms : T, idx : [Indexes -> SUBSET Keys]],
         NEW S, NEW ids \in [1..4 -> S], Agree(db)
  PROVE  Agree(Put(db, ids))
<1>1. db.idx \in [Indexes -> SUBSET Keys] /\ "spo" \in Indexes
  BY DEF Indexes
<1>2. \A x \in Indexes : Put(db, ids).idx[x] = db.idx[x] \cup {Key(x, ids)}
  BY <1>1 DEF Put
<1>3. Put(db, ids).idx["spo"] = db.idx["spo"] \cup {ids}
  BY <1>1, <1>2, SpoKey
<1>4. \A x \in Indexes : db.idx[x] = {Key(x, k) : k \in db.idx["spo"]}
  BY DEF Agree
<1> QED
  BY <1>2, <1>3, <1>4 DEF Agree

\* A delete from all three stores keeps them in agreement: no two quads share a key.
LEMMA RemoveAgrees ==
  ASSUME NEW db \in DbOf, NEW ids \in Keys, Agree(db)
  PROVE  Agree(Remove(db, ids))
<1>1. db.idx \in [Indexes -> SUBSET Keys] /\ "spo" \in Indexes
  BY DEF DbOf, Keys, Indexes
<1>2. \A x \in Indexes : Remove(db, ids).idx[x] = db.idx[x] \ {Key(x, ids)}
  BY <1>1 DEF Remove, DbOf
<1>3. Remove(db, ids).idx["spo"] = db.idx["spo"] \ {ids}
  BY <1>1, <1>2, SpoKey DEF Keys
<1>4. \A x \in Indexes : db.idx[x] = {Key(x, k) : k \in db.idx["spo"]}
  BY DEF Agree
<1>5. \A x \in Indexes : \A k \in db.idx["spo"] : Key(x, k) = Key(x, ids) => k = ids
  <2> TAKE x \in Indexes
  <2> TAKE k \in db.idx["spo"]
  <2>1. k \in Keys
    BY <1>1
  <2> QED
    BY <2>1, KeyTwice DEF Keys
<1> QED
  BY <1>2, <1>3, <1>4, <1>5 DEF Agree
-----------------------------------------------------------------------------
\* What an addition leaves in the indexes of the running transaction agrees.
LEMMA AddStepAgrees ==
  ASSUME IndexInv, AddStep
  PROVE  Agree(work')
<1> DEFINE q   == Head(txq).adds[Head(txq).na + 1].q
           ts  == InternQuad(q)
           ids == [i \in 1..4 |-> IF termToId[q[i]] # NoId THEN termToId[q[i]]
                                  ELSE IdIn(ts, q[i])]
           db  == [work EXCEPT !.terms = ts]
<1>1. work' = Put(db, ids)
  BY DEF AddStep
<1>2. ids \in [1..4 -> {ids[i] : i \in 1..4}]
  OBVIOUS
<1>3. work \in DbOf /\ Agree(work)
  BY DEF IndexInv, IInv, FlowInv, TypeOK
<1> HIDE DEF ids, ts
<1>4. db \in [terms : {ts}, idx : [Indexes -> SUBSET Keys]] /\ db.idx = work.idx
  BY <1>3 DEF DbOf, Keys
<1>5. Agree(db)
  BY <1>3, <1>4 DEF Agree
<1> HIDE DEF db
<1> QED
  BY <1>1, <1>2, <1>4, <1>5, PutAgrees

\* So does what a deletion leaves.
LEMMA DeleteStepAgrees ==
  ASSUME IndexInv, DeleteStep
  PROVE  Agree(work')
<1> DEFINE ids == [i \in 1..4 |-> termToId[NextDelete[i]]]
<1>1. Deleting /\ Cached(NextDelete) /\ work' = Remove(work, ids)
  BY DEF DeleteStep
<1>2. FlowInv /\ Agree(work)
  BY DEF IndexInv, IInv
<1>3. NextDelete \in [1..4 -> Terms] /\ DictType
  BY <1>1, <1>2, NextDeleteType
<1>4. \A i \in 1..4 : NextDelete[i] \in Range(NextDelete)
  BY <1>3 DEF Range
<1>5. ids \in Keys
  BY <1>1, <1>3, <1>4 DEF Cached, DictType, Ids, NoId, Keys
<1> HIDE DEF ids
<1> QED
  BY <1>1, <1>2, <1>3, <1>5, RemoveAgrees DEF DictType

\* Every step keeps the indexes in agreement, committed and in the making.
LEMMA IndexPreserved ==
  ASSUME IndexInv, [Next]_vars
  PROVE  Agree(disk)' /\ Agree(work)'
<1>1. Agree(disk) /\ Agree(work)
  BY DEF IndexInv
<1>2. CASE UNCHANGED <<disk, work>>
  BY <1>1, <1>2
<1>3. CASE UNCHANGED disk /\ work' = disk
  BY <1>1, <1>3
<1>4. CASE UNCHANGED work /\ disk' = work
  BY <1>1, <1>4
<1>5. CASE AddStep
  BY <1>1, <1>5, AddStepAgrees DEF AddStep
<1>6. CASE DeleteStep
  BY <1>1, <1>6, DeleteStepAgrees DEF DeleteStep
<1>7. CASE JobStep
  <2>1. CASE AddClashes
    BY <1>3, <2>1 DEF AddClashes
  <2>2. CASE AutoCommit \/ Commit
    BY <1>4, <2>2 DEF AutoCommit, Commit
  <2>3. CASE SkipDelete \/ DeleteTooLate
    BY <1>2, <2>3 DEF SkipDelete, DeleteTooLate
  <2> QED
    BY <1>5, <1>6, <1>7, <2>1, <2>2, <2>3 DEF JobStep
<1>8. CASE Abort \/ Reopen \/ Crash
  BY <1>3, <1>8 DEF Abort, Reopen, Crash, NewSession
<1>9. CASE Close \/ Tick
  BY <1>2, <1>9 DEF Close, Tick, Flush
<1>10. ASSUME NEW q \in Quads, AddQuad(q) \/ DeleteQuad(q)
       PROVE  Agree(disk)' /\ Agree(work)'
  BY <1>2, <1>10 DEF AddQuad, DeleteQuad, PushThenFlush
<1>11. ASSUME NEW c \in Calls, Flush(c)
       PROVE  Agree(disk)' /\ Agree(work)'
  BY <1>2, <1>11 DEF Flush
<1>12. ASSUME NEW t \in Terms, Lookup(t)
       PROVE  Agree(disk)' /\ Agree(work)'
  BY <1>2, <1>12 DEF Lookup
<1>13. CASE UNCHANGED vars
  BY <1>2, <1>13 DEF vars
<1> QED
  BY <1>7, <1>8, <1>9, <1>10, <1>11, <1>12, <1>13 DEF Next

\* The three indexes hold the same quads, whatever batch fails or commits itself
\* half-way, and however the calls, the close and the crashes fall.
THEOREM IndexesAlwaysAgree == SafetySpec => []IndexesAgree
<1>1. Init => IndexInv
  <2> SUFFICES ASSUME Init PROVE IndexInv
    OBVIOUS
  <2>1. Agree(EmptyDb)
    BY DEF Agree, EmptyDb, Indexes
  <2> QED
    BY <2>1, InitIInv DEF Init, IndexInv
<1>2. IndexInv /\ [Next]_vars => IndexInv'
  BY NextIInv, IndexPreserved DEF IndexInv
<1>3. IndexInv => IndexesAgree
  BY DEF IndexInv, Agree, IndexesAgree
<1> QED
  BY <1>1, <1>2, <1>3, PTL DEF SafetySpec
-----------------------------------------------------------------------------
(***************************************************************************)
(* Reads.                                                                  *)
(***************************************************************************)
Patterns == [1..4 -> Nat]

\* The prefix stops where the first unbound component stands, if there is one.
LEMMA BoundLengthIs ==
  ASSUME NEW prefix \in Patterns \cup {<<>>}
  PROVE  LET n == BoundLength(prefix)
         IN  /\ n \in 0..Len(prefix)
             /\ \A i \in 1..n : prefix[i] # Unbound
             /\ n < Len(prefix) => prefix[n + 1] = Unbound
<1> DEFINE P(n) == /\ \A i \in 1..n : prefix[i] # Unbound
                   /\ n < Len(prefix) => prefix[n + 1] = Unbound
<1>1. \E n \in 0..Len(prefix) : P(n)
  <2>1. CASE prefix = <<>>
    <3>1. Len(prefix) = 0 /\ P(0)
      BY <2>1
    <3> QED
      BY <3>1
  <2>2. CASE prefix \in Patterns
    <3>1. Len(prefix) = 4
      BY <2>2 DEF Patterns
    <3>2. CASE prefix[1] = Unbound
      BY <3>1, <3>2
    <3>3. CASE prefix[1] # Unbound /\ prefix[2] = Unbound
      <4>1. P(1)
        BY <3>1, <3>3
      <4> QED
        BY <3>1, <4>1
    <3>4. CASE prefix[1] # Unbound /\ prefix[2] # Unbound /\ prefix[3] = Unbound
      <4>1. P(2)
        BY <3>1, <3>4
      <4> QED
        BY <3>1, <4>1
    <3>5. CASE /\ prefix[1] # Unbound /\ prefix[2] # Unbound /\ prefix[3] # Unbound
               /\ prefix[4] = Unbound
      <4>1. P(3)
        BY <3>1, <3>5
      <4> QED
        BY <3>1, <4>1
    <3>6. CASE /\ prefix[1] # Unbound /\ prefix[2] # Unbound /\ prefix[3] # Unbound
               /\ prefix[4] # Unbound
      <4>1. P(4)
        BY <3>1, <3>6
      <4> QED
        BY <3>1, <4>1
    <3> QED
      BY <3>2, <3>3, <3>4, <3>5, <3>6
  <2> QED
    BY <2>1, <2>2
<1>2. BoundLength(prefix) = CHOOSE n \in 0..Len(prefix) : P(n)
  BY DEF BoundLength
<1> HIDE DEF P
<1>3. BoundLength(prefix) \in 0..Len(prefix) /\ P(BoundLength(prefix))
  BY <1>1, <1>2
<1> QED
  BY <1>3 DEF P

\* The range holds the keys that begin with the prefix, and no others: the order of
\* keys and the sentinel at its end are right.
LEMMA RangeIsPrefix ==
  ASSUME NEW K \in SUBSET Keys, NEW prefix \in Patterns \cup {<<>>}
  PROVE  InRange(K, prefix) = {k \in K : \A i \in 1..BoundLength(prefix) : k[i] = prefix[i]}
<1> DEFINE n == BoundLength(prefix)
           lower == [i \in 1..n |-> prefix[i]]
           upper == [i \in 1..4 |-> IF i <= n THEN prefix[i] ELSE Infinity]
<1>1. n \in 0..4 /\ \A i \in 1..n : prefix[i] \in Nat
  <2>1. n \in 0..Len(prefix)
    BY BoundLengthIs
  <2>2. prefix = <<>> => Len(prefix) = 0
    OBVIOUS
  <2>3. prefix \in Patterns => Len(prefix) = 4 /\ \A i \in 1..4 : prefix[i] \in Nat
    BY DEF Patterns
  <2> HIDE DEF n
  <2>4. CASE prefix = <<>>
    BY <2>1, <2>2, <2>4
  <2>5. CASE prefix \in Patterns
    <3>1. n \in 0..4
      BY <2>1, <2>3, <2>5
    <3>2. \A i \in 1..n : i \in 1..4
      BY <3>1
    <3> QED
      BY <2>3, <2>5, <3>1, <3>2
  <2> QED
    BY <2>4, <2>5
<1>2. InRange(K, prefix) = IF n = 0 THEN K ELSE {k \in K : Between(lower, k, upper)}
  BY DEF InRange
<1> HIDE DEF n
<1>3. CASE n = 0
  BY <1>2, <1>3 DEF n
<1>4. CASE n # 0
  <2>1. /\ DOMAIN lower = 1..n /\ Len(lower) = n
        /\ DOMAIN upper = 1..4 /\ Len(upper) = 4
        /\ \A i \in 1..n : lower[i] = prefix[i] /\ upper[i] = prefix[i]
        /\ \A i \in 1..4 : i > n => upper[i] = Infinity
    BY <1>1
  <2> SUFFICES ASSUME NEW k \in K
               PROVE  Between(lower, k, upper) <=> \A i \in 1..n : k[i] = prefix[i]
    BY <1>2, <1>4 DEF n
  <2>2. k \in Keys /\ DOMAIN k = 1..4 /\ Len(k) = 4 /\ \A i \in 1..4 : k[i] \in Nat /\ k[i] # Infinity
    BY DEF Keys, Ids, NoId, Infinity
  <2>3. ASSUME \A i \in 1..n : k[i] = prefix[i]
        PROVE  Between(lower, k, upper)
    <3>1. CASE n = 4
      <4>1. k = lower /\ k = upper
        BY <1>1, <2>1, <2>2, <2>3, <3>1 DEF Keys
      <4> QED
        BY <4>1 DEF Between
    <3>2. CASE n # 4
      <4>1. Before(lower, k)
        BY <1>1, <2>1, <2>2, <2>3, <3>2 DEF Before
      <4>2. n + 1 \in DOMAIN k \cap DOMAIN upper
        BY <1>1, <2>1, <2>2, <3>2
      <4>3. Below(k[n + 1], upper[n + 1]) /\ \A j \in 1..((n + 1) - 1) : k[j] = upper[j]
        BY <1>1, <2>1, <2>2, <2>3, <4>2 DEF Below
      <4>4. Before(k, upper)
        BY <4>2, <4>3 DEF Before
      <4> QED
        BY <4>1, <4>4 DEF Between
    <3> QED
      BY <3>1, <3>2
  <2>4. ASSUME Between(lower, k, upper)
        PROVE  \A i \in 1..n : k[i] = prefix[i]
    <3>1. CASE k = lower \/ k = upper
      BY <1>1, <2>1, <3>1
    <3>2. CASE Before(lower, k) /\ Before(k, upper)
      <4> SUFFICES ASSUME ~ \A i \in 1..n : k[i] = prefix[i]
                   PROVE  FALSE
        OBVIOUS
      <4> HIDE DEF lower, upper
      <4>1. PICK i \in 1..n : /\ Below(lower[i], k[i])
                              /\ \A j \in 1..(i - 1) : lower[j] = k[j]
        BY <1>1, <2>1, <2>2, <3>2 DEF Before
      <4>2. PICK m \in 1..4 : /\ Below(k[m], upper[m])
                              /\ \A j \in 1..(m - 1) : k[j] = upper[j]
        BY <2>1, <2>2, <3>2 DEF Before
      <4>3. m \in 1..n
        BY <1>1, <2>1, <4>2
      <4>4. k[m] < prefix[m] /\ prefix[i] < k[i]
        BY <1>1, <2>1, <2>2, <4>1, <4>2, <4>3 DEF Below, Infinity
      <4>5. CASE i < m
        <5>1. i \in 1..(m - 1) /\ upper[i] = prefix[i] /\ k[i] = upper[i]
          BY <1>1, <2>1, <4>2, <4>5
        <5> QED
          BY <1>1, <2>2, <4>4, <5>1
      <4>6. CASE m < i
        <5>1. m \in 1..(i - 1) /\ lower[m] = prefix[m] /\ k[m] = lower[m]
          BY <1>1, <2>1, <4>1, <4>3, <4>6
        <5> QED
          BY <1>1, <2>2, <4>4, <5>1
      <4>7. CASE i = m
        BY <1>1, <2>2, <4>4, <4>7
      <4> QED
        BY <1>1, <4>3, <4>5, <4>6, <4>7
    <3> QED
      BY <2>4, <3>1, <3>2 DEF Between
  <2> QED
    BY <2>3, <2>4
<1> QED
  BY <1>3, <1>4

\* The key of a pattern is its prefix, except that a pattern which binds the graph
\* only has none.
LEMMA PrefixType ==
  ASSUME NEW pt \in Patterns
  PROVE  /\ Selected(pt) \in Indexes
         /\ ~GraphOnly(pt) => Prefix(pt) = Key(Selected(pt), pt)
         /\ GraphOnly(pt) => Prefix(pt) = <<>> /\ BoundLength(Prefix(pt)) = 0
         /\ Prefix(pt) \in Patterns \cup {<<>>}
<1>1. Selected(pt) \in Indexes
  BY DEF Selected, GraphOnly, Indexes
<1>2. ~GraphOnly(pt) => Prefix(pt) \in Patterns
  BY <1>1, KeyTwice DEF Prefix, Patterns
<1>3. GraphOnly(pt) => Prefix(pt) = <<>> /\ Len(<<>>) = 0
  BY DEF Prefix
<1> QED
  BY <1>1, <1>2, <1>3, BoundLengthIs DEF Prefix

\* matchQuads before its filter: the stored quads whose key begins with the prefix.
LEMMA ScanIsPrefix ==
  ASSUME NEW db \in DbOf, Agree(db), NEW pt \in Patterns
  PROVE  Scan(db, pt) = {q \in db.idx["spo"] :
                           \A i \in 1..BoundLength(Prefix(pt)) :
                             Key(Selected(pt), q)[i] = Prefix(pt)[i]}
<1> DEFINE x == Selected(pt)
           starts(k) == \A i \in 1..BoundLength(Prefix(pt)) : k[i] = Prefix(pt)[i]
<1>1. x \in Indexes /\ Prefix(pt) \in Patterns \cup {<<>>}
  BY PrefixType
<1>2. db.idx[x] \in SUBSET Keys /\ db.idx["spo"] \in SUBSET Keys
  BY <1>1 DEF DbOf, Indexes, Keys
<1>3. db.idx[x] = {Key(x, q) : q \in db.idx["spo"]}
  BY <1>1 DEF Agree
<1>4. InRange(db.idx[x], Prefix(pt)) = {k \in db.idx[x] : starts(k)}
  BY <1>1, <1>2, RangeIsPrefix
<1>5. \A q \in db.idx["spo"] : Key(x, Key(x, q)) = q
  BY <1>1, <1>2, KeyTwice DEF Keys
<1>6. Scan(db, pt) = {Key(x, k) : k \in {k \in db.idx[x] : starts(k)}}
  BY <1>4 DEF Scan, Decode
<1> HIDE DEF starts, x
<1>7. Scan(db, pt) = {q \in db.idx["spo"] : starts(Key(x, q))}
  BY <1>3, <1>5, <1>6
<1> QED
  BY <1>7 DEF starts, x

\* After its filter: all stored quads that fit, whatever is bound.
LEMMA MatchIsExact ==
  ASSUME NEW db \in DbOf, Agree(db), NEW pt \in Patterns
  PROVE  MatchQuads(db, pt) = {q \in db.idx["spo"] : Fits(pt, q)}
<1> DEFINE n == BoundLength(Prefix(pt))
<1>1. ASSUME NEW q \in db.idx["spo"], Fits(pt, q), NEW i \in 1..n
      PROVE  Key(Selected(pt), q)[i] = Prefix(pt)[i]
  <2>1. ~GraphOnly(pt)
    BY <1>1, PrefixType
  <2>2. Prefix(pt) = Key(Selected(pt), pt) /\ Prefix(pt) \in Patterns /\ Selected(pt) \in Indexes
    BY <2>1, PrefixType, KeyTwice DEF Patterns
  <2>3. i \in 1..4 /\ Prefix(pt)[i] # Unbound
    <3>1. Len(Prefix(pt)) = 4
      BY <2>2 DEF Patterns
    <3>2. n \in 0..4 /\ \A j \in 1..n : Prefix(pt)[j] # Unbound
      BY <2>2, <3>1, BoundLengthIs
    <3> HIDE DEF n
    <3> QED
      BY <1>1, <3>2
  <2>4. Permutation[Selected(pt)][i] \in 1..4
    BY <2>2, <2>3 DEF Indexes, Permutation
  <2> QED
    BY <1>1, <2>2, <2>3, <2>4 DEF Key, Fits
<1> HIDE DEF n
<1>2. MatchQuads(db, pt) = {q \in Scan(db, pt) : Fits(pt, q)}
  BY DEF MatchQuads
<1> QED
  BY <1>1, <1>2, ScanIsPrefix DEF n

\* Without a gap the range is exact, so counting its keys counts the matches.
LEMMA CountIsExact ==
  ASSUME NEW db \in DbOf, Agree(db), NEW pt \in Patterns, ~GraphOnly(pt)
  PROVE  CountQuads(db, pt) = Cardinality({q \in db.idx["spo"] : Fits(pt, q)})
<1> DEFINE n == BoundLength(Prefix(pt))
           x == Selected(pt)
<1>1. CASE HasGap(Prefix(pt))
  BY <1>1, MatchIsExact DEF CountQuads
<1>2. CASE ~HasGap(Prefix(pt))
  <2>1. x \in Indexes /\ Prefix(pt) = Key(x, pt) /\ Prefix(pt) \in Patterns
    BY PrefixType, KeyTwice DEF Patterns
  <2>2. /\ n \in 0..4
        /\ n < 4 => Prefix(pt)[n + 1] = Unbound
    <3>1. Len(Prefix(pt)) = 4
      BY <2>1 DEF Patterns
    <3> QED
      BY <2>1, <3>1, BoundLengthIs
  <2> HIDE DEF n, x
  <2>3. \A i \in 1..4 : i > n => Prefix(pt)[i] = Unbound
    <3> SUFFICES ASSUME NEW i \in 1..4, i > n, i # n + 1
                 PROVE  Prefix(pt)[i] = Unbound
      BY <2>2
    <3>1. n + 1 \in 1..4 /\ n + 1 < i /\ DOMAIN Prefix(pt) = 1..4
      BY <2>1, <2>2 DEF Patterns
    <3> QED
      BY <1>2, <2>2, <3>1 DEF HasGap
  <2>4. ASSUME NEW q \in db.idx["spo"], \A i \in 1..n : Key(x, q)[i] = Prefix(pt)[i]
        PROVE  Fits(pt, q)
    <3>1. q \in Keys /\ pt \in Patterns
      BY DEF DbOf, Indexes, Keys
    <3>2. \A i \in 1..4 : Key(x, pt)[i] \in {Unbound, Key(x, q)[i]}
      BY <2>1, <2>2, <2>3, <2>4
    <3>3. \A i \in 1..4 : \E j \in 1..4 : Key(x, pt)[j] = pt[i] /\ Key(x, q)[j] = q[i]
      <4>1. \A i \in 1..4 : \E j \in 1..4 : Permutation[x][j] = i
        <5>1. CASE x = "spo"
          <6>1. Permutation[x] = <<1, 2, 3, 4>>
            BY <5>1 DEF Permutation
          <6> QED
            BY <6>1
        <5>2. CASE x = "ops"
          <6>1. Permutation[x] = <<3, 2, 1, 4>>
            BY <5>2 DEF Permutation
          <6> QED
            BY <6>1
        <5>3. CASE x = "pso"
          <6>1. Permutation[x] = <<2, 1, 3, 4>>
            BY <5>3 DEF Permutation
          <6> QED
            BY <6>1
        <5> QED
          BY <2>1, <5>1, <5>2, <5>3 DEF Indexes
      <4> QED
        BY <4>1 DEF Key
    <3> QED
      BY <3>2, <3>3 DEF Fits
  <2>5. Scan(db, pt) = MatchQuads(db, pt)
    BY <2>4, ScanIsPrefix, MatchIsExact DEF MatchQuads, n, x
  <2> QED
    BY <1>2, <2>5, MatchIsExact DEF CountQuads
<1> QED
  BY <1>1, <1>2

\* Every read of every reachable database, by ids.
RangesAreExact ==
  \A pt \in Patterns :
    LET fitting == {q \in disk.idx["spo"] : Fits(pt, q)}
    IN  /\ MatchQuads(disk, pt) = fitting
        /\ ~GraphOnly(pt) => CountQuads(disk, pt) = Cardinality(fitting)

\* matchQuads finds the committed quads that fit its pattern, whichever index it
\* reads and whichever components are bound, and countQuads counts as many.
THEOREM RangeReadsAreExact == SafetySpec => []RangesAreExact
<1>1. TypeOK /\ Agree(disk) => RangesAreExact
  BY MatchIsExact, CountIsExact DEF TypeOK, RangesAreExact
<1>2. IndexesAgree => Agree(disk)
  BY DEF IndexesAgree, Agree
<1> QED
  BY <1>1, <1>2, TypeCorrect, IndexesAlwaysAgree, PTL

(***************************************************************************)
(* The dictionary.                                                         *)
(***************************************************************************)
\* No two records hold the same term.
Distinct(ts) == \A i, j \in DOMAIN ts : ts[i] = ts[j] => i = j
\* us has the records of ts, at their ids, and perhaps more.
Extends(us, ts) == \A i \in DOMAIN ts : i \in DOMAIN us /\ us[i] = ts[i]
\* Every id in the index has its record.
IdsHaveTerms(db) == \A k \in db.idx["spo"] : \A i \in 1..4 : k[i] \in DOMAIN db.terms

\* Caches t2i and i2t say nothing that the records ts do not say.
Agreeing(t2i, i2t, ts) ==
  /\ \A t \in Terms : t2i[t] # NoId => t2i[t] \in DOMAIN ts /\ ts[t2i[t]] = t
  /\ \A i \in DOMAIN i2t : i \in DOMAIN ts /\ ts[i] = i2t[i]

\* The caches never say more than the records; between batches work is disk.
DictInv ==
  /\ IndexInv
  /\ Distinct(work.terms) /\ Distinct(disk.terms)
  /\ IdsHaveTerms(work) /\ IdsHaveTerms(disk)
  /\ Agreeing(termToId, idToTerm, work.terms)
  /\ txq = <<>> => work = disk

\* A record for a term that has none keeps the records distinct.
LEMMA AppendNew ==
  ASSUME NEW ts \in Seq(Terms), NEW n \in Seq(Terms), Distinct(ts),
         n = <<>> \/ \E t \in Terms \ Range(ts) : n = <<t>>
  PROVE  Distinct(ts \o n) /\ Extends(ts \o n, ts)
<1>1. CASE n = <<>>
  BY <1>1 DEF Extends
<1>2. ASSUME NEW t \in Terms \ Range(ts), n = <<t>>
      PROVE  Distinct(ts \o n) /\ Extends(ts \o n, ts)
  <2> DEFINE us == ts \o <<t>>
  <2>1. /\ DOMAIN us = DOMAIN ts \cup {Len(ts) + 1} /\ us[Len(ts) + 1] = t
        /\ \A i \in DOMAIN ts : us[i] = ts[i]
    OBVIOUS
  <2>2. \A i \in DOMAIN ts : ts[i] # t
    BY DEF Range
  <2> HIDE DEF us
  <2>3. Distinct(us) /\ Extends(us, ts)
    BY <2>1, <2>2 DEF Distinct, Extends
  <2> QED
    BY <1>2, <2>3 DEF us
<1> QED
  BY <1>1, <1>2

\* Extending is transitive.
LEMMA ExtendsTwice ==
  ASSUME NEW ts, NEW us, NEW vs, Extends(us, ts), Extends(vs, us)
  PROVE  Extends(vs, ts)
BY DEF Extends

\* getOrCreateId gives no term a second record and renumbers none.
LEMMA InternKeeps ==
  ASSUME DictType, Distinct(work.terms), NEW q \in [1..4 -> Terms]
  PROVE  Distinct(InternQuad(q)) /\ Extends(InternQuad(q), work.terms)
<1> DEFINE n1 == NewAt(q, 1)
           n2 == NewAt(q, 2)
           n3 == NewAt(q, 3)
           n4 == NewAt(q, 4)
<1>1. work.terms \in Seq(Terms)
  BY DEF DictType, DbOf
<1>2. ASSUME NEW i \in 1..4
      PROVE  /\ NewAt(q, i) \in Seq(Terms) /\ Range(NewAt(q, i)) \subseteq {q[i]}
             /\ \/ NewAt(q, i) = <<>>
                \/ /\ NewAt(q, i) = <<q[i]>> /\ q[i] \in Terms \ Range(work.terms)
                   /\ \A k \in 1..(i - 1) : q[k] # q[i]
  <2>1. Range(<<>>) = {} /\ Range(<<q[i]>>) = {q[i]}
    BY DEF Range
  <2> QED
    BY <2>1 DEF NewAt, IsNew
<1> DEFINE w1 == work.terms \o n1
           w2 == w1 \o n2
           w3 == w2 \o n3
           w4 == w3 \o n4
<1>3. InternQuad(q) = w4
  BY DEF InternQuad
<1>4. /\ w1 \in Seq(Terms) /\ Range(w1) \subseteq Range(work.terms) \cup {q[1]}
      /\ Distinct(w1) /\ Extends(w1, work.terms)
  <2>1. n1 \in Seq(Terms) /\ Range(n1) \subseteq {q[1]}
    BY <1>2
  <2>2. n1 = <<>> \/ \E t \in Terms \ Range(work.terms) : n1 = <<t>>
    BY <1>2
  <2> HIDE DEF n1
  <2> QED
    BY <1>1, <2>1, <2>2, RangeOfConcat, AppendNew
<1> HIDE DEF w1
<1>5. /\ w2 \in Seq(Terms) /\ Range(w2) \subseteq Range(work.terms) \cup {q[1], q[2]}
      /\ Distinct(w2) /\ Extends(w2, w1)
  <2>1. n2 \in Seq(Terms) /\ Range(n2) \subseteq {q[2]}
    BY <1>2
  <2>2. n2 = <<>> \/ \E t \in Terms \ Range(w1) : n2 = <<t>>
    <3>1. CASE n2 = <<q[2]>> /\ q[2] \in Terms \ Range(work.terms) /\ q[1] # q[2]
      <4>1. q[2] \notin Range(w1)
        BY <1>4, <3>1
      <4> QED
        BY <3>1, <4>1
    <3> QED
      BY <1>2, <3>1
  <2> HIDE DEF n2
  <2> QED
    BY <1>4, <2>1, <2>2, RangeOfConcat, AppendNew
<1> HIDE DEF w2
<1>6. /\ w3 \in Seq(Terms) /\ Range(w3) \subseteq Range(work.terms) \cup {q[1], q[2], q[3]}
      /\ Distinct(w3) /\ Extends(w3, w2)
  <2>1. n3 \in Seq(Terms) /\ Range(n3) \subseteq {q[3]}
    BY <1>2
  <2>2. n3 = <<>> \/ \E t \in Terms \ Range(w2) : n3 = <<t>>
    <3>1. CASE n3 = <<q[3]>> /\ q[3] \in Terms \ Range(work.terms) /\ q[1] # q[3] /\ q[2] # q[3]
      <4>1. q[3] \notin Range(w2)
        BY <1>5, <3>1
      <4> QED
        BY <3>1, <4>1
    <3> QED
      BY <1>2, <3>1
  <2> HIDE DEF n3
  <2> QED
    BY <1>5, <2>1, <2>2, RangeOfConcat, AppendNew
<1> HIDE DEF w3
<1>7. w4 \in Seq(Terms) /\ Distinct(w4) /\ Extends(w4, w3)
  <2>1. n4 \in Seq(Terms) /\ Range(n4) \subseteq {q[4]}
    BY <1>2
  <2>2. n4 = <<>> \/ \E t \in Terms \ Range(w3) : n4 = <<t>>
    <3>1. CASE /\ n4 = <<q[4]>> /\ q[4] \in Terms \ Range(work.terms)
               /\ q[1] # q[4] /\ q[2] # q[4] /\ q[3] # q[4]
      <4>1. q[4] \notin Range(w3)
        BY <1>6, <3>1
      <4> QED
        BY <3>1, <4>1
    <3> QED
      BY <1>2, <3>1
  <2> HIDE DEF n4
  <2> QED
    BY <1>6, <2>1, <2>2, RangeOfConcat, AppendNew
<1> HIDE DEF w4
<1>8. Extends(w4, work.terms)
  BY <1>4, <1>5, <1>6, <1>7, ExtendsTwice
<1> QED
  BY <1>3, <1>7, <1>8

\* What the caches say stays true when records are added.
LEMMA AgreeingGrows ==
  ASSUME NEW t2i, NEW i2t, NEW ts, NEW us, Agreeing(t2i, i2t, ts), Extends(us, ts)
  PROVE  Agreeing(t2i, i2t, us)
BY DEF Agreeing, Extends

\* Caching ids that were looked up in ts.
LEMMA RememberAgrees ==
  ASSUME DictType, NEW ts \in Seq(Terms), NEW S \in SUBSET Terms,
         Agreeing(termToId, idToTerm, ts),
         \A t \in S : termToId[t] = NoId => t \in Range(ts),
         Remember(ts, S)
  PROVE  /\ Agreeing(termToId', idToTerm', ts)
         /\ \A t \in Terms : /\ termToId[t] # NoId => termToId'[t] = termToId[t]
                             /\ t \in S /\ termToId[t] = NoId => termToId'[t] = IdIn(ts, t)
         /\ \A t \in S : termToId'[t] # NoId
<1> DEFINE fresh == {t \in S : termToId[t] = NoId}
           ids   == {IdIn(ts, t) : t \in fresh}
<1>1. \A t \in fresh : IdIn(ts, t) \in DOMAIN ts /\ ts[IdIn(ts, t)] = t /\ IdIn(ts, t) \in Ids
  BY IdOfRecord
<1>2. \A t \in Terms : termToId'[t] = IF t \in fresh THEN IdIn(ts, t) ELSE termToId[t]
  BY DEF Remember
<1>3. idToTerm' = [i \in DOMAIN idToTerm \cup ids |-> IF i \in ids THEN ts[i] ELSE idToTerm[i]]
  BY DEF Remember
<1>4. ids \subseteq DOMAIN ts
  BY <1>1
<1>5. \A i \in DOMAIN idToTerm' : i \in DOMAIN ts /\ ts[i] = idToTerm'[i]
  <2> HIDE DEF ids
  <2> QED
    BY <1>3, <1>4 DEF Agreeing
<1>6. \A t \in Terms : termToId'[t] # NoId => termToId'[t] \in DOMAIN ts /\ ts[termToId'[t]] = t
  <2> HIDE DEF fresh
  <2>1. ASSUME NEW t \in Terms, t \in fresh PROVE termToId'[t] \in DOMAIN ts /\ ts[termToId'[t]] = t
    BY <1>1, <1>2, <2>1
  <2>2. ASSUME NEW t \in Terms, t \notin fresh, termToId'[t] # NoId
        PROVE termToId'[t] \in DOMAIN ts /\ ts[termToId'[t]] = t
    BY <1>2, <2>2 DEF Agreeing
  <2> QED
    BY <2>1, <2>2
<1>7. \A t \in S : termToId'[t] # NoId
  BY <1>1, <1>2 DEF Ids, NoId
<1> QED
  BY <1>2, <1>5, <1>6, <1>7 DEF Agreeing

\* The quad that key k of the index spo stands for, by the records ts.
Named(ts, k) == [i \in 1..4 |-> ts[k[i]]]

\* The content of a database, key by key of the index spo.
LEMMA ContentIs ==
  ASSUME NEW db
  PROVE  Content(db) = {Named(db.terms, k) : k \in db.idx["spo"]}
BY DEF Content, Named

\* Different keys stand for different quads.
LEMMA NamedOnce ==
  ASSUME NEW ts \in Seq(Terms), Distinct(ts), NEW k \in Keys, NEW m \in Keys,
         \A i \in 1..4 : k[i] \in DOMAIN ts /\ m[i] \in DOMAIN ts,
         Named(ts, k) = Named(ts, m)
  PROVE  k = m
<1>1. \A i \in 1..4 : ts[k[i]] = ts[m[i]]
  BY DEF Named
<1>2. \A i \in 1..4 : k[i] = m[i]
  BY <1>1 DEF Distinct
<1> QED
  BY <1>2 DEF Keys

\* An addition: one more key, for the quad, whose terms are now in the caches.
LEMMA AddStepAdds ==
  ASSUME DictInv, AddStep, NEW q, q = Head(txq).adds[Head(txq).na + 1].q
  PROVE  /\ q \in [1..4 -> Terms]
         /\ Distinct(work'.terms) /\ Extends(work'.terms, work.terms)
         /\ Agreeing(termToId', idToTerm', work'.terms)
         /\ \A t \in Terms : termToId[t] # NoId => termToId'[t] # NoId
         /\ \A t \in Range(q) : termToId'[t] # NoId
         /\ \E ids \in Keys : /\ work'.idx["spo"] = work.idx["spo"] \cup {ids}
                              /\ \A i \in 1..4 : ids[i] \in DOMAIN work'.terms
                              /\ Named(work'.terms, ids) = q
<1> DEFINE ts  == InternQuad(q)
           ids == [i \in 1..4 |-> IF termToId[q[i]] # NoId THEN termToId[q[i]]
                                  ELSE IdIn(ts, q[i])]
<1>1. /\ txq # <<>> /\ Head(txq).na < Len(Head(txq).adds)
      /\ Remember(ts, Range(q)) /\ work' = Put([work EXCEPT !.terms = ts], ids)
  BY DEF AddStep
<1>2. q \in [1..4 -> Terms] /\ DictType
  <2>1. Head(txq) \in JobUpTo(opCount) /\ opCount \in Nat /\ DictType
    BY <1>1, HeadType DEF DictInv, IndexInv, IInv
  <2>2. Head(txq).na \in Nat /\ Head(txq).adds \in Seq(OpUpTo(opCount))
    BY <2>1 DEF JobUpTo
  <2> QED
    BY <1>1, <2>1, <2>2, NextQuad
<1>3. /\ ts \in Seq(Terms)
      /\ Range(work.terms) \subseteq Range(ts)
      /\ \A t \in Range(q) : IsNew(t) => t \in Range(ts)
      /\ Distinct(ts) /\ Extends(ts, work.terms)
  BY <1>2, InternType, InternKeeps DEF DictInv
<1>4. \A t \in Range(q) : termToId[t] = NoId => t \in Range(ts)
  BY <1>3 DEF IsNew
<1>5. Range(q) \in SUBSET Terms /\ \A i \in 1..4 : q[i] \in Range(q)
  BY <1>2 DEF Range
<1>6. Agreeing(termToId, idToTerm, ts)
  BY <1>3, AgreeingGrows DEF DictInv
<1> HIDE DEF ts
<1>7. /\ Agreeing(termToId', idToTerm', ts)
      /\ \A t \in Terms : termToId[t] # NoId => termToId'[t] = termToId[t]
      /\ \A t \in Range(q) : termToId'[t] # NoId
  BY <1>1, <1>2, <1>3, <1>4, <1>5, <1>6, RememberAgrees
<1>8. \A i \in 1..4 : ids[i] \in DOMAIN ts /\ ts[ids[i]] = q[i]
  <2> TAKE i \in 1..4
  <2>1. CASE termToId[q[i]] # NoId
    BY <1>2, <1>6, <2>1 DEF Agreeing
  <2>2. CASE termToId[q[i]] = NoId
    <3>1. q[i] \in Range(ts)
      BY <1>4, <1>5, <2>2
    <3> QED
      BY <1>3, <2>2, <3>1, IdOfRecord
  <2> QED
    BY <2>1, <2>2
<1>9. ids \in Keys /\ Named(ts, ids) = q
  <2>1. DOMAIN ts \subseteq Ids
    BY <1>3 DEF Ids, NoId
  <2>2. ids \in Keys
    BY <1>8, <2>1 DEF Keys
  <2> HIDE DEF ids
  <2> QED
    BY <1>2, <1>8, <2>2 DEF Named
<1> HIDE DEF ids
<1>10. work'.terms = ts /\ work'.idx["spo"] = work.idx["spo"] \cup {ids}
  <2>1. work \in DbOf /\ "spo" \in Indexes
    BY <1>2 DEF DictType, Indexes
  <2>2. Key("spo", ids) = ids
    BY <1>9, SpoKey DEF Keys
  <2> QED
    BY <1>1, <2>1, <2>2 DEF Put, DbOf
<1> QED
  BY <1>2, <1>3, <1>7, <1>8, <1>9, <1>10

\* A deletion: one key less, that of the quad.
LEMMA DeleteStepDeletes ==
  ASSUME DictInv, DeleteStep, NEW q, q = NextDelete
  PROVE  /\ q \in [1..4 -> Terms]
         /\ work'.terms = work.terms
         /\ \E ids \in Keys : /\ work'.idx["spo"] = work.idx["spo"] \ {ids}
                              /\ \A i \in 1..4 : ids[i] \in DOMAIN work.terms
                              /\ Named(work.terms, ids) = q
<1> DEFINE ids == [i \in 1..4 |-> termToId[q[i]]]
<1>1. Deleting /\ Cached(q) /\ work' = Remove(work, ids)
  BY DEF DeleteStep
<1>2. q \in [1..4 -> Terms] /\ DictType
  BY <1>1, NextDeleteType DEF DictInv, IndexInv, IInv
<1>3. \A i \in 1..4 : termToId[q[i]] # NoId
  BY <1>1, <1>2 DEF Cached, Range
<1>4. \A i \in 1..4 : ids[i] \in DOMAIN work.terms /\ work.terms[ids[i]] = q[i]
  BY <1>2, <1>3 DEF DictInv, Agreeing
<1>5. ids \in Keys
  BY <1>2, <1>3 DEF DictType, Ids, Keys, NoId
<1> HIDE DEF ids
<1>6. Named(work.terms, ids) = q
  BY <1>2, <1>4 DEF Named
<1>7. work'.terms = work.terms /\ work'.idx["spo"] = work.idx["spo"] \ {ids}
  <2>1. work \in DbOf /\ "spo" \in Indexes
    BY <1>2 DEF DictType, Indexes
  <2>2. Key("spo", ids) = ids
    BY <1>5, SpoKey DEF Keys
  <2> QED
    BY <1>1, <2>1, <2>2 DEF Remove, DbOf
<1> QED
  BY <1>2, <1>4, <1>5, <1>6, <1>7
-----------------------------------------------------------------------------
(***************************************************************************)
(* Nothing undoes a transaction: the browser aborts none (Abort), and no   *)
(* batch adds a quad that names a new term twice (AddClashes).  Either     *)
(* leaves ids in the caches that have no record, as HexastoreLoopDoc       *)
(* shows, so the dictionary is consistent exactly under this condition.    *)
(***************************************************************************)
NothingAborts == ~Abort /\ ~AddClashes

\* A flush() call ends no job.
LEMMA StartFlushEndsNone ==
  ASSUME FlowInv, txq # <<>>, NEW c, NEW adds, NEW dels, NEW m,
         StartFlush(c, adds, dels, m)
  PROVE  txq' # <<>>
<1>1. AwaitRunning(c, adds, dels, m) /\ txq \in Seq(JobUpTo(opCount))
  BY TypeParts DEF StartFlush, FlowInv, FlushInv, FlowType
<1>2. Len(txq') = Len(txq) /\ Len(txq) # 0
  BY <1>1 DEF AwaitRunning
<1> QED
  BY <1>1, <1>2

\* An entry of the queue is replaced: the queue is not empty.
LEMMA ReplacedIsNotEmpty ==
  ASSUME FlowInv, txq # <<>>, NEW e, txq' = [txq EXCEPT ![1] = e]
  PROVE  txq' # <<>>
<1>1. txq \in Seq(JobUpTo(opCount)) /\ 1 \in DOMAIN txq
  BY HeadType
<1>2. 1 \in DOMAIN txq'
  BY <1>1
<1> QED
  BY <1>2

\* Once the head of the queue has committed itself, the transaction sees what is
\* committed.
LEMMA EndedIsCommitted ==
  ASSUME DictInv, txq # <<>> => ~Head(txq).live
  PROVE  work = disk
<1>1. CASE txq # <<>>
  <2>1. 1 \in DOMAIN txq /\ txq[1] = Head(txq)
    BY <1>1, HeadType DEF DictInv, IndexInv, IInv
  <2> QED
    BY <1>1, <2>1 DEF DictInv, IndexInv, IInv, WorkInv
<1> QED
  BY <1>1 DEF DictInv

\* The parts of DictInv that are about the dictionary.
DictParts(d, w, t2i, i2t) ==
  /\ Distinct(w.terms) /\ Distinct(d.terms)
  /\ IdsHaveTerms(w) /\ IdsHaveTerms(d)
  /\ Agreeing(t2i, i2t, w.terms)

\* What DictInv says beyond the agreement of the indexes.
LEMMA DictInvParts ==
  /\ DictInv <=> /\ IndexInv /\ DictParts(disk, work, termToId, idToTerm)
                 /\ txq = <<>> => work = disk
  /\ DictInv' <=> /\ IndexInv' /\ DictParts(disk', work', termToId', idToTerm')
                  /\ txq' = <<>> => work' = disk'
BY DEF DictInv, DictParts, Distinct, IdsHaveTerms, Agreeing

\* What JavaScript and IndexedDB do next for a running batch.
LEMMA JobDict ==
  ASSUME DictInv, JobStep, NothingAborts
  PROVE  /\ DictParts(disk', work', termToId', idToTerm')
         /\ txq' = <<>> => work' = disk'
<1>0. FlowInv /\ WorkInv /\ disk \in DbOf /\ work \in DbOf
  BY TypeParts DEF DictInv, IndexInv, IInv, FlowInv, DictType
<1>1. CASE AddStep
  <2> DEFINE q == Head(txq).adds[Head(txq).na + 1].q
  <2>1. /\ Distinct(work'.terms) /\ Extends(work'.terms, work.terms)
        /\ Agreeing(termToId', idToTerm', work'.terms)
        /\ \E ids \in Keys : /\ work'.idx["spo"] = work.idx["spo"] \cup {ids}
                             /\ \A i \in 1..4 : ids[i] \in DOMAIN work'.terms
    <3> HIDE DEF q
    <3> QED
      BY <1>1, AddStepAdds DEF q
  <2>2. disk' = disk /\ txq # <<>> /\ txq' = [txq EXCEPT ![1].na = Head(txq).na + 1]
    BY <1>1 DEF AddStep
  <2>3. IdsHaveTerms(work')
    BY <2>1 DEF IdsHaveTerms, DictInv, Extends
  <2>4. txq' # <<>>
    BY <1>0, <2>2, ReplacedIsNotEmpty
  <2> QED
    BY <2>1, <2>2, <2>3, <2>4 DEF DictInv, DictParts
<1>2. CASE DeleteStep
  <2>1. /\ work'.terms = work.terms
        /\ \E ids \in Keys : work'.idx["spo"] = work.idx["spo"] \ {ids}
    BY <1>2, DeleteStepDeletes
  <2>2. UNCHANGED <<disk, cache>> /\ Deleting /\ AdvanceDelete
    BY <1>2 DEF DeleteStep
  <2>3. IdsHaveTerms(work')
    BY <2>1 DEF IdsHaveTerms, DictInv
  <2>4. txq' # <<>>
    BY <1>0, <2>2, NextDeleteType, ReplacedIsNotEmpty DEF AdvanceDelete
  <2> QED
    BY <2>1, <2>2, <2>3, <2>4 DEF DictInv, DictParts, cache
<1>3. CASE AutoCommit \/ Commit
  <2>1. UNCHANGED <<work, cache>> /\ disk' = work
    BY <1>3 DEF AutoCommit, Commit
  <2> QED
    BY <2>1 DEF DictInv, DictParts, cache
<1>4. CASE SkipDelete
  <2> DEFINE S == {t \in Range(NextDelete) : ~IsNew(t)}
  <2>1. /\ Deleting /\ ~Head(txq).live /\ Remember(disk.terms, S)
        /\ UNCHANGED <<disk, work>>
    BY <1>4 DEF SkipDelete
  <2>2. work = disk /\ Range(NextDelete) \subseteq Terms /\ DictType
    BY <1>0, <2>1, EndedIsCommitted, NextDeleteType
  <2>3. \A t \in S : termToId[t] = NoId => t \in Range(disk.terms)
    BY <2>2 DEF IsNew
  <2>4. S \in SUBSET Terms /\ disk.terms \in Seq(Terms)
    BY <1>0, <2>2 DEF DbOf
  <2>5. Agreeing(termToId, idToTerm, disk.terms)
    BY <2>2 DEF DictInv
  <2> HIDE DEF S
  <2>6. Agreeing(termToId', idToTerm', disk.terms)
    BY <2>1, <2>2, <2>3, <2>4, <2>5, RememberAgrees
  <2> QED
    BY <2>1, <2>2, <2>6 DEF DictInv, DictParts
<1>5. CASE DeleteTooLate
  <2>1. /\ Deleting /\ ~Head(txq).live /\ UNCHANGED <<disk, work>>
        /\ \A t \in Range(NextDelete) : isOpen => ~IsNew(t)
        /\ IF isOpen THEN Remember(disk.terms, Range(NextDelete)) ELSE UNCHANGED cache
    BY <1>5 DEF DeleteTooLate
  <2>2. work = disk /\ Range(NextDelete) \subseteq Terms /\ DictType
    BY <1>0, <2>1, EndedIsCommitted, NextDeleteType
  <2>3. Agreeing(termToId, idToTerm, disk.terms) /\ disk.terms \in Seq(Terms)
    BY <1>0, <2>2 DEF DictInv, DbOf
  <2>4. CASE isOpen
    <3>1. \A t \in Range(NextDelete) : termToId[t] = NoId => t \in Range(disk.terms)
      BY <2>1, <2>2, <2>4 DEF IsNew
    <3>2. Range(NextDelete) \in SUBSET Terms
      BY <2>2
    <3>3. Agreeing(termToId', idToTerm', disk.terms)
      BY <2>1, <2>2, <2>3, <2>4, <3>1, <3>2, RememberAgrees
    <3> QED
      BY <2>1, <2>2, <3>3 DEF DictInv, DictParts
  <2>5. CASE ~isOpen
    BY <2>1, <2>2, <2>5 DEF DictInv, DictParts, cache
  <2> QED
    BY <2>4, <2>5
<1> QED
  BY <1>1, <1>2, <1>3, <1>4, <1>5 DEF JobStep, NothingAborts

\* A read that fills the caches finds in the records what it caches.
LEMMA LookupDict ==
  ASSUME DictInv, NEW t \in Terms, Lookup(t)
  PROVE  DictParts(disk', work', termToId', idToTerm')
<1> DEFINE id == IdIn(disk.terms, t)
<1>1. /\ txq # <<>> => ~Head(txq).live
      /\ t \in Range(disk.terms)
      /\ termToId' = [termToId EXCEPT ![t] = id]
      /\ idToTerm' = [i \in DOMAIN idToTerm \cup {id} |-> IF i = id THEN t ELSE idToTerm[i]]
      /\ UNCHANGED <<disk, work>>
  BY DEF Lookup
<1>2. work = disk /\ disk \in DbOf /\ termToId \in [Terms -> Nat]
  BY <1>1, EndedIsCommitted, TypeParts DEF DictInv, IndexInv, IInv, FlowInv, DictType
<1>3. id \in DOMAIN disk.terms /\ disk.terms[id] = t
  BY <1>1, <1>2, IdOfRecord DEF DbOf
<1> HIDE DEF id
<1>4. Agreeing(termToId', idToTerm', disk.terms)
  BY <1>1, <1>2, <1>3 DEF DictInv, Agreeing
<1> QED
  BY <1>1, <1>2, <1>4 DEF DictInv, DictParts

\* As long as nothing aborts, every step keeps the dictionary consistent.
LEMMA DictPreserved ==
  ASSUME DictInv, [Next]_vars, [NothingAborts]_vars
  PROVE  DictInv'
<1>0. IndexInv' /\ FlowInv
  BY NextIInv, IndexPreserved DEF DictInv, IndexInv, IInv
<1>1. ASSUME UNCHANGED <<disk, work, cache>>, txq # <<>> => txq' # <<>>
      PROVE  DictInv'
  BY <1>0, <1>1, DictInvParts DEF cache
<1>2. CASE Next
  <2>1. ASSUME NEW adds, NEW dels, PushThenFlush(adds, dels)
        PROVE  DictInv'
    <3>1. UNCHANGED <<disk, work, cache>>
      BY <2>1 DEF PushThenFlush
    <3>2. txq # <<>> => txq' # <<>>
      BY <1>0, <2>1, StartFlushEndsNone DEF PushThenFlush
    <3> QED
      BY <1>1, <3>1, <3>2
  <2>2. ASSUME NEW c \in Calls, Flush(c)
        PROVE  DictInv'
    <3>1. UNCHANGED <<disk, work, cache>>
      BY <2>2 DEF Flush
    <3>2. txq # <<>> => txq' # <<>>
      BY <1>0, <2>2, StartFlushEndsNone DEF Flush
    <3> QED
      BY <1>1, <3>1, <3>2
  <2>3. ASSUME JobStep, NothingAborts
        PROVE  DictInv'
    BY <1>0, <2>3, JobDict, DictInvParts
  <2>4. ASSUME NEW t \in Terms, Lookup(t)
        PROVE  DictInv'
    <3>1. UNCHANGED <<disk, work, txq>>
      BY <2>4 DEF Lookup
    <3> QED
      BY <1>0, <2>4, <3>1, LookupDict, DictInvParts
  <2>5. CASE Close
    <3>1. UNCHANGED <<disk, work, cache, txq>>
      BY <2>5 DEF Close
    <3> QED
      BY <1>1, <3>1
  <2>6. CASE Reopen \/ Crash
    <3>1. /\ work' = disk /\ disk' = disk
          /\ termToId' = [t \in Terms |-> NoId] /\ idToTerm' = [i \in {} |-> i]
      BY <2>6 DEF Reopen, Crash, NewSession
    <3>2. Agreeing(termToId', idToTerm', work'.terms)
      BY <3>1 DEF Agreeing
    <3>3. DictParts(disk', work', termToId', idToTerm')
      BY <3>1, <3>2 DEF DictInv, DictParts
    <3> QED
      BY <1>0, <3>1, <3>3, DictInvParts
  <2>7. NothingAborts \/ UNCHANGED vars
    OBVIOUS
  <2>8. CASE UNCHANGED vars
    BY <1>1, <2>8 DEF vars
  <2>9. CASE NothingAborts
    BY <1>2, <2>1, <2>2, <2>3, <2>4, <2>5, <2>6, <2>9
       DEF Next, AddQuad, DeleteQuad, Tick, NothingAborts
  <2> QED
    BY <2>7, <2>8, <2>9
<1>3. CASE UNCHANGED vars
  BY <1>1, <1>3 DEF vars
<1> QED
  BY <1>2, <1>3

\* An empty database and empty caches agree.
LEMMA InitDict ==
  ASSUME Init
  PROVE  DictInv
<1>1. IndexInv
  <2>1. Agree(EmptyDb)
    BY DEF Agree, EmptyDb, Indexes
  <2> QED
    BY <2>1, InitIInv DEF Init, IndexInv
<1>2. disk = EmptyDb /\ work = EmptyDb /\ EmptyDb.terms = <<>> /\ EmptyDb.idx["spo"] = {}
  BY DEF Init, EmptyDb, Indexes
<1>3. Agreeing(termToId, idToTerm, <<>>)
  BY DEF Init, Agreeing
<1>4. DOMAIN <<>> = {}
  OBVIOUS
<1> QED
  BY <1>1, <1>2, <1>3, <1>4 DEF DictInv, Distinct, IdsHaveTerms

\* The induction: DictInv holds of every run in which no transaction fails.
LEMMA DictInvariant == SafetySpec /\ [][NothingAborts]_vars => []DictInv
<1>1. Init => DictInv
  BY InitDict
<1>2. DictInv /\ [Next]_vars /\ [NothingAborts]_vars => DictInv'
  BY DictPreserved
<1> QED
  BY <1>1, <1>2, PTL DEF SafetySpec

\* As long as nothing aborts, every id in an index has a term record, and every cached
\* id is that of its record, through concurrent flushes, deletions whose terms are read
\* meanwhile, closes and crashes.
THEOREM DictionaryStaysConsistent ==
  SafetySpec /\ [][NothingAborts]_vars => []DictionaryConsistent
<1>1. DictInv => DictionaryConsistent
  BY DEF DictInv, DictionaryConsistent, IdsHaveTerms, Agreeing
<1> QED
  BY <1>1, DictInvariant, PTL
-----------------------------------------------------------------------------
(***************************************************************************)
(* Reads by terms.                                                         *)
(***************************************************************************)

\* While nothing writes, a term's id and an id's term are those of the records.
LEMMA LookupsAreExact ==
  ASSUME DictInv, work = disk
  PROVE  /\ \A t \in Terms : Known(t) => /\ IdOf(t) \in DOMAIN disk.terms
                                         /\ disk.terms[IdOf(t)] = t
                                         /\ IdOf(t) # Unbound
         /\ \A t \in Terms : t \in Range(disk.terms) => Known(t)
         /\ \A i \in DOMAIN disk.terms : TermOf(i) = disk.terms[i]
<1>1. Agreeing(termToId, idToTerm, disk.terms) /\ disk.terms \in Seq(Terms)
  BY TypeParts DEF DictInv, IndexInv, IInv, FlowInv, DictType, DbOf
<1>2. ASSUME NEW t \in Terms, Known(t)
      PROVE  IdOf(t) \in DOMAIN disk.terms /\ disk.terms[IdOf(t)] = t
  <2>1. CASE termToId[t] # NoId
    BY <1>1, <2>1 DEF Agreeing, IdOf
  <2>2. CASE termToId[t] = NoId
    <3>1. t \in Range(disk.terms) /\ IdOf(t) = IdIn(disk.terms, t)
      BY <1>2, <2>2 DEF Known, IdOf
    <3> QED
      BY <1>1, <3>1, IdOfRecord
  <2> QED
    BY <2>1, <2>2
<1>3. \A i \in DOMAIN disk.terms : i # Unbound
  BY <1>1 DEF Unbound
<1>4. \A i \in DOMAIN disk.terms : TermOf(i) = disk.terms[i]
  BY <1>1 DEF Agreeing, TermOf
<1> QED
  BY <1>2, <1>3, <1>4 DEF Known

\* A pattern is a function of the four places.
LEMMA PatternType ==
  ASSUME NEW pt \in TermPatterns
  PROVE  pt \in [1..4 -> Terms \cup {Unspecified}]
<1>1. PICK bound \in SUBSET (1..4), q \in [1..4 -> Quads] :
        pt = [i \in 1..4 |-> IF i \in bound THEN q[i][i] ELSE Unspecified]
  BY DEF TermPatterns
<1>2. \A i \in 1..4 : q[i][i] \in Terms
  BY QuadsAssumption
<1> QED
  BY <1>1, <1>2

\* The ids of a pattern whose terms have one.
LEMMA ResolvedIds ==
  ASSUME DictInv, work = disk, NEW pt \in [1..4 -> Terms \cup {Unspecified}], Resolvable(pt)
  PROVE  /\ Resolved(pt) \in Patterns
         /\ \A i \in 1..4 :
              IF pt[i] = Unspecified
              THEN Resolved(pt)[i] = Unbound
              ELSE /\ Resolved(pt)[i] \in DOMAIN disk.terms \ {Unbound}
                   /\ disk.terms[Resolved(pt)[i]] = pt[i]
<1>1. disk.terms \in Seq(Terms)
  BY TypeParts DEF DictInv, IndexInv, IInv, FlowInv, DictType, DbOf
<1>2. ASSUME NEW i \in 1..4, pt[i] # Unspecified
      PROVE  /\ Resolved(pt)[i] \in DOMAIN disk.terms /\ disk.terms[Resolved(pt)[i]] = pt[i]
             /\ Resolved(pt)[i] # Unbound
  <2>1. pt[i] \in Terms /\ Known(pt[i]) /\ Resolved(pt)[i] = IdOf(pt[i])
    BY <1>2 DEF Resolvable, Resolved
  <2> QED
    BY <2>1, LookupsAreExact
<1>3. \A i \in 1..4 : pt[i] = Unspecified => Resolved(pt)[i] = Unbound
  BY DEF Resolved
<1>4. \A i \in 1..4 : Resolved(pt)[i] \in Nat
  BY <1>1, <1>2, <1>3 DEF Unbound
<1>5. Resolved(pt) = [i \in 1..4 |-> Resolved(pt)[i]]
  BY DEF Resolved
<1> QED
  BY <1>2, <1>3, <1>4, <1>5 DEF Patterns

\* A stored key fits the ids of a pattern exactly if its quad fits the terms.
LEMMA FitsByTerms ==
  ASSUME DictInv, work = disk, NEW pt \in [1..4 -> Terms \cup {Unspecified}], Resolvable(pt),
         NEW k \in disk.idx["spo"]
  PROVE  Fits(Resolved(pt), k) <=>
           \A i \in 1..4 : pt[i] \in {Unspecified, Named(disk.terms, k)[i]}
<1>1. /\ disk.terms \in Seq(Terms)
      /\ \A i \in 1..4 : k[i] \in DOMAIN disk.terms /\ k[i] # Unbound
  <2>1. disk \in DbOf
    BY TypeParts DEF DictInv, IndexInv, IInv, FlowInv, DictType
  <2>2. disk.terms \in Seq(Terms)
    BY <2>1 DEF DbOf
  <2>3. \A i \in 1..4 : k[i] \in DOMAIN disk.terms
    BY DEF DictInv, IdsHaveTerms
  <2> QED
    BY <2>2, <2>3 DEF Unbound
<1>2. ASSUME NEW i \in 1..4
      PROVE  Resolved(pt)[i] \in {Unbound, k[i]} <=>
               pt[i] \in {Unspecified, Named(disk.terms, k)[i]}
  <2>1. Named(disk.terms, k)[i] = disk.terms[k[i]] /\ disk.terms[k[i]] # Unspecified
    BY <1>1, UnspecifiedAssumption DEF Named
  <2>2. CASE pt[i] = Unspecified
    BY <2>2, ResolvedIds
  <2>3. CASE pt[i] # Unspecified
    <3>1. /\ Resolved(pt)[i] \in DOMAIN disk.terms \ {Unbound}
          /\ disk.terms[Resolved(pt)[i]] = pt[i]
      BY <2>3, ResolvedIds
    <3>2. Resolved(pt)[i] = k[i] <=> disk.terms[Resolved(pt)[i]] = disk.terms[k[i]]
      BY <1>1, <3>1 DEF DictInv, Distinct
    <3> QED
      BY <2>1, <2>3, <3>1, <3>2
  <2> QED
    BY <2>2, <2>3
<1> QED
  BY <1>2 DEF Fits

\* As many quads as keys.
LEMMA AsManyQuads ==
  ASSUME NEW ts \in Seq(Terms), Distinct(ts), NEW K \in SUBSET Keys, IsFiniteSet(K),
         \A k \in K : \A i \in 1..4 : k[i] \in DOMAIN ts
  PROVE  Cardinality({Named(ts, k) : k \in K}) = Cardinality(K)
<1> DEFINE T == {Named(ts, k) : k \in K}
           f == [k \in K |-> Named(ts, k)]
<1>1. \A k, m \in K : Named(ts, k) = Named(ts, m) => k = m
  BY NamedOnce
<1>2. f \in Bijection(K, T)
  <2>1. f \in [K -> T] /\ \A k \in K : f[k] = Named(ts, k)
    OBVIOUS
  <2>2. \A t \in T : \E k \in K : f[k] = t
    BY <2>1
  <2>3. \A k, m \in K : f[k] = f[m] => k = m
    BY <1>1, <2>1
  <2> HIDE DEF f, T
  <2> QED
    BY <2>1, <2>2, <2>3 DEF Bijection, Injection, Surjection, IsInjective
<1>3. ExistsBijection(K, T)
  BY <1>2 DEF ExistsBijection
<1> HIDE DEF T
<1>4. Cardinality(T) = Cardinality(K)
  BY <1>3, FS_Bijection
<1> QED
  BY <1>4 DEF T

\* The index is finite, so its keys can be counted.
FiniteIndex == IsFiniteSet(disk.idx["spo"]) /\ IsFiniteSet(work.idx["spo"])

\* A read of terms between two batches is exact.
LEMMA ExactBetweenBatches ==
  ASSUME DictInv, FiniteIndex, CanRead
  PROVE  ReadsAreExact
<1>1. work = disk
  BY EndedIsCommitted DEF CanRead
<1>2. disk \in DbOf /\ Agree(disk)
  BY TypeParts DEF DictInv, IndexInv, IInv, FlowInv, DictType
<1> SUFFICES
      ASSUME NEW pt \in TermPatterns
      PROVE  LET expected == {q \in Content(disk) : \A i \in 1..4 : pt[i] \in {Unspecified, q[i]}}
             IN  IF Resolvable(pt)
                 THEN /\ Matches(pt) = expected
                      /\ Count(pt) = Cardinality(expected) \/ GraphOnly(Resolved(pt))
                 ELSE expected = {}
  BY DEF ReadsAreExact
<1> DEFINE named    == {Named(disk.terms, k) : k \in disk.idx["spo"]}
           expected == {q \in named : \A i \in 1..4 : pt[i] \in {Unspecified, q[i]}}
           fitting  == {k \in disk.idx["spo"] : Fits(Resolved(pt), k)}
<1>3. Content(disk) = named
  BY ContentIs
<1>4. pt \in [1..4 -> Terms \cup {Unspecified}]
  BY PatternType
<1>5. /\ disk.terms \in Seq(Terms) /\ Distinct(disk.terms)
      /\ \A k \in disk.idx["spo"] : /\ k \in Keys
                                    /\ \A i \in 1..4 : k[i] \in DOMAIN disk.terms
  BY <1>2 DEF DictInv, IdsHaveTerms, DbOf, Keys, Indexes
<1>6. CASE Resolvable(pt)
  <2>1. fitting = {k \in disk.idx["spo"] :
                     \A i \in 1..4 : pt[i] \in {Unspecified, Named(disk.terms, k)[i]}}
    BY <1>1, <1>4, <1>6, FitsByTerms
  <2>2. expected = {Named(disk.terms, k) : k \in fitting}
    BY <2>1
  <2>3. Matches(pt) = {Named(disk.terms, k) : k \in fitting}
    <3>1. MatchQuads(disk, Resolved(pt)) = fitting
      BY <1>1, <1>2, <1>4, <1>6, ResolvedIds, MatchIsExact
    <3>2. \A k \in fitting : [i \in 1..4 |-> TermOf(k[i])] = Named(disk.terms, k)
      BY <1>1, <1>5, LookupsAreExact DEF Named
    <3> HIDE DEF fitting
    <3> QED
      BY <3>1, <3>2 DEF Matches
  <2>4. Count(pt) = Cardinality(expected) \/ GraphOnly(Resolved(pt))
    <3>1. CASE ~GraphOnly(Resolved(pt))
      <4>1. CountQuads(disk, Resolved(pt)) = Cardinality(fitting)
        BY <1>1, <1>2, <1>4, <1>6, <3>1, ResolvedIds, CountIsExact
      <4>2. IsFiniteSet(fitting) /\ fitting \in SUBSET Keys
        BY <1>5, FS_Subset DEF FiniteIndex
      <4>3. \A k \in fitting : \A i \in 1..4 : k[i] \in DOMAIN disk.terms
        BY <1>5
      <4> HIDE DEF fitting
      <4>4. Cardinality({Named(disk.terms, k) : k \in fitting}) = Cardinality(fitting)
        BY <1>5, <4>2, <4>3, AsManyQuads
      <4> QED
        BY <2>2, <4>1, <4>4 DEF Count
    <3> QED
      BY <3>1
  <2> HIDE DEF expected, fitting
  <2> QED
    BY <1>3, <1>6, <2>2, <2>3, <2>4 DEF expected
<1>7. CASE ~Resolvable(pt)
  <2>1. PICK i \in 1..4 : pt[i] # Unspecified /\ ~Known(pt[i])
    BY <1>7 DEF Resolvable
  <2>2. pt[i] \in Terms /\ pt[i] \notin Range(disk.terms)
    BY <1>1, <1>4, <2>1, LookupsAreExact
  <2>3. \A k \in disk.idx["spo"] : Named(disk.terms, k)[i] \in Range(disk.terms)
    BY <1>5 DEF Named, Range
  <2>4. expected = {}
    BY <2>1, <2>2, <2>3
  <2> HIDE DEF expected
  <2> QED
    BY <1>3, <1>7, <2>4 DEF expected
<1> QED
  BY <1>6, <1>7

\* The indexes hold finitely many keys.
LEMMA FinitePreserved ==
  ASSUME DictInv, FiniteIndex, [Next]_vars
  PROVE  FiniteIndex'
<1>0. disk \in DbOf /\ work \in DbOf
  BY TypeParts DEF DictInv, IndexInv, IInv, FlowInv, DictType
<1>1. CASE disk' \in {disk, work} /\ work' \in {disk, work}
  BY <1>1 DEF FiniteIndex
<1>2. CASE AddStep
  <2> DEFINE q == Head(txq).adds[Head(txq).na + 1].q
  <2>1. \E ids \in Keys : work'.idx["spo"] = work.idx["spo"] \cup {ids}
    <3> HIDE DEF q
    <3> QED
      BY <1>2, AddStepAdds DEF q
  <2>2. disk' = disk
    BY <1>2 DEF AddStep
  <2> QED
    BY <2>1, <2>2, FS_AddElement DEF FiniteIndex
<1>3. CASE DeleteStep
  <2>1. \E ids \in Keys : work'.idx["spo"] = work.idx["spo"] \ {ids}
    BY <1>3, DeleteStepDeletes
  <2>2. disk' = disk
    BY <1>3 DEF DeleteStep
  <2> QED
    BY <2>1, <2>2, FS_RemoveElement DEF FiniteIndex
<1>4. CASE JobStep
  <2>1. CASE AddClashes \/ AutoCommit \/ SkipDelete \/ DeleteTooLate \/ Commit
    BY <1>1, <2>1 DEF AddClashes, AutoCommit, SkipDelete, DeleteTooLate, Commit
  <2> QED
    BY <1>2, <1>3, <1>4, <2>1 DEF JobStep
<1>5. ASSUME NEW q \in Quads, AddQuad(q) \/ DeleteQuad(q)
      PROVE  FiniteIndex'
  BY <1>1, <1>5 DEF AddQuad, DeleteQuad, PushThenFlush
<1>6. ASSUME NEW c \in Calls, Flush(c)
      PROVE  FiniteIndex'
  BY <1>1, <1>6 DEF Flush
<1>7. ASSUME NEW t \in Terms, Lookup(t)
      PROVE  FiniteIndex'
  BY <1>1, <1>7 DEF Lookup
<1>8. CASE Tick \/ Close \/ Abort \/ Reopen \/ Crash
  BY <1>1, <1>6, <1>8 DEF Tick, Close, Abort, Reopen, Crash, NewSession
<1>9. CASE UNCHANGED vars
  BY <1>1, <1>9 DEF vars
<1> QED
  BY <1>4, <1>5, <1>6, <1>7, <1>8, <1>9 DEF Next

\* As long as nothing aborts, a read finds the committed quads that match its pattern and
\* no others, and counts as many, whichever index it takes and whatever the caches hold.
THEOREM ReadsStayExact == SafetySpec /\ [][NothingAborts]_vars => []ReadsAreExact
<1>1. Init => FiniteIndex
  BY FS_EmptySet DEF Init, EmptyDb, Indexes, FiniteIndex
<1>2. DictInv /\ FiniteIndex /\ [Next]_vars => FiniteIndex'
  BY FinitePreserved
<1>3. DictInv /\ FiniteIndex => ReadsAreExact
  <2>1. ~CanRead => ReadsAreExact
    BY DEF ReadsAreExact
  <2> QED
    BY <2>1, ExactBetweenBatches
<1> QED
  BY <1>1, <1>2, <1>3, DictInvariant, PTL DEF SafetySpec
-----------------------------------------------------------------------------
(***************************************************************************)
(* The abstract quad set.                                                  *)
(***************************************************************************)

\* What is stored after an addition and after a deletion.
LEMMA ContentChanges ==
  ASSUME DictInv
  PROVE  /\ \A q : AddStep /\ q = Head(txq).adds[Head(txq).na + 1].q =>
                     Content(work') = Content(work) \cup {q}
         /\ DeleteStep => Content(work') = Content(work) \ {NextDelete}
         /\ \A q : (\E i \in 1..4 : q[i] \notin Range(work.terms)) => q \notin Content(work)
<1>1. /\ work.terms \in Seq(Terms) /\ Distinct(work.terms)
      /\ \A k \in work.idx["spo"] : /\ k \in Keys
                                    /\ \A i \in 1..4 : k[i] \in DOMAIN work.terms
  <2>1. work \in DbOf
    BY TypeParts DEF DictInv, IndexInv, IInv, FlowInv, DictType
  <2> QED
    BY <2>1 DEF DictInv, IdsHaveTerms, DbOf, Keys, Indexes
<1>2. /\ Content(work) = {Named(work.terms, k) : k \in work.idx["spo"]}
      /\ Content(work') = {Named(work'.terms, k) : k \in work'.idx["spo"]}
  BY ContentIs
<1>3. ASSUME NEW q, AddStep, q = Head(txq).adds[Head(txq).na + 1].q
      PROVE  Content(work') = Content(work) \cup {q}
  <2>1. /\ Extends(work'.terms, work.terms)
        /\ \E ids \in Keys : /\ work'.idx["spo"] = work.idx["spo"] \cup {ids}
                             /\ Named(work'.terms, ids) = q
    BY <1>3, AddStepAdds
  <2>2. \A k \in work.idx["spo"] : Named(work'.terms, k) = Named(work.terms, k)
    BY <1>1, <2>1 DEF Extends, Named
  <2> QED
    BY <1>2, <2>1, <2>2
<1>4. ASSUME DeleteStep
      PROVE  Content(work') = Content(work) \ {NextDelete}
  <2>1. PICK ids \in Keys : /\ work'.idx["spo"] = work.idx["spo"] \ {ids}
                            /\ \A i \in 1..4 : ids[i] \in DOMAIN work.terms
                            /\ Named(work.terms, ids) = NextDelete
    BY <1>4, DeleteStepDeletes
  <2>2. work'.terms = work.terms
    BY <1>4, DeleteStepDeletes
  <2>3. \A k \in work.idx["spo"] : Named(work.terms, k) = NextDelete => k = ids
    BY <1>1, <2>1, NamedOnce
  <2> QED
    BY <1>2, <2>1, <2>2, <2>3
<1>5. ASSUME NEW q, NEW i \in 1..4, q[i] \notin Range(work.terms)
      PROVE  q \notin Content(work)
  <2>1. \A k \in work.idx["spo"] : Named(work.terms, k)[i] \in Range(work.terms)
    BY <1>1 DEF Named, Range
  <2> QED
    BY <1>2, <1>5, <2>1
<1> QED
  BY <1>3, <1>4, <1>5

\* The quads of the first k operations of s, and a quad whose terms the cache has met.
FirstQuads(s, k) == {s[i].q : i \in DOMAIN s \cap 1..k}
Met(t2i, q)      == \A t \in Range(q) : t2i[t] # NoId

\* Where job h stands: it has turned the quads `before` into `after`, the additions
\* first, and their terms are in the caches.
Underway(h, before, after, t2i) ==
  /\ after = (before \cup FirstQuads(h.adds, h.na)) \ FirstQuads(h.dels, h.nd)
  /\ h.na <= Len(h.adds) /\ h.nd <= Len(h.dels)
  /\ h.nd = 0 \/ h.na = Len(h.adds)
  /\ \A q \in FirstQuads(h.adds, h.na) : Met(t2i, q)

\* What the open transaction has written is what its counters say.
WritingInv == \A j \in DOMAIN txq : Underway(txq[j], Content(disk), Content(work), termToId)

\* The first quads of a buffer, one more of them, and all of them.
LEMMA FirstOfBuffer ==
  ASSUME NEW n \in Nat, NEW s \in Seq(OpUpTo(n)), NEW k \in Nat
  PROVE  /\ FirstQuads(s, 0) = {}
         /\ k < Len(s) => FirstQuads(s, k + 1) = FirstQuads(s, k) \cup {s[k + 1].q}
         /\ FirstQuads(s, Len(s)) = QuadsOf(s)
<1>1. 1..0 = {} /\ DOMAIN s = 1..Len(s) /\ Len(s) \in Nat
  OBVIOUS
<1>2. ASSUME k < Len(s)
      PROVE  DOMAIN s \cap 1..(k + 1) = (DOMAIN s \cap 1..k) \cup {k + 1}
  BY <1>1, <1>2
<1>3. k < Len(s) => FirstQuads(s, k + 1) = FirstQuads(s, k) \cup {s[k + 1].q}
  BY <1>2 DEF FirstQuads
<1>4. DOMAIN s \cap 1..Len(s) = DOMAIN s
  BY <1>1
<1> QED
  BY <1>1, <1>3, <1>4 DEF FirstQuads, QuadsOf

\* A job that starts has done nothing.
LEMMA StartsFresh ==
  ASSUME NEW n \in Nat, NEW c, NEW adds \in Seq(OpUpTo(n)), NEW dels \in Seq(OpUpTo(n)),
         NEW X, NEW t2i
  PROVE  Underway(Job(c, adds, dels), X, X, t2i)
<1> DEFINE h == Job(c, adds, dels)
<1>1. h.adds = adds /\ h.dels = dels /\ h.na = 0 /\ h.nd = 0
  BY DEF Job
<1>2. FirstQuads(adds, 0) = {} /\ FirstQuads(dels, 0) = {}
  BY FirstOfBuffer
<1>3. Len(adds) \in Nat /\ Len(dels) \in Nat
  OBVIOUS
<1> HIDE DEF h
<1> QED
  BY <1>1, <1>2, <1>3 DEF Underway, h

\* The only job of the queue.
LEMMA TheJob ==
  ASSUME FlowInv, txq # <<>>
  PROVE  /\ DOMAIN txq = {1} /\ txq[1] = Head(txq) /\ Tail(txq) = <<>> /\ txq = <<Head(txq)>>
         /\ Head(txq) \in JobUpTo(opCount) /\ opCount \in Nat
         /\ Head(txq).na \in Nat /\ Head(txq).nd \in Nat
         /\ Head(txq).adds \in Seq(OpUpTo(opCount)) /\ Head(txq).dels \in Seq(OpUpTo(opCount))
         /\ Head(txq).live \in BOOLEAN
<1>1. /\ DOMAIN txq = {1} /\ Tail(txq) = <<>>
  BY LastJob, TypeParts DEF FlowInv
<1>2. Head(txq) \in JobUpTo(opCount) /\ opCount \in Nat /\ txq[1] = Head(txq) /\ txq \in Seq(JobUpTo(opCount))
  BY HeadType
<1>3. txq = <<Head(txq)>>
  BY <1>1, <1>2
<1> QED
  BY <1>1, <1>2, <1>3 DEF JobUpTo

\* A flush() call past its wait, with no job left.
LEMMA SpliceCases ==
  ASSUME NEW c, NEW called, NEW adds, NEW dels,
         SpliceAndWrite(c, called, <<>>, adds, dels)
  PROVE  \/ /\ adds = <<>> /\ dels = <<>> /\ pendingAdds' = adds /\ pendingDeletes' = dels
            /\ txq' = <<>>
         \/ /\ isOpen /\ pendingAdds' = <<>> /\ pendingDeletes' = <<>>
            /\ txq' = <<Job(c, adds, dels)>>
         \/ /\ ~isOpen /\ pendingAdds' = <<>> /\ pendingDeletes' = <<>>
            /\ txq' = <<>>
BY DEF SpliceAndWrite, ReturnEmpty, BeginJob, BeginFails

\* Two jobs that have the same batch and stand at the same place.
SameJob(h, k) ==
  k.adds = h.adds /\ k.dels = h.dels /\ k.na = h.na /\ k.nd = h.nd /\ k.live = h.live

\* The only entry of the queue is replaced.
LEMMA OnlyEntry ==
  ASSUME NEW h, NEW k
  PROVE  [<<h>> EXCEPT ![1] = k] = <<k>>
OBVIOUS

\* A flush() call waits for the job, or finds none.
LEMMA StartFlushCases ==
  ASSUME FlowInv, NEW c, NEW adds, NEW dels, NEW m, StartFlush(c, adds, dels, m)
  PROVE  \/ /\ txq # <<>> /\ pendingAdds' = adds /\ pendingDeletes' = dels
            /\ \E k : txq' = <<k>> /\ SameJob(Head(txq), k)
         \/ /\ txq = <<>>
            /\ \E called : SpliceAndWrite(c, called, <<>>, adds, dels)
<1>1. CASE AwaitRunning(c, adds, dels, m)
  <2>1. txq # <<>> /\ pendingAdds' = adds /\ pendingDeletes' = dels
        /\ txq' = [txq EXCEPT ![Len(txq)].waiters = Append(@, c)]
    BY <1>1 DEF AwaitRunning, FlowInv, FlushInv
  <2>2. txq = <<Head(txq)>> /\ Head(txq) \in JobUpTo(opCount)
    BY <2>1, TheJob
  <2> DEFINE k == [Head(txq) EXCEPT !.waiters = Append(@, c)]
  <2>3. SameJob(Head(txq), k)
    BY <2>2 DEF SameJob, JobUpTo
  <2>4. txq' = [txq EXCEPT ![Len(txq)] = [txq[Len(txq)] EXCEPT !.waiters = Append(@, c)]]
    BY <2>1
  <2>5. Len(txq) = 1 /\ txq[1] = Head(txq)
    BY <2>2
  <2>6. txq' = [txq EXCEPT ![1] = k]
    BY <2>4, <2>5
  <2> HIDE DEF k
  <2>7. txq' = <<k>>
    BY <2>2, <2>6, OnlyEntry
  <2> QED
    BY <2>1, <2>3, <2>7
<1>2. CASE ~flushPromise /\ SpliceAndWrite(c, [calls EXCEPT ![c] = [IdleCall EXCEPT !.upto = m]],
                                           txq, adds, dels)
  <2>1. txq = <<>>
    BY <1>2 DEF FlowInv, FlushInv
  <2> QED
    BY <1>2, <2>1
<1> QED
  BY <1>1, <1>2 DEF StartFlush

\* Quads whose terms are cached stay so while the session lasts.
LEMMA MetGrows ==
  ASSUME NEW t2i, NEW u2i, NEW q \in [1..4 -> Terms],
         \A t \in Terms : t2i[t] # NoId => u2i[t] # NoId,
         Met(t2i, q)
  PROVE  Met(u2i, q)
BY DEF Met, Range

\* What a transaction still has to write are quads.
LEMMA JobQuads ==
  ASSUME FlowInv, txq # <<>>
  PROVE  /\ QuadsOf(Head(txq).adds) \subseteq Quads
         /\ \A k \in Nat : FirstQuads(Head(txq).adds, k) \subseteq [1..4 -> Terms]
<1>1. Head(txq).adds \in Seq(OpUpTo(opCount))
  BY TheJob
<1>2. \A i \in DOMAIN Head(txq).adds : Head(txq).adds[i].q \in Quads
  <2>1. \A i \in DOMAIN Head(txq).adds : Head(txq).adds[i] \in OpUpTo(opCount)
    BY <1>1
  <2> QED
    BY <2>1 DEF OpUpTo
<1> QED
  BY <1>2, QuadsAssumption DEF QuadsOf, FirstQuads

\* WritingInv after a step, by what the step makes of the job.
LEMMA WritingInvOf ==
  /\ txq' = <<>> => WritingInv'
  /\ \A k : txq' = <<k>> /\ Underway(k, Content(disk'), Content(work'), termToId') => WritingInv'
  /\ \A X : WritingInv /\ txq = <<X>> => Underway(X, Content(disk), Content(work), termToId)
<1>1. DOMAIN <<>> = {} /\ \A k : DOMAIN <<k>> = {1} /\ <<k>>[1] = k
  OBVIOUS
<1> QED
  BY <1>1 DEF WritingInv, Underway, Content

\* The same work, as seen with more terms in the caches.
LEMMA UnderwayGrows ==
  ASSUME FlowInv, txq # <<>>, NEW k, SameJob(Head(txq), k), NEW X, NEW Y, NEW u2i,
         Underway(Head(txq), X, Y, termToId),
         \A t \in Terms : termToId[t] # NoId => u2i[t] # NoId
  PROVE  Underway(k, X, Y, u2i)
<1>1. \A q \in FirstQuads(Head(txq).adds, Head(txq).na) : q \in [1..4 -> Terms]
  BY TheJob, JobQuads
<1>2. \A q \in FirstQuads(k.adds, k.na) : Met(u2i, q)
  BY <1>1, MetGrows DEF SameJob, Underway
<1> QED
  BY <1>2 DEF SameJob, Underway

\* A step that queues something or nothing, and starts a flush or none.
LEMMA FlushWriting ==
  ASSUME FlowInv, WritingInv, txq = <<>> => work = disk, UNCHANGED <<disk, work, cache>>,
         NEW n \in Nat, NEW adds \in Seq(OpUpTo(n)), NEW dels \in Seq(OpUpTo(n)),
         NEW c, NEW m, StartFlush(c, adds, dels, m)
  PROVE  WritingInv'
<1>1. CASE txq # <<>>
  <2>1. PICK k : txq' = <<k>> /\ SameJob(Head(txq), k)
    BY <1>1, StartFlushCases
  <2>2. Underway(Head(txq), Content(disk), Content(work), termToId)
    BY <1>1, TheJob, WritingInvOf
  <2>3. Underway(k, Content(disk'), Content(work'), termToId')
    BY <1>1, <2>1, <2>2, UnderwayGrows DEF cache
  <2> QED
    BY <2>1, <2>3, WritingInvOf
<1>2. CASE txq = <<>>
  <2>1. txq' = <<>> \/ txq' = <<Job(c, adds, dels)>>
    BY <1>2, StartFlushCases, SpliceCases
  <2>2. Content(disk') = Content(work')
    BY <1>2
  <2>3. Underway(Job(c, adds, dels), Content(disk'), Content(work'), termToId')
    BY <2>2, StartsFresh
  <2> QED
    BY <2>1, <2>3, WritingInvOf
<1> QED
  BY <1>1, <1>2

\* How a job ends.
LEMMA EndWriting ==
  ASSUME FlowInv, txq # <<>>, work' = disk', JobFails(Head(txq)) \/ JobSucceeds(Head(txq))
  PROVE  WritingInv'
<1>1. Tail(txq) = <<>> /\ opCount \in Nat
  BY TheJob
<1>2. CASE txq' = Tail(txq)
  BY <1>1, <1>2, WritingInvOf
<1>3. CASE SpliceAndWrite(Head(Head(txq).waiters), Returned(Head(txq), "ok"), Tail(txq),
                          pendingAdds, pendingDeletes)
  <2> DEFINE c == Head(Head(txq).waiters)
  <2>1. txq' = <<>> \/ txq' = <<Job(c, pendingAdds, pendingDeletes)>>
    BY <1>1, <1>3, SpliceCases
  <2>2. pendingAdds \in Seq(OpUpTo(opCount)) /\ pendingDeletes \in Seq(OpUpTo(opCount))
    BY DEF FlowInv, TypeOK
  <2> HIDE DEF c
  <2>3. Underway(Job(c, pendingAdds, pendingDeletes), Content(disk'), Content(work'), termToId')
    BY <1>1, <2>2, StartsFresh
  <2> QED
    BY <2>1, <2>3, WritingInvOf
<1> QED
  BY <1>2, <1>3 DEF JobFails, JobSucceeds, ResumeNone

\* Each thing a running batch does brings it one quad further.
LEMMA JobWriting ==
  ASSUME DictInv, WritingInv, JobStep, NothingAborts
  PROVE  WritingInv'
<1>0. FlowInv /\ WorkInv
  BY DEF DictInv, IndexInv, IInv
<1>1. txq # <<>>
  BY DEF JobStep, AddStep, AddClashes, DeleteStep, AutoCommit, SkipDelete, DeleteTooLate,
         Commit, Deleting
<1> DEFINE h == Head(txq)
<1>2. /\ txq = <<h>> /\ h \in JobUpTo(opCount) /\ opCount \in Nat /\ txq[1] = h
      /\ h.na \in Nat /\ h.nd \in Nat
      /\ h.adds \in Seq(OpUpTo(opCount)) /\ h.dels \in Seq(OpUpTo(opCount))
  BY <1>0, <1>1, TheJob
<1>3. Underway(h, Content(disk), Content(work), termToId)
  BY <1>2, WritingInvOf
<1> DEFINE more == [h EXCEPT !.nd = @ + 1]
<1>4. /\ more.adds = h.adds /\ more.dels = h.dels /\ more.na = h.na /\ more.nd = h.nd + 1
      /\ AdvanceDelete => txq' = <<more>>
  BY <1>2 DEF JobUpTo, AdvanceDelete
<1>5. Deleting => /\ h.na = Len(h.adds) /\ h.nd + 1 <= Len(h.dels)
                  /\ FirstQuads(h.dels, h.nd + 1) = FirstQuads(h.dels, h.nd) \cup {NextDelete}
  <2>1. Deleting => h.na = Len(h.adds) /\ h.nd < Len(h.dels)
    BY DEF Deleting
  <2>2. NextDelete = h.dels[h.nd + 1].q
    BY DEF NextDelete
  <2>3. Len(h.dels) \in Nat
    BY <1>2
  <2> HIDE DEF h
  <2>4. h.nd < Len(h.dels) =>
          FirstQuads(h.dels, h.nd + 1) = FirstQuads(h.dels, h.nd) \cup {h.dels[h.nd + 1].q}
    BY <1>2, FirstOfBuffer
  <2>5. h.nd < Len(h.dels) => h.nd + 1 <= Len(h.dels)
    BY <1>2, <2>3
  <2> QED
    BY <2>1, <2>2, <2>4, <2>5
<1>6. CASE AddStep
  <2> DEFINE q == h.adds[h.na + 1].q
             k == [h EXCEPT !.na = h.na + 1]
  <2>1. h.na < Len(h.adds) /\ txq' = <<k>> /\ disk' = disk
    <3>1. h.na < Len(h.adds) /\ txq' = [txq EXCEPT ![1] = k] /\ disk' = disk
      BY <1>2, <1>6 DEF AddStep
    <3> HIDE DEF h, k
    <3> QED
      BY <1>2, <3>1, OnlyEntry
  <2>2. k.adds = h.adds /\ k.dels = h.dels /\ k.na = h.na + 1 /\ k.nd = h.nd
    BY <1>2 DEF JobUpTo
  <2>3. Content(work') = Content(work) \cup {q}
    BY <1>6, ContentChanges
  <2>4. /\ \A t \in Terms : termToId[t] # NoId => termToId'[t] # NoId
        /\ \A t \in Range(q) : termToId'[t] # NoId
    <3> DEFINE x == Head(txq).adds[Head(txq).na + 1].q
    <3>1. x = q
      OBVIOUS
    <3> HIDE DEF x
    <3>2. x = Head(txq).adds[Head(txq).na + 1].q
      BY DEF x
    <3>3. /\ \A t \in Terms : termToId[t] # NoId => termToId'[t] # NoId
          /\ \A t \in Range(x) : termToId'[t] # NoId
      BY <1>6, <3>2, AddStepAdds
    <3> QED
      BY <3>1, <3>3
  <2>5. FirstQuads(h.adds, h.na + 1) = FirstQuads(h.adds, h.na) \cup {q}
    <3> HIDE DEF h
    <3> QED
      BY <1>2, <2>1, FirstOfBuffer
  <2>6. h.nd = 0 /\ FirstQuads(h.dels, h.nd) = {} /\ h.na + 1 <= Len(h.adds)
    <3>1. h.nd = 0 \/ h.na = Len(h.adds)
      BY <1>3 DEF Underway
    <3>2. Len(h.adds) \in Nat
      BY <1>2
    <3> HIDE DEF h
    <3> QED
      BY <1>2, <2>1, <3>1, <3>2, FirstOfBuffer
  <2>7. \A p \in FirstQuads(h.adds, h.na) : Met(termToId', p)
    <3>1. \A p \in FirstQuads(h.adds, h.na) : p \in [1..4 -> Terms]
      BY <1>0, <1>1, <1>2, JobQuads
    <3>2. \A p \in FirstQuads(h.adds, h.na) : Met(termToId, p)
      BY <1>3 DEF Underway
    <3> QED
      BY <2>4, <3>1, <3>2, MetGrows
  <2>8. Met(termToId', q)
    BY <2>4 DEF Met
  <2> HIDE DEF h, q, k
  <2>9. Underway(k, Content(disk'), Content(work'), termToId')
    BY <1>3, <2>1, <2>2, <2>3, <2>5, <2>6, <2>7, <2>8 DEF Underway
  <2> QED
    BY <2>1, <2>9, WritingInvOf
<1>7. CASE DeleteStep
  <2>1. Deleting /\ AdvanceDelete /\ UNCHANGED <<disk, cache>>
    BY <1>7 DEF DeleteStep
  <2>2. Content(work') = Content(work) \ {NextDelete}
    BY <1>7, ContentChanges
  <2> HIDE DEF h, more
  <2>3. Underway(more, Content(disk'), Content(work'), termToId')
    BY <1>3, <1>4, <1>5, <2>1, <2>2 DEF Underway, cache
  <2> QED
    BY <1>4, <2>1, <2>3, WritingInvOf
<1>8. CASE AutoCommit
  <2> DEFINE k == [h EXCEPT !.live = FALSE]
  <2>1. txq' = <<k>> /\ disk' = work /\ UNCHANGED <<work, cache>>
    <3>1. txq' = [txq EXCEPT ![1] = k] /\ disk' = work /\ UNCHANGED <<work, cache>>
      BY <1>2, <1>8 DEF AutoCommit
    <3> HIDE DEF h, k
    <3> QED
      BY <1>2, <3>1, OnlyEntry
  <2>2. k.adds = h.adds /\ k.dels = h.dels /\ k.na = h.na /\ k.nd = h.nd
    BY <1>2 DEF JobUpTo
  <2> HIDE DEF h, k
  <2>3. Underway(k, Content(disk'), Content(work'), termToId')
    BY <1>3, <2>1, <2>2 DEF Underway, cache
  <2> QED
    BY <2>1, <2>3, WritingInvOf
<1>9. CASE SkipDelete
  <2>1. Deleting /\ AdvanceDelete /\ UNCHANGED <<disk, work>> /\ ~h.live
    BY <1>9 DEF SkipDelete
  <2>2. work = disk /\ NextDelete \in [1..4 -> Terms] /\ DictType
    BY <1>0, <2>1, EndedIsCommitted, NextDeleteType
  <2>3. NextDelete \notin Content(work)
    <3>1. PICK t \in Range(NextDelete) : IsNew(t)
      BY <1>9 DEF SkipDelete
    <3>2. \E i \in 1..4 : NextDelete[i] \notin Range(work.terms)
      BY <2>2, <3>1 DEF IsNew, Range
    <3> QED
      BY <3>2, ContentChanges
  <2>4. \A t \in Terms : termToId[t] # NoId => termToId'[t] # NoId
    BY <1>9 DEF SkipDelete, Remember
  <2>5. \A p \in FirstQuads(h.adds, h.na) : Met(termToId', p)
    <3>1. \A p \in FirstQuads(h.adds, h.na) : p \in [1..4 -> Terms]
      BY <1>0, <1>1, <1>2, JobQuads
    <3>2. \A p \in FirstQuads(h.adds, h.na) : Met(termToId, p)
      BY <1>3 DEF Underway
    <3> QED
      BY <2>4, <3>1, <3>2, MetGrows
  <2> HIDE DEF h, more
  <2>6. Underway(more, Content(disk'), Content(work'), termToId')
    BY <1>3, <1>4, <1>5, <2>1, <2>3, <2>5 DEF Underway
  <2> QED
    BY <1>4, <2>1, <2>6, WritingInvOf
<1>10. CASE DeleteTooLate
  <2>1. ~h.live /\ JobFails(h) /\ UNCHANGED <<disk, work>>
    BY <1>10 DEF DeleteTooLate
  <2>2. work' = disk'
    BY <2>1, EndedIsCommitted
  <2> QED
    BY <1>0, <1>1, <2>1, <2>2, EndWriting
<1>11. CASE Commit
  <2>1. JobSucceeds(h) /\ work' = disk'
    BY <1>11 DEF Commit
  <2> QED
    BY <1>0, <1>1, <2>1, EndWriting
<1> QED
  BY <1>6, <1>7, <1>8, <1>9, <1>10, <1>11 DEF JobStep, NothingAborts

\* A queued quad is one more in its buffer.
LEMMA Pushed ==
  ASSUME FlowInv, NEW q \in Quads
  PROVE  /\ opCount + 1 \in Nat
         /\ pendingAdds \in Seq(OpUpTo(opCount + 1))
         /\ pendingDeletes \in Seq(OpUpTo(opCount + 1))
         /\ \A s \in Seq(OpUpTo(opCount + 1)) :
              LET r == Append(s, [q |-> q, n |-> opCount + 1])
              IN  r \in Seq(OpUpTo(opCount + 1)) /\ QuadsOf(r) = QuadsOf(s) \cup {q}
<1> DEFINE op == [q |-> q, n |-> opCount + 1]
<1>1. opCount \in Nat
  BY DEF FlowInv, TypeOK
<1>2. op \in OpUpTo(opCount + 1)
  BY <1>1 DEF OpUpTo
<1>3. pendingAdds \in Seq(OpUpTo(opCount + 1)) /\ pendingDeletes \in Seq(OpUpTo(opCount + 1))
  <2>1. Seq(OpUpTo(opCount)) \subseteq Seq(OpUpTo(opCount + 1))
    BY <1>1, TypesGrow
  <2> QED
    BY <2>1 DEF FlowInv, TypeOK
<1>4. op.q = q
  OBVIOUS
<1> HIDE DEF op
<1>5. ASSUME NEW s \in Seq(OpUpTo(opCount + 1))
      PROVE  /\ Append(s, op) \in Seq(OpUpTo(opCount + 1))
             /\ QuadsOf(Append(s, op)) = QuadsOf(s) \cup {q}
  <2> DEFINE r == Append(s, op)
  <2>1. /\ r \in Seq(OpUpTo(opCount + 1)) /\ DOMAIN r = DOMAIN s \cup {Len(s) + 1}
        /\ r[Len(s) + 1] = op /\ \A i \in DOMAIN s : r[i] = s[i]
    BY <1>2
  <2> HIDE DEF r
  <2>2. QuadsOf(r) = QuadsOf(s) \cup {q}
    BY <1>4, <2>1 DEF QuadsOf
  <2> QED
    BY <2>1, <2>2 DEF r
<1> QED
  BY <1>1, <1>3, <1>5 DEF op

\* Every step keeps WritingInv: the transaction under way has done what it counted.
LEMMA WritingPreserved ==
  ASSUME DictInv, WritingInv, [Next]_vars, [NothingAborts]_vars
  PROVE  WritingInv'
<1>0. FlowInv /\ (txq = <<>> => work = disk)
  BY DEF DictInv, IndexInv, IInv
<1>1. ASSUME UNCHANGED <<disk, work, txq>>,
             \A t \in Terms : termToId[t] # NoId => termToId'[t] # NoId
      PROVE  WritingInv'
  <2>1. CASE txq = <<>>
    BY <1>1, <2>1, WritingInvOf
  <2>2. CASE txq # <<>>
    <3>1. Underway(Head(txq), Content(disk), Content(work), termToId)
      BY <1>0, <2>2, TheJob, WritingInvOf
    <3>2. Underway(Head(txq), Content(disk'), Content(work'), termToId')
      BY <1>0, <1>1, <2>2, <3>1, UnderwayGrows DEF SameJob
    <3>3. txq' = <<Head(txq)>>
      BY <1>0, <1>1, <2>2, TheJob
    <3> QED
      BY <3>2, <3>3, WritingInvOf
  <2> QED
    BY <2>1, <2>2
<1>2. ASSUME NEW n \in Nat, NEW adds \in Seq(OpUpTo(n)), NEW dels \in Seq(OpUpTo(n)),
             PushThenFlush(adds, dels)
      PROVE  WritingInv'
  <2>1. UNCHANGED <<disk, work, cache>>
    BY <1>2 DEF PushThenFlush
  <2>2. CASE UNCHANGED txq
    BY <1>1, <2>1, <2>2 DEF cache
  <2>3. ASSUME NEW c \in Calls, StartFlush(c, adds, dels, opCount + 1)
        PROVE  WritingInv'
    BY <1>0, <1>2, <2>1, <2>3, FlushWriting
  <2> QED
    BY <1>2, <2>2, <2>3 DEF PushThenFlush
<1>3. ASSUME NEW q \in Quads, AddQuad(q) \/ DeleteQuad(q)
      PROVE  WritingInv'
  <2> DEFINE op == [q |-> q, n |-> opCount + 1]
  <2>1. /\ opCount + 1 \in Nat
        /\ pendingAdds \in Seq(OpUpTo(opCount + 1))
        /\ pendingDeletes \in Seq(OpUpTo(opCount + 1))
        /\ Append(pendingAdds, op) \in Seq(OpUpTo(opCount + 1))
        /\ Append(pendingDeletes, op) \in Seq(OpUpTo(opCount + 1))
    BY <1>0, Pushed
  <2>2. PushThenFlush(Append(pendingAdds, op), pendingDeletes) => WritingInv'
    BY <1>2, <2>1
  <2>3. PushThenFlush(pendingAdds, Append(pendingDeletes, op)) => WritingInv'
    BY <1>2, <2>1
  <2> QED
    BY <1>3, <2>2, <2>3 DEF AddQuad, DeleteQuad
<1>4. ASSUME NEW c \in Calls, Flush(c)
      PROVE  WritingInv'
  <2>1. /\ UNCHANGED <<disk, work, cache>>
        /\ StartFlush(c, pendingAdds, pendingDeletes, opCount)
    BY <1>4 DEF Flush
  <2>2. /\ opCount \in Nat /\ pendingAdds \in Seq(OpUpTo(opCount))
        /\ pendingDeletes \in Seq(OpUpTo(opCount))
    BY <1>0 DEF FlowInv, TypeOK
  <2> QED
    BY <1>0, <2>1, <2>2, FlushWriting
<1>5. ASSUME NEW t \in Terms, Lookup(t)
      PROVE  WritingInv'
  <2>1. /\ UNCHANGED <<disk, work, txq>> /\ termToId' = [termToId EXCEPT ![t] = IdIn(disk.terms, t)]
        /\ t \in Range(disk.terms)
    BY <1>5 DEF Lookup
  <2>2. IdIn(disk.terms, t) # NoId /\ termToId \in [Terms -> Nat]
    <3>1. disk.terms \in Seq(Terms) /\ termToId \in [Terms -> Nat]
      BY <1>0, TypeParts DEF FlowInv, DictType, DbOf
    <3> QED
      BY <2>1, <3>1, IdOfRecord DEF Ids
  <2>3. \A s \in Terms : termToId[s] # NoId => termToId'[s] # NoId
    BY <2>1, <2>2
  <2> QED
    BY <1>1, <2>1, <2>3
<1>6. CASE Close
  BY <1>1, <1>6 DEF Close, cache
<1>7. CASE Reopen \/ Crash
  BY <1>7, WritingInvOf DEF Reopen, Crash, NewSession
<1>8. CASE UNCHANGED vars
  BY <1>1, <1>8 DEF vars, cache
<1>9. CASE Next /\ NothingAborts
  BY <1>3, <1>4, <1>5, <1>6, <1>7, <1>9, JobWriting DEF Next, Tick, NothingAborts
<1> QED
  BY <1>8, <1>9
-----------------------------------------------------------------------------
(***************************************************************************)
(* Hexastore implements QuadStore, step by step.                           *)
(***************************************************************************)
Entry(j)   == [adds |-> QuadsOf(j.adds), dels |-> QuadsOf(j.dels), whole |-> j.live]
\* The batch and the known quads of the refinement mapping in Hexastore.
BatchOf(s) == {Entry(s[j]) : j \in DOMAIN s}
KnownQuads == {q \in Quads : Cached(q)}

\* The batch of the refinement mapping, for none and for one transaction.
LEMMA BatchCases ==
  /\ BatchOf(<<>>) = {}
  /\ \A j : BatchOf(<<j>>) = {Entry(j)}
  /\ QuadsOf(<<>>) = {}
<1>1. DOMAIN <<>> = {} /\ \A j : DOMAIN <<j>> = {1} /\ <<j>>[1] = j
  OBVIOUS
<1> QED
  BY <1>1 DEF BatchOf, QuadsOf

\* QuadStore's Buffer in terms of Hexastore's variables.
BufferTo(a, d, canStart) ==
  \/ /\ QuadsOf(pendingAdds') = a /\ QuadsOf(pendingDeletes') = d
     /\ BatchOf(txq') = IF canStart THEN {} ELSE BatchOf(txq)
  \/ /\ canStart
     /\ BatchOf(txq') = IF isOpen THEN {[adds |-> a, dels |-> d, whole |-> TRUE]} ELSE {}
     /\ QuadsOf(pendingAdds') = {} /\ QuadsOf(pendingDeletes') = {}

\* What QuadStore's variables are, and when they do not change.
LEMMA StoreStutters ==
  ASSUME disk' = disk, QuadsOf(pendingAdds') = QuadsOf(pendingAdds),
         QuadsOf(pendingDeletes') = QuadsOf(pendingDeletes), BatchOf(txq') = BatchOf(txq),
         KnownQuads' = KnownQuads, isOpen' = isOpen
  PROVE  UNCHANGED Store!vars
BY DEF Store!vars, BatchOf, Entry, KnownQuads

\* A term that gets an id makes quads known and no quad unknown.
LEMMA KnownGrows ==
  /\ \A t \in Terms : termToId[t] # NoId => termToId'[t] # NoId
  => KnownQuads \subseteq KnownQuads' /\ KnownQuads' \subseteq Quads
<1> SUFFICES ASSUME \A t \in Terms : termToId[t] # NoId => termToId'[t] # NoId,
                    NEW q \in Quads, \A t \in Range(q) : termToId[t] # NoId
             PROVE  \A t \in Range(q) : termToId'[t] # NoId
  BY DEF KnownQuads, Cached
<1>1. Range(q) \subseteq Terms
  BY QuadsAssumption DEF Range
<1> QED
  BY <1>1

\* What is known depends on the cache alone.
LEMMA KnownSame ==
  ASSUME UNCHANGED cache
  PROVE  KnownQuads' = KnownQuads
BY DEF cache, KnownQuads, Cached

\* A splice with no job left is QuadStore's Buffer.
LEMMA SpliceBuffers ==
  ASSUME NEW c, NEW called, NEW adds, NEW dels,
         SpliceAndWrite(c, called, <<>>, adds, dels)
  PROVE  BufferTo(QuadsOf(adds), QuadsOf(dels), TRUE)
<1>1. CASE /\ adds = <<>> /\ dels = <<>> /\ pendingAdds' = adds /\ pendingDeletes' = dels
           /\ txq' = <<>>
  BY <1>1, BatchCases DEF BufferTo
<1>2. CASE /\ isOpen /\ pendingAdds' = <<>> /\ pendingDeletes' = <<>>
           /\ txq' = <<Job(c, adds, dels)>>
  <2>1. Entry(Job(c, adds, dels)) = [adds |-> QuadsOf(adds), dels |-> QuadsOf(dels), whole |-> TRUE]
    BY DEF Entry, Job
  <2> QED
    BY <1>2, <2>1, BatchCases DEF BufferTo
<1>3. CASE ~isOpen /\ pendingAdds' = <<>> /\ pendingDeletes' = <<>> /\ txq' = <<>>
  BY <1>3, BatchCases DEF BufferTo
<1> QED
  BY <1>1, <1>2, <1>3, SpliceCases

\* So is a flush() call, with what it finds in the buffer.
LEMMA StartFlushBuffers ==
  ASSUME FlowInv, NEW c, NEW adds, NEW dels, NEW m, StartFlush(c, adds, dels, m)
  PROVE  /\ BufferTo(QuadsOf(adds), QuadsOf(dels), BatchOf(txq) = {})
         /\ BatchOf(txq) # {} => /\ QuadsOf(pendingAdds') = QuadsOf(adds)
                                 /\ QuadsOf(pendingDeletes') = QuadsOf(dels)
                                 /\ BatchOf(txq') = BatchOf(txq)
<1>1. CASE txq # <<>>
  <2>1. PICK k : txq' = <<k>> /\ SameJob(Head(txq), k)
    BY <1>1, StartFlushCases
  <2>2. pendingAdds' = adds /\ pendingDeletes' = dels
    BY <1>1, StartFlushCases
  <2>3. BatchOf(txq') = BatchOf(txq) /\ BatchOf(txq) # {}
    <3>1. BatchOf(txq) = {Entry(Head(txq))} /\ BatchOf(txq') = {Entry(k)}
      BY <1>1, <2>1, TheJob, BatchCases
    <3>2. Entry(k) = Entry(Head(txq))
      BY <2>1 DEF SameJob, Entry
    <3> QED
      BY <3>1, <3>2
  <2> QED
    BY <2>2, <2>3 DEF BufferTo
<1>2. CASE txq = <<>>
  <2>1. BatchOf(txq) = {}
    BY <1>2, BatchCases
  <2>2. PICK called : SpliceAndWrite(c, called, <<>>, adds, dels)
    BY <1>2, StartFlushCases
  <2>3. BufferTo(QuadsOf(adds), QuadsOf(dels), TRUE)
    BY <2>2, SpliceBuffers
  <2>4. (BatchOf(txq) = {}) = TRUE
    BY <2>1
  <2> QED
    BY <2>1, <2>3, <2>4
<1> QED
  BY <1>1, <1>2

\* Where the step of a flush() call goes: nothing else changes.
LEMMA PushBuffers ==
  ASSUME FlowInv, NEW adds, NEW dels, PushThenFlush(adds, dels)
  PROVE  /\ BufferTo(QuadsOf(adds), QuadsOf(dels), BatchOf(txq) = {})
         /\ Content(disk') = Content(disk) /\ KnownQuads' = KnownQuads /\ isOpen' = isOpen
<1>1. UNCHANGED <<disk, work, cache, isOpen>>
  BY DEF PushThenFlush
<1>2. BufferTo(QuadsOf(adds), QuadsOf(dels), BatchOf(txq) = {})
  <2>1. CASE pendingAdds' = adds /\ pendingDeletes' = dels /\ UNCHANGED txq
    BY <2>1 DEF BufferTo
  <2>2. ASSUME NEW c \in Calls, StartFlush(c, adds, dels, opCount + 1)
        PROVE  BufferTo(QuadsOf(adds), QuadsOf(dels), BatchOf(txq) = {})
    BY <2>2, StartFlushBuffers
  <2> QED
    BY <2>1, <2>2 DEF PushThenFlush
<1> QED
  BY <1>1, <1>2, KnownSame

\* addQuad() and deleteQuad() are QuadStore's Add and Delete.
LEMMA AddRefines ==
  ASSUME FlowInv, NEW q \in Quads, AddQuad(q) \/ DeleteQuad(q)
  PROVE  Store!Add(q) \/ Store!Delete(q)
<1> DEFINE op == [q |-> q, n |-> opCount + 1]
           A  == QuadsOf(pendingAdds)
           D  == QuadsOf(pendingDeletes)
           B  == BatchOf(txq)
<1>1. /\ QuadsOf(Append(pendingAdds, op)) = A \cup {q}
      /\ QuadsOf(Append(pendingDeletes, op)) = D \cup {q}
  BY Pushed
<1>2. CASE AddQuad(q)
  <2>1. PushThenFlush(Append(pendingAdds, op), pendingDeletes)
    BY <1>2 DEF AddQuad
  <2> HIDE DEF op
  <2>2. /\ BufferTo(A \cup {q}, D, B = {})
        /\ Content(disk') = Content(disk) /\ KnownQuads' = KnownQuads /\ isOpen' = isOpen
    BY <1>1, <2>1, PushBuffers
  <2> QED
    BY <2>2 DEF Store!Add, Store!Buffer, BufferTo, BatchOf, Entry, KnownQuads
<1>3. CASE DeleteQuad(q)
  <2>1. PushThenFlush(pendingAdds, Append(pendingDeletes, op))
    BY <1>3 DEF DeleteQuad
  <2> HIDE DEF op
  <2>2. /\ BufferTo(A, D \cup {q}, B = {})
        /\ Content(disk') = Content(disk) /\ KnownQuads' = KnownQuads /\ isOpen' = isOpen
    BY <1>1, <2>1, PushBuffers
  <2> QED
    BY <2>2 DEF Store!Delete, Store!Buffer, BufferTo, BatchOf, Entry, KnownQuads
<1> QED
  BY <1>2, <1>3

\* flush() is QuadStore's Flush, or waits for the batch and changes nothing of it.
LEMMA FlushRefines ==
  ASSUME FlowInv, NEW c \in Calls, Flush(c)
  PROVE  Store!Flush \/ UNCHANGED Store!vars
<1> DEFINE A == QuadsOf(pendingAdds)
           D == QuadsOf(pendingDeletes)
           B == BatchOf(txq)
<1>1. /\ StartFlush(c, pendingAdds, pendingDeletes, opCount)
      /\ UNCHANGED <<disk, work, cache, isOpen>>
  BY DEF Flush
<1>2. KnownQuads' = KnownQuads
  BY <1>1, KnownSame
<1>3. /\ BufferTo(A, D, B = {})
      /\ B # {} => /\ QuadsOf(pendingAdds') = A /\ QuadsOf(pendingDeletes') = D
                   /\ BatchOf(txq') = B
  BY <1>1, StartFlushBuffers
<1>4. CASE B = {}
  <2>1. (B = {}) = TRUE
    BY <1>4
  <2>2. BufferTo(A, D, TRUE)
    BY <1>3, <2>1
  <2> QED
    BY <1>1, <1>2, <1>4, <2>2 DEF Store!Flush, Store!Buffer, BufferTo, BatchOf, Entry, KnownQuads
<1>5. CASE B # {}
  BY <1>1, <1>2, <1>3, <1>5, StoreStutters
<1> QED
  BY <1>4, <1>5

\* The steps of QuadStore that a running batch takes, in terms of Hexastore's variables.
LEMMA LearnMeans ==
  ASSUME disk' = disk, UNCHANGED buffer, BatchOf(txq') = BatchOf(txq), isOpen' = isOpen,
         \A t \in Terms : termToId[t] # NoId => termToId'[t] # NoId
  PROVE  Store!Learn
<1>1. KnownQuads \subseteq KnownQuads' /\ KnownQuads' \subseteq Quads
  BY KnownGrows
<1> QED
  BY <1>1 DEF Store!Learn, Store!Learning, buffer, BatchOf, Entry, KnownQuads

\* A commit of the whole batch is Commit of the abstract store.
LEMMA CommitMeans ==
  ASSUME NEW b, BatchOf(txq) = {b}, b.adds \subseteq KnownQuads,
         Content(disk') = (Content(disk) \cup b.adds) \ b.dels,
         BufferTo(QuadsOf(pendingAdds), QuadsOf(pendingDeletes), TRUE),
         KnownQuads' = KnownQuads, isOpen' = isOpen
  PROVE  Store!Commit
BY DEF Store!Commit, Store!Buffer, BufferTo, BatchOf, Entry, KnownQuads

\* A commit in the middle of the deletes is WritePart of the abstract store.
LEMMA WritePartMeans ==
  ASSUME NEW b, BatchOf(txq) = {b}, b.whole, b.adds \subseteq KnownQuads,
         ~(b.dels \subseteq KnownQuads), NEW D \in SUBSET b.dels,
         Content(disk') = (Content(disk) \cup b.adds) \ D,
         BatchOf(txq') = {[b EXCEPT !.whole = FALSE]},
         UNCHANGED buffer, KnownQuads' = KnownQuads, isOpen' = isOpen
  PROVE  Store!WritePart
BY DEF Store!WritePart, buffer, BatchOf, Entry, KnownQuads

\* Dropping what is left of a half-written batch is GiveUp of the abstract store.
LEMMA GiveUpMeans ==
  ASSUME NEW b, BatchOf(txq) = {b}, ~b.whole, BatchOf(txq') = {},
         disk' = disk, UNCHANGED buffer, isOpen' = isOpen,
         \A t \in Terms : termToId[t] # NoId => termToId'[t] # NoId
  PROVE  Store!GiveUp
<1>1. KnownQuads \subseteq KnownQuads' /\ KnownQuads' \subseteq Quads
  BY KnownGrows
<1> QED
  BY <1>1 DEF Store!GiveUp, Store!Learning, buffer, BatchOf, Entry, KnownQuads

\* Once its additions are done, all of a batch's additions are known.
LEMMA AddedIsKnown ==
  ASSUME FlowInv, txq # <<>>, WritingInv, Head(txq).na = Len(Head(txq).adds)
  PROVE  /\ Entry(Head(txq)).adds \subseteq KnownQuads
         /\ FirstQuads(Head(txq).adds, Head(txq).na) = QuadsOf(Head(txq).adds)
<1> DEFINE h == Head(txq)
<1>1. /\ txq = <<h>> /\ opCount \in Nat /\ h.na \in Nat /\ h.adds \in Seq(OpUpTo(opCount))
  BY TheJob
<1>2. Underway(h, Content(disk), Content(work), termToId)
  BY <1>1, WritingInvOf
<1>3. QuadsOf(h.adds) \subseteq Quads
  BY JobQuads
<1> HIDE DEF h
<1>4. h.na = Len(h.adds)
  BY DEF h
<1>5. FirstQuads(h.adds, h.na) = QuadsOf(h.adds)
  BY <1>1, <1>4, FirstOfBuffer
<1>6. \A q \in QuadsOf(h.adds) : Met(termToId, q)
  BY <1>2, <1>5 DEF Underway
<1>7. QuadsOf(h.adds) \subseteq KnownQuads
  BY <1>3, <1>6 DEF KnownQuads, Met, Cached
<1> QED
  BY <1>5, <1>7 DEF Entry, h

\* Replacing the last field of a record of a batch.
LEMMA RecordOfHalf ==
  ASSUME NEW A, NEW D, NEW w, NEW v
  PROVE  [[adds |-> A, dels |-> D, whole |-> w] EXCEPT !.whole = v] = [adds |-> A, dels |-> D, whole |-> v]
  OBVIOUS

\* Every step of a running batch is a step of QuadStore, or none.
LEMMA JobRefines ==
  ASSUME DictInv, WritingInv, JobStep, NothingAborts
  PROVE  Store!Next \/ UNCHANGED Store!vars
<1>0. FlowInv
  BY DEF DictInv, IndexInv, IInv
<1>1. txq # <<>>
  BY DEF JobStep, AddStep, AddClashes, DeleteStep, AutoCommit, SkipDelete, DeleteTooLate,
         Commit, Deleting
<1> DEFINE h == Head(txq)
<1>2. /\ txq = <<h>> /\ h \in JobUpTo(opCount) /\ opCount \in Nat /\ txq[1] = h
      /\ Tail(txq) = <<>> /\ h.na \in Nat /\ h.nd \in Nat /\ h.live \in BOOLEAN
      /\ h.adds \in Seq(OpUpTo(opCount)) /\ h.dels \in Seq(OpUpTo(opCount))
  BY <1>0, <1>1, TheJob
<1>3. Underway(h, Content(disk), Content(work), termToId)
  BY <1>2, WritingInvOf
<1>4. BatchOf(txq) = {Entry(h)}
  BY <1>2, BatchCases
<1> DEFINE more == [h EXCEPT !.nd = @ + 1]
<1>5. AdvanceDelete => BatchOf(txq') = BatchOf(txq)
  <2>1. Entry(more) = Entry(h)
    BY <1>2 DEF JobUpTo, Entry
  <2>2. AdvanceDelete => txq' = [txq EXCEPT ![1] = more]
    BY <1>2 DEF AdvanceDelete
  <2> HIDE DEF more, h
  <2>3. AdvanceDelete => txq' = <<more>>
    BY <1>2, <2>2, OnlyEntry
  <2> QED
    BY <1>4, <2>1, <2>3, BatchCases
<1>6. CASE AddStep
  <2> DEFINE k == [h EXCEPT !.na = h.na + 1]
  <2>1. Entry(k) = Entry(h)
    BY <1>2 DEF JobUpTo, Entry
  <2>2. txq' = [txq EXCEPT ![1] = k] /\ UNCHANGED <<disk, buffer, isOpen>>
    BY <1>2, <1>6 DEF AddStep
  <2>3. \A t \in Terms : termToId[t] # NoId => termToId'[t] # NoId
    BY <1>6 DEF AddStep, Remember
  <2> HIDE DEF k, h
  <2>4. txq' = <<k>>
    BY <1>2, <2>2, OnlyEntry
  <2>5. BatchOf(txq') = BatchOf(txq)
    BY <1>4, <2>1, <2>4, BatchCases
  <2> QED
    BY <2>2, <2>3, <2>5, LearnMeans DEF Store!Next
<1>7. CASE DeleteStep
  <2>1. AdvanceDelete /\ UNCHANGED <<disk, buffer, cache, isOpen>>
    BY <1>7 DEF DeleteStep
  <2> QED
    BY <1>5, <2>1, KnownSame, StoreStutters DEF buffer
<1>8. CASE AutoCommit
  <2> DEFINE k == [h EXCEPT !.live = FALSE]
             b == Entry(h)
             D == FirstQuads(h.dels, h.nd)
  <2>1. /\ Deleting /\ ~Cached(NextDelete) /\ h.live /\ disk' = work
        /\ UNCHANGED <<buffer, cache, isOpen>> /\ txq' = [txq EXCEPT ![1] = k]
    BY <1>2, <1>8 DEF AutoCommit
  <2>2. b.adds \subseteq KnownQuads /\ FirstQuads(h.adds, h.na) = QuadsOf(h.adds)
    BY <1>0, <1>1, <2>1, AddedIsKnown DEF Deleting
  <2>3. /\ b.whole /\ b.dels = QuadsOf(h.dels) /\ b.adds = QuadsOf(h.adds)
    BY <2>1 DEF Entry
  <2>4. D \subseteq b.dels
    BY <2>3 DEF FirstQuads, QuadsOf
  <2>5. NextDelete \in b.dels /\ NextDelete \notin KnownQuads
    <3>1. h.nd + 1 \in DOMAIN h.dels
      <4>1. h.nd < Len(h.dels) /\ DOMAIN h.dels = 1..Len(h.dels) /\ Len(h.dels) \in Nat
        BY <1>2, <2>1 DEF Deleting
      <4> HIDE DEF h
      <4> QED
        BY <1>2, <4>1
    <3>2. NextDelete \in QuadsOf(h.dels)
      BY <3>1 DEF NextDelete, QuadsOf
    <3> QED
      BY <2>1, <2>3, <3>2 DEF KnownQuads
  <2>14. k.adds = h.adds /\ k.dels = h.dels /\ k.live = FALSE
    BY <1>2 DEF JobUpTo
  <2> HIDE DEF k, h
  <2>6. Entry(k) = [b EXCEPT !.whole = FALSE]
    <3>1. Entry(k) = [adds |-> QuadsOf(h.adds), dels |-> QuadsOf(h.dels), whole |-> FALSE]
      BY <2>14 DEF Entry
    <3>2. \E w : b = [adds |-> QuadsOf(h.adds), dels |-> QuadsOf(h.dels), whole |-> w]
      BY Zenon DEF Entry
    <3>3. PICK w : b = [adds |-> QuadsOf(h.adds), dels |-> QuadsOf(h.dels), whole |-> w]
      BY <3>2
    <3> DEFINE X == [adds |-> QuadsOf(h.adds), dels |-> QuadsOf(h.dels), whole |-> w]
    <3>4. [X EXCEPT !.whole = FALSE]
            = [adds |-> QuadsOf(h.adds), dels |-> QuadsOf(h.dels), whole |-> FALSE]
      BY RecordOfHalf, Zenon
    <3> HIDE DEF b, X
    <3>5. [X EXCEPT !.whole = FALSE] = [b EXCEPT !.whole = FALSE]
      BY <3>3, Zenon DEF X
    <3> QED
      BY <3>1, <3>4, <3>5, Zenon
  <2>7. BatchOf(txq') = {[b EXCEPT !.whole = FALSE]}
    <3>1. txq' = <<k>>
      BY <1>2, <2>1, OnlyEntry
    <3> QED
      BY <2>6, <3>1, BatchCases
  <2>8. Content(disk') = (Content(disk) \cup b.adds) \ D
    BY <1>3, <2>1, <2>2, <2>3 DEF Underway
  <2> HIDE DEF b, D
  <2>9. BatchOf(txq) = {b}
    BY <1>4 DEF b
  <2>10. KnownQuads' = KnownQuads /\ ~(b.dels \subseteq KnownQuads)
    BY <2>1, <2>5, KnownSame
  <2>11. Store!WritePart
    BY <2>1, <2>2, <2>3, <2>4, <2>7, <2>8, <2>9, <2>10, WritePartMeans
  <2> QED
    BY <2>11 DEF Store!Next
<1>9. CASE SkipDelete
  <2>1. AdvanceDelete /\ UNCHANGED <<disk, buffer, isOpen>>
    BY <1>9 DEF SkipDelete
  <2>2. \A t \in Terms : termToId[t] # NoId => termToId'[t] # NoId
    BY <1>9 DEF SkipDelete, Remember
  <2> QED
    BY <1>5, <2>1, <2>2, LearnMeans DEF Store!Next
<1>10. CASE DeleteTooLate
  <2>1. ~h.live /\ JobFails(h) /\ UNCHANGED <<disk, isOpen>>
    BY <1>10 DEF DeleteTooLate
  <2>2. UNCHANGED buffer /\ BatchOf(txq') = {}
    BY <1>2, <2>1, BatchCases DEF JobFails, ResumeNone
  <2>3. \A t \in Terms : termToId[t] # NoId => termToId'[t] # NoId
    BY <1>10 DEF DeleteTooLate, Remember, cache
  <2>4. ~Entry(h).whole
    BY <2>1 DEF Entry
  <2> QED
    BY <1>4, <2>1, <2>2, <2>3, <2>4, GiveUpMeans DEF Store!Next
<1>11. CASE Commit
  <2> DEFINE b == Entry(h)
  <2>1. /\ ~Adding /\ ~Deleting /\ disk' = work /\ JobSucceeds(h) /\ UNCHANGED <<cache, isOpen>>
    BY <1>11 DEF Commit
  <2>2. h.na = Len(h.adds) /\ h.nd = Len(h.dels)
    <3>1. /\ h.na <= Len(h.adds) /\ h.nd <= Len(h.dels)
          /\ Len(h.adds) \in Nat /\ Len(h.dels) \in Nat
      BY <1>2, <1>3 DEF Underway
    <3>2. ~(h.na < Len(h.adds)) /\ ~(h.na = Len(h.adds) /\ h.nd < Len(h.dels))
      BY <1>1, <2>1 DEF Adding, Deleting
    <3> HIDE DEF h
    <3> QED
      BY <1>2, <3>1, <3>2
  <2>3. b.adds \subseteq KnownQuads /\ FirstQuads(h.adds, h.na) = QuadsOf(h.adds)
    BY <1>0, <1>1, <2>2, AddedIsKnown
  <2>4. FirstQuads(h.dels, h.nd) = QuadsOf(h.dels)
    <3> HIDE DEF h
    <3> QED
      BY <1>2, <2>2, FirstOfBuffer
  <2>5. b.adds = QuadsOf(h.adds) /\ b.dels = QuadsOf(h.dels)
    BY DEF Entry
  <2>6. Content(disk') = (Content(disk) \cup b.adds) \ b.dels
    BY <1>3, <2>1, <2>3, <2>4, <2>5 DEF Underway
  <2>7. BufferTo(QuadsOf(pendingAdds), QuadsOf(pendingDeletes), TRUE)
    <3>1. CASE ResumeNone(h, "ok")
      <4>1. UNCHANGED buffer /\ BatchOf(txq') = {}
        BY <1>2, <3>1, BatchCases DEF ResumeNone
      <4> QED
        BY <4>1 DEF BufferTo, buffer
    <3>2. CASE SpliceAndWrite(Head(h.waiters), Returned(h, "ok"), Tail(txq),
                              pendingAdds, pendingDeletes)
      BY <1>2, <3>2, SpliceBuffers
    <3> QED
      BY <2>1, <3>1, <3>2 DEF JobSucceeds
  <2> HIDE DEF b, h
  <2>8. BatchOf(txq) = {b} /\ KnownQuads' = KnownQuads
    BY <1>4, <2>1, KnownSame DEF b
  <2>9. Store!Commit
    BY <2>1, <2>3, <2>6, <2>7, <2>8, CommitMeans
  <2> QED
    BY <2>9 DEF Store!Next
<1> QED
  BY <1>6, <1>7, <1>8, <1>9, <1>10, <1>11 DEF JobStep, NothingAborts

\* As long as nothing aborts, every step maps to a step of QuadStore or to none.
LEMMA StepRefines ==
  ASSUME DictInv, WritingInv, [Next]_vars, [NothingAborts]_vars
  PROVE  [Store!Next]_(Store!vars)
<1>0. FlowInv
  BY DEF DictInv, IndexInv, IInv
<1>1. ASSUME NEW q \in Quads, AddQuad(q) \/ DeleteQuad(q)
      PROVE  Store!Next
  BY <1>0, <1>1, AddRefines DEF Store!Next
<1>2. ASSUME NEW c \in Calls, Flush(c)
      PROVE  Store!Next \/ UNCHANGED Store!vars
  BY <1>0, <1>2, FlushRefines DEF Store!Next
<1>3. ASSUME NEW t \in Terms, Lookup(t)
      PROVE  Store!Next
  <2>1. /\ UNCHANGED <<buffer, txq, disk, isOpen>> /\ t \in Range(disk.terms)
        /\ termToId' = [termToId EXCEPT ![t] = IdIn(disk.terms, t)]
    BY <1>3 DEF Lookup
  <2>2. IdIn(disk.terms, t) # NoId /\ termToId \in [Terms -> Nat]
    <3>1. disk.terms \in Seq(Terms) /\ termToId \in [Terms -> Nat]
      BY <1>0, TypeParts DEF FlowInv, DictType, DbOf
    <3> QED
      BY <2>1, <3>1, IdOfRecord DEF Ids
  <2>3. \A s \in Terms : termToId[s] # NoId => termToId'[s] # NoId
    BY <2>1, <2>2
  <2> QED
    BY <2>1, <2>3, LearnMeans DEF Store!Next
<1>4. CASE Close
  <2>1. /\ isOpen /\ isOpen' = FALSE /\ UNCHANGED <<buffer, txq, disk, cache>>
    BY <1>4 DEF Close
  <2>2. KnownQuads' = KnownQuads
    BY <2>1, KnownSame
  <2>3. Store!Close
    BY <2>1, <2>2 DEF Store!Close, buffer, BatchOf, Entry, KnownQuads
  <2> QED
    BY <2>3 DEF Store!Next
<1>5. CASE Reopen \/ Crash
  <2>1. /\ pendingAdds' = <<>> /\ pendingDeletes' = <<>> /\ txq' = <<>> /\ isOpen' = TRUE
        /\ disk' = disk /\ termToId' = [t \in Terms |-> NoId]
    BY <1>5 DEF Reopen, Crash, NewSession
  <2>2. KnownQuads' = {}
    <3>1. \A q \in Quads : q[1] \in Range(q) /\ q[1] \in Terms
      BY QuadsAssumption DEF Range
    <3> QED
      BY <2>1, <3>1 DEF KnownQuads, Cached
  <2>3. QuadsOf(pendingAdds') = {} /\ QuadsOf(pendingDeletes') = {} /\ BatchOf(txq') = {}
    BY <2>1, BatchCases
  <2>4. Store!Reopen
    BY <2>1, <2>2, <2>3 DEF Store!Reopen, BatchOf, Entry, KnownQuads
  <2> QED
    BY <2>4 DEF Store!Next
<1>6. CASE UNCHANGED vars
  BY <1>6, KnownSame, StoreStutters DEF vars, buffer
<1>7. CASE Next /\ NothingAborts
  BY <1>1, <1>2, <1>3, <1>4, <1>5, <1>7, JobRefines DEF Next, Tick, NothingAborts
<1> QED
  BY <1>6, <1>7

\* Hexastore implements QuadStore as long as nothing aborts: what the ids, the indexes,
\* the caches, overlapping flush() calls, a close and crashes leave in the database is
\* what whole batches make of an abstract set, except when a batch deletes a quad that
\* its session has not met.
THEOREM BatchesAreAtomic == SafetySpec /\ [][NothingAborts]_vars => ImplementsQuadStore
<1>1. Init => WritingInv
  BY WritingInvOf DEF Init, WritingInv
<1>2. DictInv /\ WritingInv /\ [Next]_vars /\ [NothingAborts]_vars => WritingInv'
  BY WritingPreserved
<1>3. Init => Store!Init
  <2> SUFFICES ASSUME Init PROVE Store!Init
    OBVIOUS
  <2>1. /\ Content(disk) = {} /\ QuadsOf(pendingAdds) = {} /\ QuadsOf(pendingDeletes) = {}
        /\ BatchOf(txq) = {} /\ isOpen = TRUE
    BY BatchCases DEF Init, Content, EmptyDb, Indexes
  <2>2. KnownQuads = {}
    <3>1. \A q \in Quads : q[1] \in Range(q) /\ q[1] \in Terms
      BY QuadsAssumption DEF Range
    <3> QED
      BY <3>1 DEF Init, KnownQuads, Cached
  <2> QED
    BY <2>1, <2>2 DEF Store!Init, BatchOf, Entry, KnownQuads
<1>4. DictInv /\ WritingInv /\ [Next]_vars /\ [NothingAborts]_vars => [Store!Next]_(Store!vars)
  BY StepRefines
<1> QED
  BY <1>1, <1>2, <1>3, <1>4, DictInvariant, PTL DEF SafetySpec, ImplementsQuadStore, Store!Spec

\* No transaction aborts where the browser aborts none and no quad names a term twice.
PlainQuadsOnly == \A q \in Quads : \A i, j \in 1..4 : q[i] = q[j] => i = j

\* With plain quads and no aborts the hypothesis of the three theorems above holds of every run.
LEMMA PlainQuadsNeverClash ==
  ASSUME PlainQuadsOnly, MaxAborts = 0
  PROVE  SafetySpec => [][NothingAborts]_vars
<1>1. IInv /\ [Next]_vars => [NothingAborts]_vars
  <2> SUFFICES ASSUME IInv, Next, Abort \/ AddClashes PROVE FALSE
    BY DEF NothingAborts
  <2>1. CASE Abort
    <3>1. aborts \in Nat
      BY TypeParts DEF IInv, FlowInv
    <3> QED
      BY <2>1, <3>1 DEF Abort
  <2>2. CASE AddClashes
    <3> DEFINE q == Head(txq).adds[Head(txq).na + 1].q
    <3>1. txq # <<>> /\ Head(txq).na < Len(Head(txq).adds) /\ Repeats(q) # {}
      BY <2>2 DEF AddClashes
    <3>2. q \in Quads
      <4>1. Head(txq) \in JobUpTo(opCount) /\ opCount \in Nat
        BY <3>1, HeadType DEF IInv
      <4>2. Head(txq).na \in Nat /\ Head(txq).adds \in Seq(OpUpTo(opCount))
        BY <4>1 DEF JobUpTo
      <4> QED
        BY <3>1, <4>1, <4>2, NextQuad
    <3> HIDE DEF q
    <3> QED
      BY <3>1, <3>2 DEF Repeats, PlainQuadsOnly
  <2> QED
    BY <2>1, <2>2
<1> QED
  BY <1>1, InductiveInvariant, PTL DEF SafetySpec
=============================================================================
