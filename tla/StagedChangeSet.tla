---------------------------- MODULE StagedChangeSet ----------------------------
(***************************************************************************)
(* The staged change set of an import (edb-import-staging): entities that  *)
(* a mapping has created and nobody has stored yet, as a tree the user     *)
(* reviews; applyAll stores them one after the other, referenced entities  *)
(* before those that refer to them.                                        *)
(*                                                                         *)
(* An entity is a number.  Of its document the model keeps the references  *)
(* to other staged entities: those to the main store always resolve.       *)
(***************************************************************************)
EXTENDS Integers, Sequences, FiniteSets, SequencesExt

CONSTANTS
  MaxFailures,  \* bound: failed requests
  MaxRejected   \* bound: entities rejected at a time

ASSUME BoundsAssumption == MaxFailures \in Nat /\ MaxRejected \in Nat

VARIABLES
  staged,    \* the staged entities
  order,     \* their ids in the order of their first stage()
  phase,     \* "mapping", "aborted", "review", "applying", "applied", "discarded"
  toApply,   \* what a running applyAll has yet to upsert
  left,      \* what it left out: rejected when it started
  stored,    \* upserted entities, with the references that ought to resolve
  failures

changeSetVars == <<staged, order, phase, toApply, left, stored>>
-----------------------------------------------------------------------------
Root     == 0    \* the entity the import is for
NoParent == -1

Fail == failures < MaxFailures /\ failures' = failures + 1

(***************************************************************************)
(* The tree.                                                               *)
(***************************************************************************)
\* recomputeDepthSubtree for the entities C, whose parent in S is new.
Moved(S, C) ==
  LET moved[k \in DOMAIN S] ==
        k \in C \/ (S[k].parent \in DOMAIN S /\ moved[S[k].parent])
      depth[k \in DOMAIN S] ==
        IF moved[k] /\ S[k].parent \in DOMAIN S THEN depth[S[k].parent] + 1 ELSE S[k].depth
  IN  [k \in DOMAIN S |-> [S[k] EXCEPT !.depth = depth[k]]]

\* Mutant of Reparent: only the entity itself gets a new depth.
ReparentOnly(S, C, p) ==
  [k \in DOMAIN S |-> IF k \in C THEN [S[k] EXCEPT !.parent = p, !.depth = S[p].depth + 1]
                      ELSE S[k]]

\* reparent(k, p) for every k in C.
Reparent(S, C, p) ==
  Moved([k \in DOMAIN S |-> IF k \in C THEN [S[k] EXCEPT !.parent = p] ELSE S[k]], C)

(***************************************************************************)
(* The order.                                                              *)
(***************************************************************************)
Position(k) == CHOOSE i \in DOMAIN order : order[i] = k

\* Shallow entities first, then in the order they were staged.
Earlier(j, k) ==
  \/ staged[j].depth < staged[k].depth
  \/ staged[j].depth = staged[k].depth /\ Position(j) < Position(k)

Earliest(S) == CHOOSE k \in S : \A j \in S \ {k} : Earlier(k, j)

\* The entities of S yet to be done whose references into S are done.
Ready(S, refs, done) == {k \in S \ done : refs[k] \cap (S \ {k}) \subseteq done}

\* Of the ready entities the earliest one is next, until none is ready.
OneByOne(S, refs) ==
  LET picked[n \in 0..Cardinality(S)] ==
        IF n = 0 THEN <<>>
        ELSE LET ready == Ready(S, refs, ToSet(picked[n - 1]))
             IN  IF ready = {} THEN picked[n - 1] ELSE Append(picked[n - 1], Earliest(ready))
  IN  picked[Cardinality(S)]

ReferenceFirst(S) == OneByOne(S, [k \in S |-> staged[k].refs])

\* Mutant of ApplyOrder: entities on a cycle of references are never ready.
AcyclicOnly(S) == ReferenceFirst(S)

\* Mutant of ApplyOrder: by depth.
ByDepth(S) == OneByOne(S, [k \in S |-> {}])

\* referenceFirstApplyOrder: entities on a cycle of references come last.
ApplyOrder(S) ==
  LET ordered == ReferenceFirst(S)
      missing == S \ ToSet(ordered)
  IN  ordered \o OneByOne(missing, [k \in missing |-> {}])
-----------------------------------------------------------------------------
(***************************************************************************)
(* Review and apply.                                                       *)
(***************************************************************************)
Rejected == {k \in DOMAIN staged : staged[k].rejected}

\* setReviewState; what was neither accepted nor rejected is applied as well.
Review(k) ==
  /\ phase \in {"review", "applying"}
  /\ k \in Rejected \/ Cardinality(Rejected) < MaxRejected
  /\ staged' = [staged EXCEPT ![k].rejected = ~@]
  /\ UNCHANGED <<order, phase, toApply, left, stored, failures>>

ApplyAll ==
  /\ phase = "review"
  /\ toApply' = ApplyOrder(DOMAIN staged \ Rejected)
  /\ left' = Rejected
  /\ phase' = IF toApply' = <<>> THEN "applied" ELSE "applying"
  /\ UNCHANGED <<staged, order, stored, failures>>

\* The next upsert succeeds.
Store(k) ==
  [i \in DOMAIN stored \cup {k} |-> IF i = k THEN staged[k].refs \ left ELSE stored[i]]

Upserted ==
  /\ phase = "applying"
  /\ stored' = Store(Head(toApply))
  /\ toApply' = Tail(toApply)
  /\ phase' = IF toApply' = <<>> THEN "applied" ELSE phase
  /\ UNCHANGED <<staged, order, left, failures>>

\* ... or rejects, before or after the document was stored: the rest is given up,
\* and the user may apply everything again.
UpsertFails ==
  /\ phase = "applying"
  /\ Fail
  /\ stored' \in {stored, Store(Head(toApply))}
  /\ toApply' = <<>>
  /\ phase' = "review"
  /\ UNCHANGED <<staged, order, left>>

Discard ==
  /\ phase = "review"
  /\ staged' = <<>> /\ order' = <<>>
  /\ phase' = "discarded"
  /\ UNCHANGED <<toApply, left, stored, failures>>

ReviewStep == (\E k \in DOMAIN staged : Review(k)) \/ ApplyAll \/ Discard
ApplyStep  == Upserted \/ UpsertFails
=============================================================================
