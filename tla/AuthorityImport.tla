---------------------------- MODULE AuthorityImport ----------------------------
(***************************************************************************)
(* An import from an authority: mapByConfig walks the record of the root   *)
(* entity, and createEntityWithAuthoritativeLink finds or creates an       *)
(* entity for every record it refers to, mapping that record in turn       *)
(* (data-mapping).  makeStagingStrategyContext answers the questions of    *)
(* the mapping from the change set and the main store, stages what the     *)
(* mapping creates, and puts a staged entity's children under it when the  *)
(* entity itself is staged, which is after them (edb-import-staging).      *)
(* ImportFromAuthorityButton stages the root last and offers the review.   *)
(*                                                                         *)
(* A world is what authority and main store hold.  A record stands for the *)
(* record together with the type it is mapped to: the code looks for both, *)
(* so one record linked as two types is two here.  An entity's id is drawn *)
(* when its mapping begins; by is the id of the entity in whose mapping it *)
(* was created.  A path lists the target properties from the root: the     *)
(* code's path has two elements per level, the second for the type.        *)
(***************************************************************************)
EXTENDS StagedChangeSet

CONSTANTS
  RootRecord,
  Worlds,     \* [links, names, same, known, editing]
  MaxDepth    \* longest path with access to the authority

ASSUME DepthAssumption == MaxDepth \in Nat

\* Names are no records, and the property that names fill is not filled by links.
ASSUME WorldsAssumption ==
  \A w \in Worlds :
    LET records == DOMAIN w.same
        names   == UNION {ToSet(w.names[r]) : r \in records}
    IN  /\ RootRecord \in records /\ w.same \in [records -> records]
        /\ names \cap records = {}
        /\ \A r \in records :
             /\ w.names[r] \in Seq(names)
             /\ \A l \in w.links[r] : l[1] # "name" /\ l[2] \in records

VARIABLES
  world,
  stack,     \* the mappings under way, the root's first
  asks,      \* names the main store is being asked for
  pending,   \* pendingTrace: a match not yet reported by any entity's trace
  ids,       \* ids drawn
  swallowed  \* a failed second probe was ignored

vars == <<changeSetVars, failures, world, stack, asks, pending, ids, swallowed>>
-----------------------------------------------------------------------------
Top      == stack[Len(stack)]
Depth(p) == IF p = <<>> THEN 0 ELSE 2 * Len(p) - 1

\* todo: links <<target, record>> still to be followed; refs: entities found.
Frame(id, rec, path, links, names, chain) ==
  [id |-> id, rec |-> rec, path |-> path, todo |-> links, names |-> names,
   refs |-> {}, chain |-> chain]

Init ==
  /\ world \in Worlds
  /\ stack = <<Frame(Root, RootRecord, <<>>, world.links[RootRecord],
                     world.names[RootRecord], {})>>
  /\ asks = {} /\ pending = FALSE /\ ids = 0 /\ swallowed = FALSE
  /\ staged = <<>> /\ order = <<>>
  /\ phase = "mapping"
  /\ toApply = <<>> /\ left = {} /\ stored = <<>> /\ failures = 0
-----------------------------------------------------------------------------
(***************************************************************************)
(* Staging.                                                                *)
(***************************************************************************)
\* reparentFallbackChildren: the entities that hang at the root for want of their
\* parent, and whose nearest staged path above is p.
Adopted(S, p) ==
  LET above(q, r) == IsStrictPrefix(q, r) /\ q # <<>>
      paths == {S[k].path : k \in DOMAIN S}
  IN  {k \in DOMAIN S : /\ S[k].parent = Root
                        /\ above(p, S[k].path)
                        /\ ~\E q \in paths : above(q, S[k].path) /\ Len(q) > Len(p)}

\* onNewDocument.  resolveParentIRI looks for an entity staged at the path of the
\* parent mapping, but entities are staged at paths of odd length only: every
\* entity is first put under the root, with the length of its path as depth.
Stage(id, src, path, refs, by, chain) ==
  LET new == [src |-> src, path |-> path, refs |-> refs, by |-> by, chain |-> chain,
              parent |-> IF path = <<>> THEN NoParent ELSE Root, depth |-> Depth(path),
              rejected |-> FALSE, matched |-> pending]
      S == [k \in DOMAIN staged \cup {id} |-> IF k = id THEN new ELSE staged[k]]
  IN  /\ staged' = Reparent(S, Adopted(S, path), id)
      /\ order' = Append(order, id)
      /\ pending' = FALSE

StagedAs(src) == {k \in DOMAIN staged : staged[k].src = src}
-----------------------------------------------------------------------------
(***************************************************************************)
(* Mapping.                                                                *)
(***************************************************************************)
Mapping == stack # <<>> /\ ~\E a \in asks : a.by = Top.id

\* The link l of the topmost mapping is dealt with, having found the entities found.
Follow(l, found) ==
  stack' = [stack EXCEPT ![Len(stack)].todo = @ \ {l}, ![Len(stack)].refs = @ \cup found]

\* ... or its record is mapped first.
Descend(l, rec, links, names) ==
  LET path == Append(Top.path, l[1]) IN
  /\ stack' = Append([stack EXCEPT ![Len(stack)].todo = @ \ {l}],
                     Frame(ids + 1, rec, path, links, names, Top.chain \cup {Top.rec}))
  /\ ids' = ids + 1

\* Mutant of Throw: nobody catches what the root's mapping throws.
ThrowUnnoticed == stack' = SubSeq(stack, 1, Len(stack) - 1) /\ UNCHANGED phase

\* An exception ends the topmost mapping.  The mapping above catches it and goes on
\* without the entity; nobody above the root's does.
Throw ==
  /\ stack' = SubSeq(stack, 1, Len(stack) - 1)
  /\ phase' = IF Len(stack) = 1 THEN "aborted" ELSE phase

\* Mutant of FindStaged: only the main store is asked.
FindNone(rec) == {}

\* findStagedByAuthority
FindStaged(rec) == StagedAs(rec)

\* The main store's entity for a record is the root when the import is for it.
InMain(rec) == rec \in world.known
MainEntity(rec) == IF rec = RootRecord /\ world.editing THEN {Root} ELSE {}

\* Mutant of Stub: the authority is always asked.
NeverStub(path) == FALSE

Stub(path) == Depth(path) > MaxDepth

\* probeSameAs finds an entity for rec.
Matched(l, rec) ==
  /\ \/ FindStaged(rec) # {} /\ Follow(l, {CHOOSE k \in FindStaged(rec) :
                                  \A j \in FindStaged(rec) : Position(k) <= Position(j)})
     \/ FindStaged(rec) = {} /\ InMain(rec) /\ Follow(l, MainEntity(rec))
  /\ pending' = TRUE
  /\ UNCHANGED <<ids, swallowed, failures, phase>>

Unmatched(rec) == FindStaged(rec) = {} /\ ~InMain(rec)

\* createEntityWithAuthoritativeLink, for one link.
Link(l) ==
  LET rec  == l[2]
      path == Append(Top.path, l[1])
      same == world.same[rec]
  IN
  /\ Mapping /\ l \in Top.todo
  /\ \/ Matched(l, rec)
     \/ \* the main store rejects the question
        /\ FindStaged(rec) = {}
        /\ Fail /\ Throw
        /\ UNCHANGED <<ids, swallowed, pending>>
     \/ \* the authority has no such record, or fails
        /\ Unmatched(rec) /\ ~Stub(path)
        /\ Fail /\ Follow(l, {})
        /\ UNCHANGED <<ids, swallowed, pending, phase>>
     \/ \* too deep: a label is all the authority is said to know
        /\ Unmatched(rec) /\ Stub(path)
        /\ Descend(l, rec, {}, <<>>)
        /\ UNCHANGED <<swallowed, pending, failures, phase>>
     \/ \* a record of its own; or the record it redirects to cannot be had
        /\ Unmatched(rec) /\ ~Stub(path)
        /\ \/ same = rec /\ UNCHANGED failures
           \/ same # rec /\ Fail
        /\ Descend(l, rec, world.links[rec], world.names[rec])
        /\ UNCHANGED <<swallowed, pending, phase>>
     \/ \* the record it redirects to, which is looked for first
        /\ Unmatched(rec) /\ ~Stub(path) /\ same # rec
        /\ \/ Matched(l, same)
           \/ /\ Unmatched(same)
              /\ Descend(l, same, world.links[same], world.names[same])
              /\ UNCHANGED <<swallowed, pending, failures, phase>>
           \/ \* nothing comes back for it
              /\ FindStaged(same) = {}
              /\ Fail /\ Follow(l, {})
              /\ UNCHANGED <<ids, swallowed, pending, phase>>
           \/ \* the main store's rejection is swallowed here
              /\ FindStaged(same) = {}
              /\ Fail
              /\ Descend(l, same, world.links[same], world.names[same])
              /\ swallowed' = TRUE
              /\ UNCHANGED <<pending, phase>>
  /\ UNCHANGED <<world, asks, staged, order, toApply, left, stored>>

\* split with createEntityFromString: all names are looked for in the change set,
\* and then, at the same time, in the main store.
Split ==
  LET path  == Append(Top.path, "name")
      new   == {i \in DOMAIN Top.names : StagedAs(Top.names[i]) = {}}
      found == UNION {StagedAs(Top.names[i]) : i \in DOMAIN Top.names \ new}
  IN
  /\ Mapping /\ Top.names # <<>>
  /\ asks' = asks \cup {[name |-> Top.names[i], n |-> i, by |-> Top.id, path |-> path,
                         chain |-> Top.chain \cup {Top.rec}] : i \in new}
  /\ stack' = [stack EXCEPT ![Len(stack)].names = <<>>, ![Len(stack)].refs = @ \cup found]
  /\ pending' = (pending \/ new # DOMAIN Top.names)
  /\ UNCHANGED <<world, ids, swallowed, failures, changeSetVars>>

\* The entity for the name a.name is found: k, if it is a staged one.
Named(a, found) ==
  stack' = [i \in DOMAIN stack |->
              IF stack[i].id = a.by THEN [stack[i] EXCEPT !.refs = @ \cup found] ELSE stack[i]]

\* The main store answers.
Answer(a) ==
  /\ a \in asks
  /\ asks' = asks \ {a}
  /\ \/ /\ InMain(a.name)
        /\ Named(a, {}) /\ pending' = TRUE
        /\ UNCHANGED <<ids, staged, order>>
     \/ /\ ~InMain(a.name)
        /\ Stage(ids + 1, a.name, a.path, {}, a.by, a.chain)
        /\ ids' = ids + 1 /\ Named(a, {ids + 1})
  /\ UNCHANGED <<world, swallowed, failures, phase, toApply, left, stored>>

\* ... or rejects: the mapping that asked ends, the other questions remain.
AnswerFails(a) ==
  /\ a \in asks
  /\ Fail
  /\ asks' = asks \ {a}
  /\ \/ stack # <<>> /\ Top.id = a.by /\ Throw
     \/ ~(stack # <<>> /\ Top.id = a.by) /\ UNCHANGED <<stack, phase>>
  /\ UNCHANGED <<world, pending, ids, swallowed, staged, order, toApply, left, stored>>

\* The topmost mapping is done: its entity is staged.
Done ==
  /\ Mapping /\ Top.todo = {} /\ Top.names = <<>>
  /\ Stage(Top.id, Top.rec, Top.path, Top.refs,
           IF Len(stack) = 1 THEN NoParent ELSE stack[Len(stack) - 1].id, Top.chain)
  /\ \/ /\ Len(stack) > 1
        /\ stack' = [SubSeq(stack, 1, Len(stack) - 1) EXCEPT
                       ![Len(stack) - 1].refs = @ \cup {Top.id}]
        /\ UNCHANGED phase
     \/ /\ Len(stack) = 1
        /\ stack' = <<>>
        /\ phase' = "review"
  /\ UNCHANGED <<world, asks, ids, swallowed, failures, toApply, left, stored>>
-----------------------------------------------------------------------------
MapStep ==
  \/ \E l \in (IF stack = <<>> THEN {} ELSE Top.todo) : Link(l)
  \/ Split \/ Done
  \/ \E a \in asks : Answer(a) \/ AnswerFails(a)

Next ==
  \/ MapStep
  \/ (ReviewStep \/ ApplyStep) /\ UNCHANGED <<world, stack, asks, pending, ids, swallowed>>

\* Authority and main store answer or fail.
Spec == Init /\ [][Next]_vars /\ WF_vars(MapStep)
-----------------------------------------------------------------------------
(***************************************************************************)
(* Properties                                                              *)
(***************************************************************************)
Records == DOMAIN world.same
Sources == Records \cup UNION {ToSet(world.names[r]) : r \in Records}
Ids     == 0..ids
Phases  == {"mapping", "aborted", "review", "applying", "applied", "discarded"}

\* ... and mappings nest to the depth where the authority is no longer asked, even
\* when its records refer to each other in a circle.
TypeOK ==
  /\ world \in Worlds
  /\ Len(stack) <= (MaxDepth + 1) \div 2 + 2
  /\ \A i \in DOMAIN stack : stack[i].id \in Ids /\ stack[i].rec \in Records
  /\ \A a \in asks : a.name \in Sources /\ a.by \in Ids
  /\ DOMAIN staged \subseteq Ids /\ ToSet(order) = DOMAIN staged
  /\ \A k \in DOMAIN staged :
       /\ staged[k].src \in Sources
       /\ staged[k].refs \subseteq Ids
       /\ staged[k].parent \in Ids \cup {NoParent} /\ staged[k].depth \in Nat
       /\ staged[k].rejected \in BOOLEAN /\ staged[k].matched \in BOOLEAN
  /\ phase \in Phases
  /\ ToSet(toApply) \cup left \cup DOMAIN stored \subseteq Ids
  /\ pending \in BOOLEAN /\ swallowed \in BOOLEAN
  /\ failures \in 0..MaxFailures

Abandoned(k) == staged[k].by \notin DOMAIN staged

\* A record that several others refer to becomes one entity, unless it is met
\* again while it is itself being mapped; so does a name, unless it is asked for
\* twice at the same time or its mapping was given up meanwhile.  What the main
\* store has is created again only when the main store could not be asked.
OneEntityPerRecord ==
  /\ \A i, j \in DOMAIN staged :
       (staged[i].src = staged[j].src /\ Position(j) < Position(i)) =>
         \/ staged[i].src \in staged[j].chain
         \/ /\ staged[i].src \notin Records
            /\ staged[i].by = staged[j].by \/ Abandoned(i) \/ Abandoned(j)
  /\ \A i \in DOMAIN staged \ {Root} : staged[i].src \in world.known => swallowed

\* In the tree the user reviews, an entity stands one level below the entity in
\* whose mapping it was created, which refers to it; entities whose mapping was
\* given up aside.
ParentIsCause ==
  phase \in {"review", "applying", "applied"} =>
    \A k \in DOMAIN staged \ {Root} :
      LET by == staged[k].by IN
      Abandoned(k) \/ /\ staged[k].parent = by
                      /\ staged[k].depth = staged[by].depth + 1
                      /\ k \in staged[by].refs

\* The entities whose references lead to the root: circular when the root was in
\* the main store before.
Circular ==
  LET more(S) == S \cup {k \in DOMAIN staged : staged[k].refs \cap S # {}}
      from[n \in 0..Cardinality(DOMAIN staged)] == IF n = 0 THEN {Root} ELSE more(from[n - 1])
  IN  from[Cardinality(DOMAIN staged)]

\* Whenever the application stops, what has been stored refers to nothing that has
\* not, except for what the user left out and what refers back to the root.
NoDanglingReference ==
  (phase # "discarded" /\ stored # <<>>) =>
    UNION {stored[k] : k \in DOMAIN stored} \subseteq DOMAIN stored \cup Circular

\* An import reported as applied has stored everything it was asked to, entities
\* that refer to each other in a circle included.
AppliedIsComplete ==
  [][phase # "applied" /\ phase' = "applied" =>
       \A k \in DOMAIN staged \ left' : k \in DOMAIN stored' \/ Abandoned(k)]_vars

\* Whatever the authority's records refer to, the user gets a review or an error.
MappingEnds == <>(phase # "mapping")
=============================================================================
