-------------------------- MODULE SparqlDocuments --------------------------
(***************************************************************************)
(* packages/sparql-db-impl and packages/sparql-schema: documents kept as   *)
(* triples in a SPARQL endpoint.                                           *)
(*                                                                         *)
(* A save is one update request: delete what the schema describes of the   *)
(* entity, following anonymous (blank node) objects down to a depth, then  *)
(* insert the new document, whose anonymous objects get fresh blank nodes. *)
(* A second request rewrites the links that its inverse property stands    *)
(* for.  An action is one request with what the code does around it; the   *)
(* endpoint runs a request atomically.                                     *)
(*                                                                         *)
(* Statements use the "statement-node" encoding: an anonymous object per   *)
(* value.                                                                  *)
(***************************************************************************)
EXTENDS Naturals, Sequences, FiniteSets, SequencesExt

CONSTANTS
  Entities, Clients, Docs, Titles, WriteDepth, MaxWrites, MaxFaults,
  TypeIRI,     \* type of the entities
  DefaultDepth \* least depth of a deletion; 4 in the code

\* Blank nodes are numbers, and nothing else is.
ASSUME NamesAssumption == (Entities \cup Titles \cup {TypeIRI}) \cap Nat = {}
ASSUME DocsAssumption ==
  /\ IsFiniteSet(Titles)
  /\ \A d \in Docs : d \in [title : SUBSET Titles, parts : Seq(SUBSET Titles),
                          links : SUBSET Entities, stmts : SUBSET Titles,
                          back : SUBSET Entities]
ASSUME BoundsAssumption ==
  WriteDepth \in Nat \ {0} /\ DefaultDepth \in Nat \ {0} /\ MaxWrites \in Nat /\ MaxFaults \in Nat

VARIABLES
  triples, \* <<subject, predicate, object>>; blank nodes are numbers
  calls, writes, faults

vars == <<triples, calls, writes, faults>>

IdleCall == [st |-> "idle", alone |-> FALSE]

Init ==
  /\ triples = {}
  /\ calls = [c \in Clients |-> IdleCall]
  /\ writes = 0 /\ faults = 0

-----------------------------------------------------------------------------
(***************************************************************************)
(* Triples                                                                 *)
(***************************************************************************)
Typed(e) == <<e, "a", TypeIRI>> \in triples

Objects(s, p) == {t[3] : t \in {u \in triples : u[1] = s /\ u[2] = p}}

\* Mutant: a load does not resolve the inverse property.
NotLinking(e) == {}

\* A linked document is read with the properties its type requires, inside the pattern of
\* the link: without a title there is no match, of the link neither.
Complete(b) == Objects(b, "title") # {}

\* The links of e that a load finds.  Linked documents are read one level deep, their own
\* links without that condition: an entity that links to itself is one of them.
LinkedTo(e) ==
  IF e \in Objects(e, "link") THEN Objects(e, "link")
  ELSE {b \in Objects(e, "link") : Complete(b)}

Linking(e) == {b \in Entities : Complete(b) /\ <<b, "link", e>> \in triples}

\* The schema does not say that a link leads to a named entity, so the pattern tries
\* to follow it as it follows the others.
Followed == {"part", "stmt", "link"}

\* Mutant: the blank node guard of the pattern is missing.
AnyObject(o) == TRUE

\* ... but only to blank nodes.
Anonymous(o) == o \notin Entities

\* The anonymous objects of the subjects S.
Owned(S) ==
  {t[3] : t \in {u \in triples : u[1] \in S /\ u[2] \in Followed /\ Anonymous(u[3])}}

\* The subjects of the patterns around e, at all levels down to depth.
Subjects(e, depth) ==
  LET upTo[n \in 0..depth] ==
        IF n = 0 THEN {e} ELSE LET S == upTo[n-1] IN S \cup Owned(S)
  IN  upTo[depth]

\* Mutant: the depth of the write is not taken into account.
DefaultDeleteDepth == DefaultDepth

\* How far a deletion follows: at least as far as a save writes.
DeleteDepth == IF WriteDepth > DefaultDepth THEN WriteDepth ELSE DefaultDepth

\* What the patterns match; nothing unless the entity has its type.
Description(e) ==
  LET subjects == Subjects(e, DeleteDepth)
  IN  IF Typed(e) THEN {t \in triples : t[1] \in subjects} ELSE {}

\* What cleanJSONLD leaves of a document: references instead of linked documents, none
\* to the entity itself, nested objects as deep as the walker goes.
Clean(e, d) ==
  LET depth == IF Len(d.parts) < WriteDepth THEN Len(d.parts) ELSE WriteDepth
  IN  [d EXCEPT !.parts = SubSeq(@, 1, depth), !.links = @ \ {e}]

\* n blank nodes that `stored` does not know.
Fresh(stored, n) ==
  LET used == ({t[1] : t \in stored} \cup {t[3] : t \in stored}) \cap Nat
      free == (1..(Cardinality(used) + n)) \ used
  IN  [i \in 1..n |-> CHOOSE b \in free : Cardinality({a \in free : a < b}) = i - 1]

\* Mutant: statements are written on the entity, without a node of their own.
FlatTriples(e, d, bn) ==
  {<<e, "a", TypeIRI>>} \cup {<<e, "title", v>> : v \in d.title}
  \cup {<<e, "link", b>> : b \in d.links} \cup {<<e, "value", v>> : v \in d.stmts}

\* The triples a document expands to, its anonymous objects being the blank nodes bn:
\* the chain of nested ones, then one for each statement.
DocTriples(e, d, bn) ==
  LET depth == Len(d.parts)
      values == SetToSeq(d.stmts)
      parent(i) == IF i = 1 THEN e ELSE bn[i-1]
  IN  {<<e, "a", TypeIRI>>}
      \cup {<<e, "title", v>> : v \in d.title}
      \cup {<<e, "link", b>> : b \in d.links}
      \cup {<<parent(i), "part", bn[i]>> : i \in 1..depth}
      \cup (UNION {{<<bn[i], "title", v>> : v \in d.parts[i]} : i \in 1..depth})
      \cup {<<e, "stmt", bn[depth + i]>> : i \in DOMAIN values}
      \cup {<<bn[depth + i], "value", values[i]>> : i \in DOMAIN values}

-----------------------------------------------------------------------------
(***************************************************************************)
(* Reads                                                                   *)
(***************************************************************************)
Parts(e) ==
  LET lvl[n \in 0..WriteDepth] ==
        IF n = 0 THEN {e} ELSE UNION {Objects(b, "part") : b \in lvl[n-1]}
      at(n) == UNION {Objects(b, "title") : b \in lvl[n]}
  IN  [n \in 1..Cardinality({m \in 1..WriteDepth : lvl[m] # {}}) |-> at(n)]

Statements(e) == UNION {Objects(b, "value") : b \in Objects(e, "stmt")}

NoDoc == [title |-> {}, parts |-> <<>>, links |-> {}, stmts |-> {}, back |-> {}]

\* A pattern for a required property is not optional: without a value the query finds
\* nothing, and the document that comes back has nothing but its IRI.
Readable(e) == Typed(e) /\ Complete(e)

\* loadDocument(): the inverse property is resolved at the first level.
LoadDocument(e) ==
  IF Readable(e)
  THEN [title |-> Objects(e, "title"), parts |-> Parts(e), links |-> LinkedTo(e),
        stmts |-> Statements(e), back |-> Linking(e)]
  ELSE NoDoc

-----------------------------------------------------------------------------
(***************************************************************************)
(* Calls                                                                   *)
(***************************************************************************)
\* `alone` is history: no other request has changed the store since the call loaded.
Step(c, next) ==
  calls' = [x \in Clients |-> IF x = c THEN next ELSE [calls[x] EXCEPT !.alone = FALSE]]

Start(c, e, kind, doc) ==
  /\ calls[c] = IdleCall
  /\ writes < MaxWrites
  /\ writes' = writes + 1
  /\ calls' = [calls EXCEPT ![c] = [st |-> "save", kind |-> kind, e |-> e, doc |-> doc,
                                    readable |-> Readable(e), alone |-> TRUE]]
  /\ UNCHANGED triples

\* carryOverStatements(): the statements of the caller's document are stripped, those
\* of the stored one are taken over.
CarryOver(d, previous) == [d EXCEPT !.stmts = previous.stmts]

\* upsert() up to its save: the stored document is loaded for its statements.
Upsert(c, e, d) ==
  Start(c, e, "upsert", CarryOver(d, LoadDocument(e))) /\ UNCHANGED faults

\* The same when that load fails: the error is swallowed, as if nothing were stored.
UpsertUnread(c, e, d) ==
  /\ faults < MaxFaults
  /\ faults' = faults + 1
  /\ Start(c, e, "upsert", CarryOver(d, NoDoc))

\* applyStatementWrites(): the value is set and its statement added.
AddStatement(d, v) == [d EXCEPT !.title = {v}, !.stmts = @ \cup {v}]

\* writeStatements() up to its save: the whole document is loaded.
WriteStatement(c, e, v) ==
  Start(c, e, "statement", AddStatement(LoadDocument(e), v)) /\ UNCHANGED faults

\* save(): DELETE ... WHERE; INSERT DATA.
Save(c) ==
  /\ calls[c].st = "save"
  /\ LET e    == calls[c].e
         d    == Clean(e, calls[c].doc)
         kept == triples \ Description(e)
         anon == Len(d.parts) + Cardinality(d.stmts)
     IN  triples' = kept \cup DocTriples(e, d, Fresh(kept, anon))
  /\ Step(c, [calls[c] EXCEPT !.st = "sync"])
  /\ UNCHANGED <<writes, faults>>

\* getInverseProperties(): a document without the property counts as one with no value.
\* makeSPARQLInverseSyncQuery(): old targets must have the type, new ones need not.
InverseSync(e, back) ==
  LET old == {<<b, "link", e>> : b \in {x \in Entities : Typed(x)}}
  IN  (triples \ old) \cup {<<b, "link", e>> : b \in back}

\* The second request, then the event and the end of the call.
Sync(c) ==
  /\ calls[c].st = "sync"
  /\ triples' = InverseSync(calls[c].e, calls[c].doc.back)
  /\ Step(c, IdleCall)
  /\ UNCHANGED <<writes, faults>>

\* The endpoint does not carry the next request out; what was done stays.
CallFails(c) ==
  /\ calls[c].st # "idle"
  /\ faults < MaxFaults
  /\ faults' = faults + 1
  /\ calls' = [calls EXCEPT ![c] = IdleCall]
  /\ UNCHANGED <<triples, writes>>

\* removeDocument(): one request.
RemoveDocument(c, e) ==
  /\ calls[c] = IdleCall
  /\ writes < MaxWrites
  /\ writes' = writes + 1
  /\ triples' = triples \ Description(e)
  /\ Step(c, IdleCall)
  /\ UNCHANGED faults

Next ==
  \E c \in Clients :
    \/ \E e \in Entities, d \in Docs : Upsert(c, e, d) \/ UpsertUnread(c, e, d)
    \/ \E e \in Entities, v \in Titles : WriteStatement(c, e, v)
    \/ \E e \in Entities : RemoveDocument(c, e)
    \/ Save(c) \/ Sync(c) \/ CallFails(c)

Spec == Init /\ [][Next]_vars
-----------------------------------------------------------------------------
(***************************************************************************)
(* Properties                                                              *)
(***************************************************************************)
BlankNodes == ({t[1] : t \in triples} \cup {t[3] : t \in triples}) \cap Nat

TypeOK ==
  /\ \A t \in triples :
       \/ t[1] \in Entities /\ t[2] = "a" /\ t[3] = TypeIRI
       \/ t[1] \in Entities /\ t[2] = "link" /\ t[3] \in Entities
       \/ t[1] \in Entities \cup BlankNodes /\ t[2] = "title" /\ t[3] \in Titles
       \/ t[1] \in Entities \cup BlankNodes /\ t[2] = "part" /\ t[3] \in BlankNodes
       \/ t[1] \in Entities /\ t[2] = "stmt" /\ t[3] \in BlankNodes
       \/ t[1] \in BlankNodes /\ t[2] = "value" /\ t[3] \in Titles
  /\ \A c \in Clients :
       /\ calls[c].st \in {"idle", "save", "sync"}
       /\ calls[c].st # "idle" =>
            /\ calls[c].e \in Entities /\ calls[c].kind \in {"upsert", "statement"}
            /\ calls[c].doc.title \subseteq Titles /\ calls[c].doc.stmts \subseteq Titles
            /\ calls[c].doc.links \cup calls[c].doc.back \subseteq Entities
  /\ writes \in 0..MaxWrites /\ faults \in 0..MaxFaults

\* However saves, removals and failures overlap, an anonymous object belongs to exactly
\* one stored document: none stays behind as an orphan, none is shared or inserted twice
\* (save.ts, makeSPARQLDeleteQuery.ts: "with depth 0 they stayed behind as orphans").
NoOrphans ==
  \A b \in BlankNodes :
    /\ Cardinality({t \in triples : t[3] = b}) = 1
    /\ Cardinality({e \in Entities : Typed(e) /\ b \in Subjects(e, WriteDepth + 1)}) = 1

\* The document that the triples of e stand for, and the number of anonymous objects it
\* takes to store it.
StoredDoc(e) ==
  [typed |-> Typed(e), title |-> Objects(e, "title"), parts |-> Parts(e),
   links |-> Objects(e, "link"), stmts |-> Statements(e),
   anon |-> Cardinality(Subjects(e, WriteDepth + 1) \ {e})]

Abstract == INSTANCE DocumentStore WITH docs <- [e \in Entities |-> StoredDoc(e)]

\* Deleting and inserting triples comes to replacing, removing and relinking whole
\* documents: no value of the old document survives in the new one, and no other
\* document changes but by the inverse property.
ImplementsDocuments == Abstract!Spec

\* A statement written to a document that nothing else changed meanwhile sets one value
\* with its statement and keeps what the call read and wrote back: the nested objects, the
\* other statements, the links to complete documents, and the links of complete documents
\* to the entity.  All it may lose besides is links to and from entities without a title;
\* a link of the entity to itself goes with the save and comes back with the sync.
StatementKeepsTheRest ==
  [][\A c \in Clients, e \in Entities :
       (calls[c].st \in {"save", "sync"} /\ calls[c].kind = "statement" /\ calls[c].alone
        /\ calls[c].readable /\ calls[c].e = e /\ calls'[c].st # calls[c].st)
       => /\ \A b \in Entities \ {e} :
               \/ StoredDoc(b)' = StoredDoc(b)
               \/ ~Complete(b) /\ StoredDoc(b)' = [StoredDoc(b) EXCEPT !.links = @ \ {e}]
          /\ StoredDoc(e)'.parts = StoredDoc(e).parts
          /\ {b \in StoredDoc(e).links \ {e} : Complete(b)} \subseteq StoredDoc(e)'.links
          /\ StoredDoc(e)'.links \subseteq StoredDoc(e).links \cup {e}
          /\ StoredDoc(e).stmts \subseteq StoredDoc(e)'.stmts]_vars

\* persistDocument (initSPARQLStore.ts:286-289): "A plain upsert rewrites the entity,
\* sidecars included. Statements are system-mediated, so the stored ones are written
\* back unchanged" - here even when no other call is under way.
UpsertKeepsStatements ==
  [][\A c \in Clients :
       (calls[c].st = "save" /\ calls[c].kind = "upsert" /\ calls[c].alone
        /\ calls'[c].st = "sync")
       => Statements(calls[c].e)' = Statements(calls[c].e)]_vars
=============================================================================
