--------------------------- MODULE DocumentStore ---------------------------
(***************************************************************************)
(* What the SPARQL store (packages/sparql-db-impl, sparql-schema) promises *)
(* to its callers, without triples and blank nodes: one document per       *)
(* entity.  A save replaces it, a removal deletes it, a statement is added *)
(* to it; an inverse property in a saved document sets which other         *)
(* documents link to the entity.                                           *)
(*                                                                         *)
(* A save takes two requests, and loads what it writes back before them,   *)
(* so calls of several clients overlap.                                    *)
(***************************************************************************)
EXTENDS Naturals, Sequences, FiniteSets

CONSTANTS
  Entities,   \* entity IRIs
  Clients,    \* slots for concurrent calls
  Docs,       \* documents that callers save
  Titles,     \* property values
  WriteDepth, \* walkerOptions.maxRecursion: how deep nested objects are written
  MaxWrites,  \* bound: calls
  MaxFaults   \* bound: failed requests

VARIABLES
  docs,  \* the stored documents
  calls, \* upsert() and writeStatements() calls in flight
  writes, faults

vars == <<docs, calls, writes, faults>>

\* title: values of a property that the schema requires and that carries statements;
\* parts: a chain of nested anonymous objects, each the set of its values;
\* links: references to entities; stmts: the values with a statement;
\* back: the entities that link to this one (x-inverseOf), which are not part of it.
NoDoc  == [title |-> {}, parts |-> <<>>, links |-> {}, stmts |-> {}, back |-> {}]
Absent == [typed |-> FALSE, title |-> {}, parts |-> <<>>, links |-> {}, stmts |-> {},
           anon |-> 0]

IdleCall == [st |-> "idle", alone |-> FALSE]

Init ==
  /\ docs = [e \in Entities |-> Absent]
  /\ calls = [c \in Clients |-> IdleCall]
  /\ writes = 0 /\ faults = 0

\* What a read finds: nothing if a required property is missing, and no link to or from
\* an entity that lacks one - but all its links once it links to itself.
Complete(e) == docs[e].title # {}
Readable(e) == docs[e].typed /\ Complete(e)

LinkedTo(e) ==
  IF e \in docs[e].links THEN docs[e].links ELSE {b \in docs[e].links : Complete(b)}

Linking(e) == {b \in Entities : Complete(b) /\ e \in docs[b].links}

Read(e) ==
  IF Readable(e)
  THEN [title |-> docs[e].title, parts |-> docs[e].parts, links |-> LinkedTo(e),
        stmts |-> docs[e].stmts, back |-> Linking(e)]
  ELSE NoDoc

\* Client c goes on to `next`; the other calls no longer have the store to themselves.
Step(c, next) ==
  calls' = [x \in Clients |-> IF x = c THEN next ELSE [calls[x] EXCEPT !.alone = FALSE]]

Start(c, e, kind, doc) ==
  /\ calls[c] = IdleCall
  /\ writes < MaxWrites
  /\ writes' = writes + 1
  /\ calls' = [calls EXCEPT ![c] = [st |-> "save", kind |-> kind, e |-> e, doc |-> doc,
                                    readable |-> Readable(e), alone |-> TRUE]]
  /\ UNCHANGED docs

\* The statements are carried over, unless the stored document could not be loaded.
Upsert(c, e, d) ==
  \/ Start(c, e, "upsert", [d EXCEPT !.stmts = Read(e).stmts]) /\ UNCHANGED faults
  \/ /\ faults < MaxFaults
     /\ faults' = faults + 1
     /\ Start(c, e, "upsert", [d EXCEPT !.stmts = {}])

WriteStatement(c, e, v) ==
  /\ Start(c, e, "statement", [Read(e) EXCEPT !.title = {v}, !.stmts = @ \cup {v}])
  /\ UNCHANGED faults

\* The document becomes the stored one.  What an inverse property made an entity
\* link to that was not stored yet stays.
Save(c) ==
  /\ calls[c].st = "save"
  /\ LET e     == calls[c].e
         d     == calls[c].doc
         parts == SubSeq(d.parts, 1, IF Len(d.parts) < WriteDepth
                                     THEN Len(d.parts) ELSE WriteDepth)
     IN  docs' = [docs EXCEPT ![e] =
                    [typed |-> TRUE, title |-> d.title, parts |-> parts,
                     links |-> (d.links \ {e}) \cup (IF @.typed THEN {} ELSE @.links),
                     stmts |-> d.stmts, anon |-> Len(parts) + Cardinality(d.stmts)]]
  /\ Step(c, [calls[c] EXCEPT !.st = "sync"])
  /\ UNCHANGED <<writes, faults>>

\* Afterwards exactly the entities of the inverse property link to e, and whatever
\* is not stored as a document of the type.
Sync(c) ==
  /\ calls[c].st = "sync"
  /\ LET e    == calls[c].e
         back == calls[c].doc.back
     IN  docs' = [b \in Entities |->
                    [docs[b] EXCEPT !.links = (IF docs[b].typed THEN @ \ {e} ELSE @)
                                              \cup (IF b \in back THEN {e} ELSE {})]]
  /\ Step(c, IdleCall)
  /\ UNCHANGED <<writes, faults>>

\* A request fails: the call ends, and nothing is rolled back.
CallFails(c) ==
  /\ calls[c].st # "idle"
  /\ faults < MaxFaults
  /\ faults' = faults + 1
  /\ calls' = [calls EXCEPT ![c] = IdleCall]
  /\ UNCHANGED <<docs, writes>>

RemoveDocument(c, e) ==
  /\ calls[c] = IdleCall
  /\ writes < MaxWrites
  /\ writes' = writes + 1
  /\ docs' = IF docs[e].typed THEN [docs EXCEPT ![e] = Absent] ELSE docs
  /\ Step(c, IdleCall)
  /\ UNCHANGED faults

Next ==
  \E c \in Clients :
    \/ \E e \in Entities, d \in Docs : Upsert(c, e, d)
    \/ \E e \in Entities, v \in Titles : WriteStatement(c, e, v)
    \/ \E e \in Entities : RemoveDocument(c, e)
    \/ Save(c) \/ Sync(c) \/ CallFails(c)

Spec == Init /\ [][Next]_vars
=============================================================================
