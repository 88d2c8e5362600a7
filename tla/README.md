# TLA+ models of the Graviola framework

Graviola generates forms, lists and searches for linked data from a JSON
schema. Underneath is a family of stores: a document is saved, as triples, in a
SPARQL endpoint, an in-browser quad store or a relational database; change
events keep a full-text index and calculated values in step with it; a REST
tier, an importer and an acquisition tier feed it. The models here are about
that family: what happens when writes, events, batches and background work
overlap and when requests fail. The user interface is not modelled.

Every module is translated from the code; `PROJECT.json` ("map") gives for each
definition the lines it stands for.

## 1. The system

| Component | State | Operations | Hard because | Must hold |
|---|---|---|---|---|
| `indexeddb-dataset` | write buffer, flush promise, dictionary caches; IndexedDB stores `terms`, `spo`, `ops`, `pso` | `add`, `delete`, `flush`, `import`, `remove`, `matchAsync`, timer, `open`, `close` | overlapping `flush()` calls, IndexedDB transactions that end by themselves, aborts, closed tab | one batch at a time; nothing buffered is forgotten; the indexes agree; ids and terms match; the quads are those of an atomic batched set |
| `fulltext-search-core` | a promise chain, the external index | `subscribeFulltextIndexSync`, `importOne`, `importMany`, `reindexFromStore`, `populateFromStore` | events arrive after the fact and out of order, errors are swallowed, bulk writes beside the chain | index and primary store agree when nothing is under way |
| `calc-engine`, `calc-worker` | `running`, `queued`, fingerprints stored with results | `subscribeCalcInvalidation`, `climbAffectedRoots`, `warm`, `warmNow`, `stop` | the worker hears its own writes; read-evaluate-write; coalesced triggers | one run at a time; no change forgotten; the loop ends; results become fresh |
| `sparql-db-impl` | the endpoint's triples | `upsert`, `remove`, `writeStatements`, `importDocument(s)`, inverse sync | several requests per save; event after the answer | a save replaces exactly one document; statements are carried over |
| `sparql-schema` | none (builds updates) | `save`, `remove`, inverse-sync queries | schema recursion, blank nodes, depth limit | nothing of another entity is deleted, nothing of the old document survives |
| `store-core` | change-bus listeners | `emitChange`, `subscribe`, capability guards | listeners that throw | every listener hears each event once |
| `rest-store-client`, `rest-store-server` | idempotency keys; handshake | transport with retries; handler over a `Store` | a lost answer, a retry after another client's write | a success took effect; only a repeated or lost attempt overwrites what came later |
| `data-acquisition`, `secondary-sources` | token buckets, response cache | `acquire`, `httpFetch`, paginated executors | concurrent sleepers, partial results | the declared rate is kept; an answer is complete or reported as failed; calls end |
| `data-mapping` | the mappings under way | `mapByConfig`, strategies | circular records, awaited nested mappings | one entity per record; the mapping ends |
| `edb-import-staging` | entries, parents, depths, review states | `stage`, `reparent`, `setReviewState`, `applyAll`, `discard`; the strategy context | tree edits after the fact; one upsert of several fails | an entity stands under its cause; whatever is stored refers only to what is stored |
| `prisma-db-impl` | relational rows | nested `upsert` | circular references | as for SPARQL |
| schema, JSON-LD, mapping, facet and formula packages | none | conversions | recursion over data | input/output relations |
| providers, factories, transports, hooks, UI, apps | wiring, query caches | | | |

How they interact: a caller saves through a `Store` (`store-core`), usually
`initSPARQLStore`, which builds updates with `sparql-schema` and sends them to an
endpoint - in the browser one over `indexeddb-dataset`. When the answer arrives
the store emits a change event synchronously to its listeners. The full-text
sync and the calc subscription are such listeners; both only queue work there
and read the entity later. The calc worker writes through the same store
(`writeStatements`), so its own writes come back to it as events. The REST server
puts a `Store` behind HTTP, the REST client makes it a `Store` again. An
import maps the records of an authority, which `data-acquisition` may have fetched, to
entities (`data-mapping`); the staging layer collects them for review and saves them
with `upsert`.

JavaScript is single threaded: interleaving happens only where the code awaits.
In every module an action is the code between two such points, and two awaits
with nothing in between that others could see are one action.

The hazards, each with its line and the properties aimed at it, are in
`PROJECT.json` ("hazards").

## 2. Modules

| Module | What it is |
|---|---|
| `QuadStore` | abstract specification: a set of quads, a buffer, one batch, the quads met in this session |
| `Hexastore` | the write path of `indexeddb-dataset`, in detail; refines `QuadStore` |
| `QuadReads` | the reads of `indexeddb-dataset` over the state of `Hexastore`: index choice, key ranges, counting |
| `HexastoreProofs` | theorems about `Hexastore`: types, single flight, operations and callers accounted for |
| `HexastoreIndexProofs` | the indexes agree, the dictionary stays consistent, reads are exact; the refinement of `QuadStore` |
| `FulltextSync` | primary store, change events, sync chain, bulk writes, index |
| `FulltextSyncProofs` | theorems about `FulltextSync`: types, alignment, no older document |
| `CalcInvalidation` | calc worker, its subscription, `warm()` and user writes |
| `CalcProofs` | theorems about `CalcInvalidation`: types, single flight, no change forgotten |
| `DocumentStore` | abstract specification: one document per entity |
| `SparqlDocuments` | the triples that saves, removals and inverse syncs delete and insert; refines `DocumentStore` |
| `SparqlProofs` | theorems about `SparqlDocuments`: types, no orphans, other documents, statement writes; the refinement of `DocumentStore` |
| `RemoteStore` | abstract specification: what a caller of the REST store may rely on |
| `RestWrites` | client, network, handler and the store's read-modify-write; refines `RemoteStore` |
| `RestProofs` | theorems about `RestWrites`, with the refinement |
| `StagedChangeSet` | the tree of staged entities, its apply order, review and application |
| `AuthorityImport` | mapping the records of an authority into a `StagedChangeSet` |
| `AuthorityImportProofs` | theorems about both: types, one entity per record, causes, no dangling reference, complete application |
| `Acquisition` | cache, rate limiter, pagination and retries of overlapping calls |
| `AcquisitionProofs` | theorems about `Acquisition`: types, complete answers, rate limits |
| `MC*` | instances for TLC: model values, quads, symmetry |

### Hexastore

`WriteBuffer.pendingAdds` / `pendingDeletes` are sequences of operations; each
operation carries the number under which it was queued, so that properties can
follow it. `flushPromise` is a Boolean (not `null`); a running or waiting
`_doFlush()` is a job in `txq`, the queue in which IndexedDB serialises
read-write transactions on the same stores; a `flush()` call is an entry of
`calls`. `disk` is the committed database, `work` what the running transaction
sees. `termToId` / `idToTerm` are the caches of `TermDictionary`.

| Code | Action |
|---|---|
| `addQuad`, `deleteQuad` (push, then `void this.flush()` at the threshold) | `AddQuad`, `DeleteQuad` |
| `flush()` up to its first await; also inside `import`, `remove`, `matchAsync`, `countQuads`, `getSize` | `Flush` |
| the interval timer | `Tick` |
| one addition of `_doFlush` (four lookups, three puts) | `AddStep`, or `AddClashes` when the quad repeats a new term |
| one deletion | `DeleteStep`; with uncached terms `AutoCommit`, then `SkipDelete` or `DeleteTooLate` |
| `await tx.done` and the callers it wakes | `Commit` |
| a read that fills the caches | `Lookup` |
| the browser aborts the transaction (external) | `Abort` |
| `close()`, `open()`, the page goes away | `Close`, `Reopen`, `Crash` |

When a job settles, its owner and everything awaiting `flushPromise` resume in
the microtasks of that one event; nothing else can run in between, so this is
part of the settling action (`JobSucceeds`, `JobFails`). The first waiting call
that finds something buffered starts the next job; the others find an empty
buffer and return.

Abstraction: a store is opened again once the transaction of the closed connection has
ended; opened earlier, its reads and transactions would queue behind that one.

The case behind `AutoCommit` is the subtlest. `getId()` opens a read-only
transaction of its own; it cannot start before the write transaction ends, and
the write transaction, which has no request outstanding, ends by committing.
What the job did until then is on disk; the deletion that asked is skipped if a
term is unknown, and otherwise throws, because `tx.objectStore()` is called on a
finished transaction.

`QuadStore` therefore promises an atomic batch (its additions first, its deletions
then) only if every quad the batch deletes is `known`: written or looked up since the
store was opened. Another batch may stop part-way, with all its additions and some of
its deletions on disk. That can happen in the first session too, to a deletion of
a quad that was never stored.

### FulltextSync

A document in the index and an entity in the primary store are each represented
by the number of the write they stem from. `Write` is the moment the primary
store carries a request out, `Emit` the moment its caller gets the answer and
the event is emitted; between them other writes may overtake. `chain` is the
promise chain; its head is the work that runs. `ImportRead` and `ImportWrite` are
the two requests of `importOne`. A document is the projection of what `loadOne` answers,
and `initSPARQLStore` answers an entity that is gone with its bare `@id`: `importOne` takes
that for an entity and indexes it, as a `Stub`. Another primary store may answer
null, and then `importOne` throws (`ImportMissing`). An entity that lacks a required property is
loaded as a bare `@id` too; its document has nothing in it, but there is one, and it
counts as the document of that write. `bulk` is a running `reindexFromStore`, `populateFromStore` or
`importAllSearchableTypes`: it lists the entities (`List`), loads them one by one
(`LoadListed`), so that one may be gone or have changed by then, and writes their documents
(`Put`).

Two variables are not in the code: `unsynced` holds entities whose last index
write failed or was overwritten by what a bulk write had loaded before, `astray` those that changed with no
event (lost answer, after `unsubscribe()`) or whose events came in another
order. The code does nothing for these until something writes them again, so
the alignment properties except them - and only them. A document leaves both
sets as soon as the code has put it right.

Abstractions: one index; the search engine's task queue is first-in first-out,
so an adapter call that resolved is one atomic write; engines without
`deleteDocuments` are not modelled.

### CalcInvalidation

An input is the number of the user write that set it; a result is identified
with the fingerprint of its inputs (its own input and that of the child its
formulas read). `warms` are the running `warm()` calls, started by the subscription
(`"sub"`) or by `warmNow()` and the first sweep (`"now"`). One call goes through
`Load` (`evaluateForRoots`), `SkipTarget` (fresh, or missing input), `WriteTarget`
(`loadDocument` in `writeStatements`), `Persist` and `WarmEmits`; its `finally` block is
`WarmEnds` or `WarmFails`. `RunOrQueue` and `Merge` are the single flight with its
coalesced queue. A child's event starts a climb (`climbs`); `ClimbEnds`
turns it into the roots to warm, or into a full sweep if it found none.

`SaveRoot` / `RootSaved` are the two requests of a plain `upsert`: the stored
statements are loaded, then written back with the new document.

`excused` holds roots for which a change went unheard (not subscribed) or whose
run or climb failed: the code reports these to `onError` and does not retry.

Abstractions: a save is one atomic update; the roots of a run are loaded and
written in any order; relation depth is one; children are not removed. Formulas
need the root's own input, so that nothing is calculated from the bare IRI as which a
removed root is loaded. `WriteTarget` makes one step of the freshness check
(`loadStatements`) and the `loadDocument` after it: a result that another run writes
between the two would be written once more.

### SparqlDocuments

`triples` is what the endpoint stores; blank nodes are numbers. An entry of `calls` is
an `upsert()` or `writeStatements()` between its load, its save and its inverse
sync; `alone` is history for two properties (no other request has changed the store
since the load).

| Code | Action |
|---|---|
| `upsert()`: `loadPrevious()` and the statement carry-over | `Upsert`, `UpsertUnread` when the load fails |
| `writeStatements()`: `loadDocument()`, `applyStatementWrites` | `WriteStatement` |
| `cleanJSONLD`, `save()`: DELETE ... WHERE; INSERT DATA | `Save` |
| `makeSPARQLInverseSyncQuery` | `Sync` |
| a request that fails | `CallFails` |
| `removeDocument()` | `RemoveDocument` |

`Description(e)` is what the patterns of `jsonSchema2construct` match: the triples of
`e` and of the blank nodes it owns, down to `DeleteDepth`. `StoredDoc(e)` reads the
document back from the triples and is the refinement mapping; it counts the blank
nodes (`anon`), so that a document stored twice over differs from the document.

A load demands what the schema requires, of the entity (`Readable`) and of the entities it
links to or that link to it (`Complete`): their required properties are patterns inside the
optional pattern of the link, so that without a match the link is not found either. Hence
`LinkedTo` and `Linking` are the links to and from complete entities only. Linked entities are
read one level deep, their own links without that demand, so an entity that links to itself
is read with all its links (`LinkedTo`). It can come to link to itself only by its inverse property;
a save removes such a link.

`DocumentStore` says plainly what the store does in the cases that surprise. An entity
that lacks a required property reads as if it had nothing, and links to or from it are not
read. Whoever saves what was read - a form, or `writeStatements` - drops the links to such
entities, and the inverse sync deletes the links from them. An inverse sync may link
from an entity that is not stored, and that link outlives the entity's first save.

Abstractions: one type; one property that is required and carries statements
(`title`), one chain of nested anonymous objects (`parts`), one link property and its
inverse; statements are never retired (retention `all`); the schema keeps `required` and
does not declare links as named entities, which is the case where only the
blank-node guard protects them; the write depth is at least 1 (a load takes 0
for its default of 4); anonymous objects hold no links; freed blank node
labels may be used again, which nothing can observe.

### QuadReads

No state of its own: a read flushes (that is `Flush` of `Hexastore`) and then opens a
read-only transaction, which sees the committed database, after a running writer.

| Code | Definition |
|---|---|
| `selectIndex()`, with the range's prefix | `Selected`, `Prefix` |
| `buildPrefixRange()`, `IDBKeyRange.bound` and the order of keys | `BoundLength`, `InRange`, `Between` |
| `decodeKey()` and the final filter | `Decode`, `Fits` |
| `matchQuads()`, `countQuads()` | `MatchQuads`, `CountQuads` |
| `_resolvePattern()` and the look-up of terms by cache or record | `Resolvable`, `Resolved`, `TermOf` |

The range is an over-approximation whenever a bound component follows an unbound one
(subject and object without predicate); `Fits` does the rest, and `countQuads` counts
the keys of the range only when there is no such gap.

### RestWrites

One document, the calls of any number of clients, each a number. An attempt is
`<<call, try>>`. `doc` remembers which call set its data, which its statements, and
which wrote last. `requests` are attempts on their way, `running` those the server
executes, each with what it has read.

| Code | Action |
|---|---|
| `upsert`, `remove`, `writeStatements` of `RESTClientStore` | `Invoke` |
| `ky`: repeat after a network error or a status of `defaultRestTransportRetry`, or give up | `RetryOrFail`, in `Break`, `Answer`, `Fail` |
| the connection breaks, before or after the request was handed over | `Break` |
| `TimeoutError`, not repeated | `Timeout` |
| `verifyAuth`, a 4xx or 501 of the handler before it calls the store | `Refuse` |
| the handler calls the store, which first reads (`loadPrevious`, `loadDocument`) | `Accept` |
| what that load finds: the stored rest of the document or, since its error is swallowed and an incomplete document loads as its `@id`, nothing | `Found` |
| ... and then writes; `remove` reads nothing | `Save` |
| the answer; or a 500, or a 400 or 501, because a later step failed (the inverse sync rejects an invalid linked IRI) | `Answer`, `Errors` |
| the store throws before it has written | `Fail` |

`loose` marks a call that lost sight of an attempt; `applied`, `after` and `seen`
are history. `RemoteStore` promises a caller: an effect for each success, no effect of
a finished call unless it is loose, no more effects than attempts, and that the part of
the document a call does not set (the statements for a save, the data for a statement
write) comes from a document that was stored since the call was made, or is dropped. It
promises nothing about a call that was refused or failed: that may have taken effect.

Abstractions: one document, of which is left open whether it has its required properties, so
that any load may find nothing; inverse links and events belong to `SparqlDocuments` and
`FulltextSync`; the time an answer travels is part of the time the server takes.

### AuthorityImport and StagedChangeSet

A *world* is what the authority and the main store hold. `stack` is the chain of
`mapByConfig` calls under way (each awaits the next), `asks` the names that `split`
looks for at the same time, `staged` and `order` the change set's map and insertion
order.

| Code | Action |
|---|---|
| one authority record in `createEntityWithAuthoritativeLink`: `probeSameAs`, the authority's answer, the probe for the record it redirects to, the nested mapping | `Link` |
| `split` with `createEntityFromString`, up to its awaits | `Split`; then `Answer`, `AnswerFails` for each part |
| the end of a mapping: `onNewDocument`, `stage()`, `reparentFallbackChildren` | `Done` |
| an exception in a nested mapping, caught by the one above | `Throw` |
| `setReviewState`, `applyAll` and its upserts, `discard` | `Review`, `ApplyAll`, `Upserted`, `UpsertFails`, `Discard` |

`Reparent` is `reparent()` with `recomputeDepthSubtree`; `ApplyOrder` is
`referenceFirstApplyOrder`, with entities on a cycle of references at the end.
`Adopted` are the entities a newly staged one takes over: entities are staged
children first, under the root, and move below their parent when it appears.

Abstractions: of a document only the references to other staged entities are kept; one
authority; a record stands for the record with the type it is mapped to - the code finds a
staged entity by record *and* type, so one record that is linked as a place and as a location
becomes two entities, and is two records here; the path of a mapping lists the properties, the code's path adds an
element for the type, which `Depth` accounts for.

### Acquisition

Time passes in ticks of half a second. `gap` is the time since `lastAt`, `age` that since
`windowStart`, both up to the value that matters; `count` is `windowCount`. A result is
the number of pages it is made of.

| Code | Action |
|---|---|
| `executeRest()`: the cache | `Lookup` |
| `acquire()`, between its sleeps | `Acquire`, `WakeWindow`, `WakeInterval` |
| `httpFetch()`: a response, an error, an attempt to repeat | `Response`, `Retry` |
| the pagination loops | `Arrived`, `Failed`, `NextPage`, `Finish` |
| timers | `Tick` |

The offset loop behaves like the page-number loop and is not modelled twice.
`executeSparqlSelect` and `executeEntityByIri` behave like a source of kind `none`. The first
page of a paginated source asks the limiter twice, as the code does. Errors that are not repeated
(a 4xx) and a last failed attempt both are `Failed`.

## 3. Runs

| Run | Instance | Shows |
|---|---|---|
| `hexastore_batches` | 2 quads that share 3 of their terms, 3 calls, threshold 3, 3 operations, 1 close, 1 crash | types; the dictionary and its caches are consistent; reads find exactly what is committed, for every pattern; the store implements `QuadStore` |
| `hexastore_faults` | 2 quads, one repeating a term, 2 calls, threshold 2, 3 operations, 1 abort, 1 close | single flight, no stranded call, nothing left buffered, indexes agree, every operation accounted for once; every operation settles, every call returns |
| `hexastore_flush_doc` | as batches, 2 operations | **violated**: an awaited `flush()` does not mean that what was added before is persisted |
| `hexastore_loop_doc` | the repeating quad | **violated**: ids in the indexes always have a term record |
| `fulltext_sync` | 2 searchable entities and 1 other, 2 callers, 3 writes, 1 fault, 1 bulk run with a listing limit of 1 | alignment at rest (no missing document, none of an older state, no stub), no regress, eventual alignment |
| `fulltext_sync_doc` | the same without faults and bulk runs | **violated**: the index is aligned with primary mutations |
| `calc` | 2 roots sharing a child, 1 user, 2 user writes, 1 disturbance (a failed request or a `warmNow`) | single run, no forgotten change; the loop ends, results become fresh |
| `sparql_documents` | 2 entities that may link to each other, 2 clients, 3 calls, 1 fault, documents written 2 deep | no orphans, the store implements `DocumentStore`, a statement write keeps the rest but for links to and from incomplete entities |
| `sparql_upsert_doc` | 1 client, 4 calls, no fault | **violated**: a plain upsert leaves stored statements unchanged |
| `rest_writes` | 2 calls with 2 retries each, 2 faults | what a caller may rely on: `ImplementsRemoteStore`, and in particular when a later write may be undone and when a part of the document may get lost; every call returns |
| `authority_import` | 6 authorities (a ring, a diamond, redirections, repeated names, a root that is being edited), 2 failed requests, 2 rejections | one entity per record, a tree of causes, no dangling reference wherever the application stops, a complete application, an end of the mapping |
| `acquisition` | 2 calls, 6 sources of up to 3 pages, the two kinds of host policy, 4 attempts | answers are complete, limits are kept, calls end - with the exceptions the code makes |

Why these bounds are enough to meet the interesting cases:

- *Hexastore.* Three calls are needed for the woken caller that finds an empty
  buffer while another one writes; the threshold lies below the number of operations, so
  a batch can start with or without it. Two quads that share three terms in other
  positions make a wrong key order visible; each has a term of its own, so that one can
  be stored while the other is unknown, and a batch that deletes both ends half-way. Three
  operations allow an addition, a batch with the deletions, and a rest. The repeated term needs the second quad to meet the stale
  ids. `hexastore_batches` leaves aborts out: with one the dictionary is
  not consistent, which is what `hexastore_loop_doc` shows.
- *FulltextSync.* Two callers on one entity are the least that can be reordered;
  three writes allow an upsert, a remove and an upsert of one entity, or a write
  behind a failed one; a limit of one is below the two searchable entities.
- *CalcInvalidation.* A failure and a `warmNow` count together (`MaxDisturbances`). A shared child makes one event concern both roots; one
  running and one queued task are all the code has, and with the first sweep,
  `warmNow` and the subscription three runs overlap.

- *SparqlDocuments.* The documents saved are one that is nested deeper than is written and
  refers to itself and the other entity, one with an inverse property (which may name the
  entity itself), and one without the required property, so that links to and from entities
  that are not stored, or incomplete, are met by every kind of call. Three calls allow a save and two that
  overlap on it. The least deletion depth, 4 in the code, is 1 here, below the write depth
  of 2, so that the maximum of the two matters.

- *RestWrites.* One retry is needed for a repetition, a second for one that is refused or
  lost after it took effect. Two calls are the writer that repeats and the one that is
  undone; two faults allow a time-out and a lost answer. Failures before the
  write are not bounded. The three operations in every combination include a save between
  the read and the write of `writeStatements`.
- *AuthorityImport.* `MaxDepth` 3, the default of the code, is two properties deep, so that the ring
  closes once before the authority is no longer asked. Each of the six authorities is the smallest
  with its feature; two failures allow a failed probe and a failed upsert.
- *Acquisition.* Three pages and `MaxPages` 3 include sources that end before, at and behind the
  limit; two calls are the two sleepers. The code's default for `MaxPages` is 100.

Symmetry is used for invariants, action properties and for the abstract safety specifications only.
`CHECK_DEADLOCK FALSE` stands where the system really may stop: after
`unsubscribe()` or `stop()`, or when the callers have nothing left to write; in
the hexastore runs a call can always follow.

### Disagreements met on the way

1. `IndexedDBDataset.flush()` documents that awaiting it guarantees persistence
   of all quads added before. With three overlapping calls the third returns
   while the batch that holds the quad is still being written (and may fail).
2. A quad with the same new term twice aborts its batch and leaves
   ids in the dictionary caches that no record has; the next batch
   indexes them. Such quads cannot be read back.
3. `subscribeFulltextIndexSync` promises alignment; a `remove` and an `upsert`
   answered in the other order leave a stored entity without a document, or a stub
   of a removed entity in the index.
4. `persistDocument` says a plain upsert writes stored statements back unchanged.
   Statements are taken from a load that finds nothing when the stored document lacks a
   required property, and from one whose failure is swallowed; then they are lost.
   Statements written between the load and the save are undone as well, which the calc
   tier repairs, because the upsert's own event triggers another run
   (`StaleIsPending` and `EventuallyFresh` hold).

Met while modelling, and visible as an exception in a property rather than as a run of its own:

- The server announces `idempotency: {supported: true}` (`createStoreRestHandler.ts:354`) and never
  reads the key the client sends: `OnlyRepeatsBringBack` has to allow repeated attempts.
- A load that fails before an upsert counts as an empty one (`initSPARQLStore.ts:280`), and
  the save then drops the statements (`OnlyRepeatsBringBack` allows for it). A 400 may come after
  the document has been written (`createStoreRestHandler.ts:448-471`), so no property says
  that a refused call has written nothing.
- Links to and from entities that are not stored, or lack a required property, are not loaded:
  `writeStatements` and a form that saves what it loaded delete them (`StatementKeepsTheRest`,
  `DocumentStore`).
- `loadOne` answers a missing entity with an object that has its `@id`, and `importOne` checks for
  null only: until the work queued for the removal has run, the index may show an entity
  that is gone (`AlignedWhenQuiet` holds, because that work follows).
- `countQuads` is documented to iterate when the graph is bound (`IndexManager.ts:191-193`); a
  pattern that binds only the graph counts every quad (`ReadsAreExact`).
- A page-number or offset loop takes a failed page for the end and caches what it has; a
  cached paginated result is searched for items as if it were one page (`AnswersAreComplete`).
- Calls that sleep in `acquire()` are released together, and retries do not ask the limiter
  (`LimitsKept`).
- Records that refer to each other in a circle, and a name that occurs twice in a split string, become
  several entities (`OneEntityPerRecord`). A stub created at the depth limit hides
  the full record from everything mapped later.
- `parentIRI` is documented as the entity whose mapping caused the creation. Entities of a mapping
  that failed keep the root, or are adopted by another one (`ParentIsCause`).
- `pendingTrace` of a match is attached to the next entity created, which need not have to do with it.

## 4. Fairness

- `Hexastore`: weak fairness of `JobStep` (IndexedDB answers requests of a running
  transaction) and of `Tick` (the interval timer fires until `close()`). Nothing is
  assumed of callers.
- `RestWrites`: weak fairness of the steps that serve a call: a connection that does not break
  carries request and answer, and the server executes what it has accepted. `ky` bounds the
  attempts; faults are bounded too.
- `AuthorityImport`: weak fairness of `MapStep`: authority and main store answer or fail. The user
  need not review or apply anything.
- `Acquisition`: weak fairness of time and of each call's steps. That every request is answered or
  fails is an assumption about the network: `httpFetch` sets no time-out.
- `FulltextSync`, `CalcInvalidation`: weak fairness of the promise chain, the bulk
  run, the `warm()` runs and climbs, and of each user call: a request that was sent is answered,
  with success or failure. Faults are bounded, so they cannot go on for ever; starting
  new writes, `warmNow()`, reindexing, unsubscribing and stopping are not fair.

## 5. Proofs

Every theorem holds for all values of the constants that satisfy the named
assumptions: for `Hexastore`, that quads are quadruples of terms
(`QuadsAssumption`), that the threshold is positive and the bounds are numbers
(`BoundsAssumption`); for `RestWrites`, that the number of retries and the bounds
are numbers (`LimitAssumption`, `BoundsAssumption`); for `Acquisition`, that attempts,
pages and policies are numbers, that a source has a page and that only links lead in
circles (`AttemptsAssumption`, `PoliciesAssumption`, `SourcesAssumption`); for
`FulltextSync`, that what is searchable is an entity and the bounds are numbers
(`EntitiesAssumption`, `BoundsAssumption`); for `CalcInvalidation`, that a root reads
one child, that roots and children have different names, and that the bounds are
numbers (`EdgeAssumption`, `NamesAssumption`, `BoundsAssumption`); for
`SparqlDocuments`, that numbers name blank nodes only (`NamesAssumption`), that documents
are records of finitely many values (`DocsAssumption`), and that a save writes and a
deletion follows at least one level (`BoundsAssumption`: a load takes 0 for its default of 4); for
`AuthorityImport`, that the depth limit and the bounds are numbers (`DepthAssumption`,
`BoundsAssumption`), that links and redirections lead to records, that names are no
records, and that the property which `split` fills with the entities of names is not filled
by links as well (`WorldsAssumption`: it excludes a mapping configuration that gives one
target property to two strategies).

| Module | Theorem | Statement |
|---|---|---|
| `HexastoreProofs` | `InductiveInvariant` | `SafetySpec => []IInv` |
| | `TypeCorrect` | `SafetySpec => []TypeOK` |
| | `FlushIsSingleFlight` | `SafetySpec => []SingleFlight` |
| | `NoOpLostOrRepeated` | `SafetySpec => []EveryOpOnce` |
| | `NobodyIsStranded` | `SafetySpec => []NoStrandedCall` |
| | `FlushEmptiesBuffer` | `SafetySpec => []NothingLeftBuffered` |
| `HexastoreIndexProofs` | `IndexesAlwaysAgree` | `SafetySpec => []IndexesAgree` |
| | `RangeReadsAreExact` | `SafetySpec => []RangesAreExact`: a range read returns the matching quads, and counts them |
| | `DictionaryStaysConsistent` | `SafetySpec /\ [][NothingAborts]_vars => []DictionaryConsistent` |
| | `ReadsStayExact` | `SafetySpec /\ [][NothingAborts]_vars => []ReadsAreExact` |
| | `BatchesAreAtomic` | `SafetySpec /\ [][NothingAborts]_vars => ImplementsQuadStore` |
| | `PlainQuadsNeverClash` | without aborts and with quads that repeat no term, `SafetySpec => [][NothingAborts]_vars` |
| `RestProofs` | `RestTypeCorrect` | `Spec => []TypeOK` |
| | `LatestWriteAlwaysStands` | `Spec => []LatestWriteStands` |
| | `RepeatsAloneBringBack` | `Spec => OnlyRepeatsBringBack` |
| | `RestImplementsRemoteStore` | `Spec => ImplementsRemoteStore` |
| `AcquisitionProofs` | `AcquisitionInvariant` | `Spec => []IInv` |
| | `AcquisitionTypeCorrect` | `Spec => []TypeOK` |
| | `SuccessIsComplete` | `Spec => []AnswersAreComplete` |
| | `LimiterKeepsLimits` | `Spec => LimitsKept` |
| `FulltextSyncProofs` | `SyncInvariant` | `Spec => []IInv` |
| | `SyncTypeCorrect` | `Spec => []TypeOK` |
| | `QuietIndexIsAligned` | `Spec => []AlignedWhenQuiet` |
| | `IndexNeverGoesBack` | `Spec => NeverGoesBack` |
| `CalcProofs` | `CalcInvariant` | `Spec => []IInv` |
| | `CalcTypeCorrect` | `Spec => []TypeOK` |
| | `WarmIsSingle` | `Spec => []SingleWarm` |
| | `NoChangeIsForgotten` | `Spec => []StaleIsPending` |
| `SparqlProofs` | `SparqlInvariant` | `Spec => []IInv` |
| | `SparqlTypeCorrect` | `Spec => []TypeOK` |
| | `NoOrphanIsLeft` | `Spec => []NoOrphans` |
| | `OtherDocumentsStay` | `Spec => OthersStay`: a save or removal leaves the triples of all other documents alone |
| | `DocumentsAreKept` | `Spec => ImplementsDocuments` |
| | `StatementsKeepTheRest` | `Spec => StatementKeepsTheRest` |
| `AuthorityImportProofs` | `ImportStaysTyped` | `Spec => []TypeOK` |
| | `OneEntityForEachRecord` | `Spec => []OneEntityPerRecord` |
| | `ParentsAreCauses` | `Spec => []ParentIsCause` |
| | `NothingDangles` | `Spec => []NoDanglingReference` |
| | `AppliedHasStoredAll` | `Spec => AppliedIsComplete` |

**HexastoreProofs.** `IInv == TypeOK /\ FlushInv /\ WorkInv`. `SingleFlight` (at most
one job) is not inductive: nothing in it says that a running job is visible to the
next call. `FlushInv` adds that `flushPromise` is set exactly while there is a job;
then a new call waits, and when a job ends there is no other one, so of the calls it
wakes only the first with a non-empty buffer can start one. `TypeOK` is not
inductive either: `SkipDelete` and `DeleteTooLate` cache ids looked up in the
*committed* terms, and that these are positions of the running transaction's
terms needs `WorkInv`: a job whose transaction has committed itself has done all
its additions and `work = disk`.

For the callers, `AccountInv == IInv /\ EveryOpOnce /\ AddsInRange`: a batch
has not written more additions than it was given, so every operation stays in
one of the four places (buffered, in a batch, committed, lost).
`CallerInv == IInv /\ NoStrandedCall /\ NothingBehind /\ OwnersOwn`: what a caller
had in the buffer is no longer there once it has started a batch (`NothingBehind`),
and the owner of a running batch is still waiting as its owner (`OwnersOwn`), so that
ending a batch answers a call that has no answer yet.

**HexastoreIndexProofs.** A put or a delete writes three keys, so the indexes agree
after each of them, and a transaction installs or drops all of its writes at once. The
strengthening is `IndexInv`: `IInv`, and the indexes agree in the committed database
*and* in the database the transaction is working on. `RangeReadsAreExact` needs
that, and an argument about keys: the bounds of a range differ from a key in it only
past the prefix, and the prefix together with the filter after decoding binds
exactly the components the pattern binds.

The other three theorems are about runs in which no transaction fails: `NothingAborts`
says that no step is `Abort` or `AddClashes` (a batch that repeats a new term). The
hypothesis is needed: one such step leaves ids in the caches that no record has
(`hexastore_loop_doc`). Closes, crashes and transactions that commit by themselves are not
excluded. `DictInv` is `IndexInv`, and: no term has two records, every id in an index has
a record, in the committed database and in the one being written; the caches say
nothing that the records being written do not say; and between batches these are
the committed ones. Records are only ever appended (`InternKeeps`), so an id
never changes its meaning, and a key names the same quad before and after. Reads by terms
then find what matches, because terms and ids correspond one to one
(`ResolvedIds`, `FitsByTerms`), and as many (`AsManyQuads`). For the refinement
`WritingInv` says what the batch under way has done: until it has committed
itself, the database it writes is the committed content with the first `na`
additions and without the first `nd` deletions, and every quad it has added is
known. `AddStep` and a look-up are `Learn`, `AutoCommit` is `WritePart`, and the end of a
job is `Commit` or `GiveUp` together with the start of the next batch.

**RestProofs.** `IInv == Types /\ AttemptsInv /\ EffectsInv /\ ReadsInv /\ OrderInv`.
An attempt is in one place (on its way, or being executed), and its call waits
for it or has lost sight of it (`AttemptsInv`). How often a call has taken effect,
plus its attempts that may still do so, is at most the attempts it made
(`EffectsInv`, an argument about cardinalities: every action takes an attempt out of
a finite set before it counts an effect). What an attempt has read was stored since
its call was made, or is nothing (`ReadsInv`), which is what lets the abstract `Apply` choose the
same value. A call that returned with nothing lost has no attempt left, so it cannot
write after a later call: once a call has taken effect, the last writer had not
returned when it was made, or has lost an attempt; and as long as an attempt has read what
is no longer stored, the same is true of its call (`OrderInv`). `LatestWriteStands`
follows, since a success has taken effect, and `OnlyRepeatsBringBack`, since what a
save restores is either what is stored, nothing, or part of a write it overlaps. Every
action is one of `Invoke`, `Accept`, `Save` and settling a call; the lemmas are
stated for these four forms. For the refinement, `Accept` stutters, `Save` is
`Apply`, and settling a call is `Return`, `Lose` or a stutter.

**AcquisitionProofs.** `IInv == Types /\ AttemptsInv /\ PagesInv /\ ResultsInv /\ LimitsInv`.
A call that is not over has not all the pages, or is in a loop over page numbers that
cannot know (`PagesInv`), so the page it gets next completes the result or leaves it
incomplete, and never passes `MaxPages`. The cache is as complete as the answers
(`ResultsInv`), because an answer may come from it. For the limits, a call that
sleeps for the interval and was not overtaken finds, when it wakes, that the interval
is over and the window has room: `gap + wake >= policy.min` and `count < policy.max`
(`LimitsInv`). The code checks neither again. The last request is at least as old as
`gap` unless it was a retry, which connects the limiter's clock with the requests.
That a back-off is a number needs `2 ^ n \in Nat`, proved by counting subsets.

**FulltextSyncProofs.** `AlignedWhenQuiet` speaks of quiet states only; the invariant has
to say what is still to come in all the others. A call whose event has not been sent
did what the store shows, or a later call of the other kind on the same entity is
still to send its own (`CallsInv`). Once all events of an entity have come, the last
work queued for it does what the store shows, and if it has read, it has read the
stored version (`QueueInv`); with no work queued either, the index matches the store, or
was wiped by a reindex whose bulk write is going to fill it in (`Behind`, in
`AlignedInv`). That the bulk write puts the stored version needs `BulkInv`: an entity it
has listed was not written since, or is marked. Only the head of the chain has
read (`HeadInv`), so appending work spoils no read. For `NeverGoesBack`, without bulk
writes index, running work and store are in that order, stubs aside (`OrderInv`). A stub is
no exception in the other invariants: work that has read one is followed by the work for
the removal, or the removal's event is still to come, and a bulk write that has loaded one
marks the entity.

**CalcProofs.** `StaleIsPending` is shown action by action: whoever gives up a root hands
it to someone else, unless its result matches. A user's write is pending until its
event; the event hands over to a climb, the queue or a new run; a run has the root to
load, has seen it with the present inputs, or is writing it. What a run saw before a
change is not pending, but then the change is. This needs that `running` says whether
the subscription has a run (`OwnInv`: if it were wrong, an event would queue a
root and nobody would take it up) and that a root is written after all were loaded and
seen (`WriteInv`). Before the subscription, writes go unheard, those of the first sweep
included. The former are excused, and of a root that was not changed the sweep has seen
what is still true (`FirstSweepInv`), so that its writes need no event.

**SparqlProofs.** `NoOrphans` counts what a traversal of bounded depth reaches; the
invariant says why: the triples are a forest (`Forest`, `Grows`). Every anonymous object
has an owner, which is stored, and a rank, its depth below it, no deeper than a
save writes; it is the object of one triple, whose subject is its owner or one rank
above it with the same owner. In a forest the traversal from `e` to depth `n` reaches
exactly what `e` owns up to rank `n` (`SubjectsAre`), so that a deletion takes one whole
tree (`CutIsTree`), as long as it follows as deep as a save writes (`DepthIsEnough`). A
save then plants a tree of fresh nodes: distinct, and unknown to the store
(`FreshNodes`). The two places where the model counts or recurses are argued with least
elements (`LeastElement`, from the well-foundedness of finite sets), as induction over a
predicate is beyond the provers. `CutIsTree` also gives `OthersStay`.

For `DocumentsAreKept` a document is read off the triples in four parts (title with its
statement, nested objects, links, the number of anonymous objects), and each of `Save`,
`Sync` and `RemoveDocument` is shown to do to every part of every entity what
`DocumentStore` says. The forest determines what the nested part reads, so a fresh tree
reads as what was saved, and cutting a tree leaves the others as they read. That only
stored entities have a title is an invariant of its own (`TitlesTyped`).
`StatementsKeepTheRest` needs what a call knows between its load, its save and its
inverse sync: as long as no other request has come between, the document it is
to write has the stored objects and statements, those of the stored links that lead to complete
documents and no others than stored ones, and its inverse property names exactly
the complete entities that link to it, itself aside (`AloneInv`). The save changes
the completeness of no other entity, so this is still true at the sync, which can then remove
only links from entities that are not complete (`Keeps`).

**AuthorityImportProofs.** `ImportInv` has four parts: the world is one of `Worlds`, the
flags have their types, `MapInv` and `ApplyInv`. None of the invariants is inductive: what
may be staged next depends on the mappings under way, and an entity's place in the tree on
entities that are staged later. `MapInv` says:

- `Frames`: the mappings under way nest along one path, none has been staged yet, and
  each has in its `chain` the records of those above it. Only the first is the root's.
- `TreeShape`: an entity hangs at the root with the length of its path as depth, or below
  an entity with a shorter path, one deeper than that. `Reparent` recomputes the depths of a
  subtree by recursion along parents; that paths get shorter is what makes the recursion
  end where it should (`DepthIs`, `ReparentIs`).
- `Caused`: an entity stands under the entity in whose mapping it was created; or that
  mapping is under way, has the entity among its references, and adopts it when it is
  staged; or it was given up (`Dead`), and then it stays so (`DeadStayDead`). The last
  case is the exception `ParentIsCause` makes.
- `Lists`, `RefersBack`: the insertion order lists what is staged, and an entity refers to
  entities staged before it and to the root.
- `OneEach`: of two entities with one source, the exceptions of `OneEntityPerRecord` hold;
  and no entity has the record of a mapping under way, unless it was created inside it. The
  latter is why staging at the end of a mapping creates no second entity.
- `AskOK`: a name being looked for belongs to the topmost mapping or to one that was given
  up, and nobody else whose mapping goes on has staged that name meanwhile.

`ApplyInv` (from the end of the mapping on) says of a running application: what is still to
be stored refers to what is left out, to what is stored, to what comes no later, or to
what leads to the root. The apply order is computed by recursion twice over
(`EarliestIs`, `OneByOneIs`): it takes entities until none is ready. An entity that is never
ready refers to another such entity. Entities refer back to those staged before them, except
to the root, so following those references from any of them ends at the root
(`TheRestLeadsToRoot`). `Leads` is the least set that has the root and everything
that refers into it, and `LeadsAreCircular` shows that the iteration in `Circular` reaches
all of it. As no induction over a predicate is available, recursive functions are
unfolded by `Recursion` and argued with least elements (`LeastElement`).

Only model-checked: liveness under fairness and `ENABLED`, which are out of the prover's
reach. Every invariant of the passing runs is a theorem.

## 6. Not modelled

- `indexeddb-dataset`: `destroy()`, `has()`, `size` and the synchronous iterator, which
  only know the pending additions.
- `sparql-db-impl`: the rdf-12 encoding of statements, which sends a delete, an insert
  and a clean-up for each statement; queries and their result formats.
- `rest-store-client`, `rest-store-server`: reads, the handshake and the feature header;
  the authentication itself (a refusal is modelled, not why).
- `edb-import-staging`: staging an id a second time (a merge of payloads), the overlay
  store that shows staged entities among stored ones.
- `data-mapping` and the import of authorities: `createEntity`,
  `createEntityWithReificationFromString`, the `single` option, the import of RDF files,
  and what the strategies compute.
- `data-acquisition`: offline mode, forced refresh and the expiry of the cache, the
  executors for SPARQL and for files.
- `prisma-db-impl`: it rewrites a record and its relations through a generated client
  whose semantics are in the generated code and the database.
- Parsing, formatting, schema derivation, JSON-LD conversion and formula compilation:
  functions over data whose interest lies in the data.
- Transports, providers, React hooks, UI packages, command lines, generated code, sample
  data and bundles: the largest part of the repository by lines, and wiring or data.
- Third-party engines (IndexedDB, the SPARQL endpoint, the search engine, the HTTP
  server) appear as the code uses them.

## 7. Plan

Done: `Hexastore` with `QuadStore` and `QuadReads`, `FulltextSync`, `CalcInvalidation`,
`SparqlDocuments` with `DocumentStore`, `RestWrites` with `RemoteStore`,
`AuthorityImport` over `StagedChangeSet`, `Acquisition`; the proofs of section 5.

Left, in order:

1. Statements in the rdf-12 encoding; re-staging and the overlay store.
2. `prisma-db-impl`, with an external model of nested writes.
