---------------------------- MODULE FulltextSync ----------------------------
(***************************************************************************)
(* The full-text index beside a primary store (fulltext-search-core):      *)
(* subscribeFulltextIndexSync turns change events into work on a promise   *)
(* chain; importOne reads the entity when its turn comes and writes a      *)
(* document; reindexFromStore and importAllSearchableTypes write the same  *)
(* index outside that chain.  The primary store (initSPARQLStore) emits a  *)
(* change event when its caller learns that the write was carried out.     *)
(*                                                                         *)
(* An entity is the number of the write it stems from; a document is the   *)
(* projection of what loadOne returned, so it has that number too, or is a *)
(* Stub if the entity was not there.  The index of one searchable type is  *)
(* modelled; types share nothing else.                                     *)
(***************************************************************************)
EXTENDS Naturals, Sequences, FiniteSets

CONSTANTS
  Entities,    \* entity IRIs
  Searchable,  \* those whose type is routed to the index
  Clients,     \* slots for concurrent upsert() and remove() calls
  ListLimit,   \* importAllSearchableTypes' limit, default 10_000
  MaxWrites,   \* bound: writes in a behaviour
  MaxFaults,   \* bound: failed requests
  MaxBulks     \* bound: reindex and bulk import runs

ASSUME EntitiesAssumption == Searchable \subseteq Entities
ASSUME BoundsAssumption ==
  ListLimit \in Nat /\ MaxWrites \in Nat /\ MaxFaults \in Nat /\ MaxBulks \in Nat

VARIABLES
  primary,    \* the primary store: write number, or Absent
  index,      \* the documents of the index, likewise
  exists,     \* the index has been created
  calls,      \* upsert() and remove() calls in flight
  chain,      \* queued sync work, the running one first
  subscribed, \* FALSE after unsubscribe()
  bulk,       \* the running reindex or bulk import
  unsynced,   \* entities whose last index write failed or was overwritten
  astray,     \* entities that changed with no event, or events out of order
  writes, faults, bulks

vars == <<primary, index, exists, calls, chain, subscribed, bulk, unsynced, astray,
          writes, faults, bulks>>
store   == <<primary, calls, writes>>
excuses == <<unsynced, astray>>
-----------------------------------------------------------------------------
Absent == 0
Unread == 0
Versions  == 0..MaxWrites
Stub      == MaxWrites + 1
Documents == Versions \cup {Stub}
Kinds == {"upsert", "remove"}
IdleCall == [st |-> "idle"]
NoBulk == [ph |-> "idle", wiped |-> FALSE, snap |-> [e \in Searchable |-> Absent],
           listed |-> {}, toLoad |-> {}, dirty |-> {}]

InFlight(e) == \E c \in Clients : calls[c] # IdleCall /\ calls[c].e = e
Queued(e)   == \E i \in DOMAIN chain : chain[i].e = e
Present     == {e \in Searchable : primary[e] # Absent}

\* loadDocument, which answers a missing entity with its "@id" alone.
Loaded(e) == IF primary[e] = Absent THEN Stub ELSE primary[e]

Init ==
  /\ primary = [e \in Entities |-> Absent]
  /\ index = [e \in Entities |-> Absent]
  /\ exists = TRUE
  /\ calls = [c \in Clients |-> IdleCall]
  /\ chain = <<>>
  /\ subscribed = TRUE
  /\ bulk = NoBulk
  /\ unsynced = {} /\ astray = {}
  /\ writes = 0 /\ faults = 0 /\ bulks = 0

Fault == faults < MaxFaults /\ faults' = faults + 1
-----------------------------------------------------------------------------
(* The primary store.                                                      *)

\* upsert() or remove() sends its update, which the store (external) carries out.
Write(c, e, kind) ==
  /\ calls[c] = IdleCall
  /\ writes < MaxWrites
  /\ writes' = writes + 1
  /\ primary' = [primary EXCEPT ![e] = IF kind = "upsert" THEN writes + 1 ELSE Absent]
  /\ calls' = [calls EXCEPT ![c] = [st |-> "applied", e |-> e, kind |-> kind,
                                    v |-> writes + 1]]
  /\ bulk' = IF bulk.ph = "fill" THEN [bulk EXCEPT !.dirty = @ \cup ({e} \cap Searchable)]
             ELSE bulk
  /\ UNCHANGED <<index, exists, chain, subscribed, excuses, faults, bulks>>

\* Its answer arrives: emitChange(), and the listener queues work.  The event of
\* a later write may arrive before that of an earlier one.
Work(e, kind) == [e |-> e, kind |-> kind, read |-> Unread]
Overtakes(c) ==
  \E d \in Clients : /\ calls[d] # IdleCall /\ calls[d].e = calls[c].e
                     /\ calls[d].kind # calls[c].kind /\ calls[d].v < calls[c].v

\* Mutant of Listens: every type is queued.
ListensToAll(e) == subscribed

Listens(e) == subscribed /\ e \in Searchable

Emit(c) ==
  /\ calls[c] # IdleCall
  /\ LET e == calls[c].e IN
     /\ chain' = IF Listens(e) THEN Append(chain, Work(e, calls[c].kind)) ELSE chain
     /\ astray' = IF ~subscribed \/ Overtakes(c) THEN astray \cup ({e} \cap Searchable)
                  ELSE astray
  /\ calls' = [calls EXCEPT ![c] = IdleCall]
  /\ UNCHANGED <<primary, writes, index, exists, subscribed, bulk, unsynced, faults, bulks>>

\* The answer is lost: upsert() throws before emitChange().
CallFails(c) ==
  /\ calls[c] # IdleCall
  /\ Fault
  /\ astray' = astray \cup ({calls[c].e} \cap Searchable)
  /\ calls' = [calls EXCEPT ![c] = IdleCall]
  /\ UNCHANGED <<primary, writes, index, exists, chain, subscribed, bulk, unsynced, bulks>>
-----------------------------------------------------------------------------
(* The chain: work i runs when all work before it is done.                 *)

\* Mutant of Turn: work starts at once.
TurnAtOnce(i) == i \in DOMAIN chain

Turn(i) == i \in DOMAIN chain /\ i = 1

Without(i) == SubSeq(chain, 1, i - 1) \o SubSeq(chain, i + 1, Len(chain))

\* importOne: source.loadOne.
ImportRead(i) ==
  /\ Turn(i)
  /\ chain[i].kind = "upsert" /\ chain[i].read = Unread
  /\ chain' = [chain EXCEPT ![i].read = Loaded(chain[i].e)]
  /\ UNCHANGED <<store, index, exists, subscribed, bulk, excuses, faults, bulks>>

\* The entity is gone and the primary is one whose loadOne then answers null:
\* importOne throws, and onError swallows it.
ImportMissing(i) ==
  /\ Turn(i)
  /\ chain[i].kind = "upsert" /\ chain[i].read = Unread
  /\ primary[chain[i].e] = Absent
  /\ chain' = Without(i)
  /\ UNCHANGED <<store, index, exists, subscribed, bulk, excuses, faults, bulks>>

\* adapter.addDocuments: one engine creates a missing index, the other throws.
ImportWrite(i) ==
  /\ Turn(i)
  /\ chain[i].read # Unread
  /\ index' = [index EXCEPT ![chain[i].e] = chain[i].read]
  /\ exists' = TRUE
  /\ unsynced' = unsynced \ {chain[i].e}
  /\ chain' = Without(i)
  /\ UNCHANGED <<store, subscribed, bulk, astray, faults, bulks>>

\* Mutant of DeleteDocument: the document is left to the next reindex.
DeleteSkipped(i) ==
  /\ Turn(i)
  /\ chain[i].kind = "remove"
  /\ chain' = Without(i)
  /\ unsynced' = unsynced \ {chain[i].e}
  /\ UNCHANGED <<store, index, exists, subscribed, bulk, astray, faults, bulks>>

\* adapter.deleteDocuments, which a missing index does not disturb.
DeleteDocument(i) ==
  /\ Turn(i)
  /\ chain[i].kind = "remove"
  /\ index' = [index EXCEPT ![chain[i].e] = Absent]
  /\ unsynced' = unsynced \ {chain[i].e}
  /\ chain' = Without(i)
  /\ UNCHANGED <<store, exists, subscribed, bulk, astray, faults, bulks>>

\* Mutant of WorkFails: the chain stays rejected and skips the work behind.
WorkFailsForGood(i) ==
  /\ Turn(i)
  /\ \/ Fault
     \/ ~exists /\ chain[i].read # Unread /\ UNCHANGED faults
  /\ unsynced' = unsynced \cup {chain[i].e}
  /\ chain' = <<>>
  /\ UNCHANGED <<store, index, exists, subscribed, bulk, astray, bulks>>

\* A request fails: onError is told, nothing is retried, the chain goes on.
WorkFails(i) ==
  /\ Turn(i)
  /\ \/ Fault
     \/ ~exists /\ chain[i].read # Unread /\ UNCHANGED faults
  /\ unsynced' = unsynced \cup {chain[i].e}
  /\ chain' = Without(i)
  /\ UNCHANGED <<store, index, exists, subscribed, bulk, astray, bulks>>

\* unsubscribe(): queued work still runs.
Unsubscribe ==
  /\ subscribed
  /\ subscribed' = FALSE
  /\ UNCHANGED <<store, index, exists, chain, bulk, excuses, faults, bulks>>
-----------------------------------------------------------------------------
(* Bulk writes, which nothing orders with the chain.                       *)

StartBulk(phase, wiped) ==
  /\ bulk.ph = "idle"
  /\ bulks < MaxBulks
  /\ bulks' = bulks + 1
  /\ bulk' = [NoBulk EXCEPT !.ph = phase, !.wiped = wiped]

\* importAllSearchableTypes and populateFromStore.
StartImportAll ==
  /\ StartBulk("list", FALSE)
  /\ UNCHANGED <<store, index, exists, chain, subscribed, excuses, faults>>

\* reindexFromStore: clearFulltextIndexes, or with `full` resetFulltextIndexes.
StartReindex ==
  /\ StartBulk("push", TRUE)
  /\ index' = [e \in Entities |-> Absent]
  /\ exists' \in {exists, FALSE}
  /\ UNCHANGED <<store, chain, subscribed, excuses, faults>>

\* pushFulltextIndexes: ensureIndex.
Push ==
  /\ bulk.ph = "push"
  /\ exists' = TRUE
  /\ bulk' = [bulk EXCEPT !.ph = "list"]
  /\ UNCHANGED <<store, index, chain, subscribed, excuses, faults, bulks>>

\* importMany: source.list(typeName, limit) finds the entities of the type,
List ==
  /\ bulk.ph = "list"
  /\ \E S \in SUBSET Present :
       /\ Cardinality(S) <= ListLimit
       /\ S # Present => Cardinality(S) = ListLimit
       /\ bulk' = [bulk EXCEPT !.ph = "fill", !.listed = S, !.toLoad = S,
                               !.snap = [e \in Searchable |-> primary[e]]]
  /\ UNCHANGED <<store, index, exists, chain, subscribed, excuses, faults, bulks>>

\* and loads them one by one.
LoadListed(e) ==
  /\ bulk.ph = "fill" /\ e \in bulk.toLoad
  /\ bulk' = [bulk EXCEPT !.toLoad = @ \ {e}, !.snap[e] = Loaded(e),
                          !.dirty = IF primary[e] = Absent THEN @ \cup {e} ELSE @ \ {e}]
  /\ UNCHANGED <<store, index, exists, chain, subscribed, excuses, faults, bulks>>

\* importMany: adapter.addDocuments.  What was loaded and has not changed since is
\* right again; what has changed, or was gone when it was loaded, is stale unless sync
\* work is still to come; what the limit cut off is missing if the index was wiped.
Put ==
  /\ bulk.ph = "fill" /\ bulk.toLoad = {}
  /\ index' = [e \in Entities |-> IF e \in bulk.listed THEN bulk.snap[e] ELSE index[e]]
  /\ exists' = (exists \/ bulk.listed # {})
  /\ LET sure   == bulk.listed \ bulk.dirty
         cutOff == {e \in Searchable \ bulk.listed : bulk.wiped /\ bulk.snap[e] # Absent}
     IN  /\ unsynced' = (unsynced \ sure) \cup (bulk.listed \cap bulk.dirty) \cup cutOff
         /\ astray' = astray \ {e \in sure : ~Queued(e) /\ ~InFlight(e)}
  /\ bulk' = NoBulk
  /\ UNCHANGED <<store, chain, subscribed, faults, bulks>>

\* A request of the bulk write fails and it stops half-way.
BulkFails ==
  /\ bulk.ph # "idle"
  /\ \/ Fault
     \/ /\ bulk.ph = "fill" /\ bulk.toLoad = {} /\ bulk.listed # {}
        /\ ~exists /\ UNCHANGED faults
  /\ unsynced' = IF bulk.wiped THEN Searchable ELSE unsynced
  /\ bulk' = NoBulk
  /\ UNCHANGED <<store, index, exists, chain, subscribed, astray, bulks>>
-----------------------------------------------------------------------------
SyncStep ==
  \E i \in DOMAIN chain :
    ImportRead(i) \/ ImportMissing(i) \/ ImportWrite(i) \/ DeleteDocument(i) \/ WorkFails(i)
BulkStep == Push \/ List \/ (\E e \in Searchable : LoadListed(e)) \/ Put \/ BulkFails
CallStep(c) == Emit(c) \/ CallFails(c)

Next ==
  \/ \E c \in Clients, e \in Entities, kind \in Kinds : Write(c, e, kind)
  \/ \E c \in Clients : CallStep(c)
  \/ SyncStep
  \/ Unsubscribe
  \/ StartImportAll \/ StartReindex \/ BulkStep

\* Requests are answered, with success or failure, and promise callbacks run.
Fairness == WF_vars(SyncStep) /\ WF_vars(BulkStep) /\ \A c \in Clients : WF_vars(CallStep(c))

Spec == Init /\ [][Next]_vars /\ Fairness
-----------------------------------------------------------------------------
(***************************************************************************)
(* Properties                                                              *)
(***************************************************************************)

\* Only entities of a searchable type are ever queued or indexed.
TypeOK ==
  /\ primary \in [Entities -> Versions]
  /\ index \in [Entities -> Documents]
  /\ \A e \in Entities \ Searchable : index[e] = Absent
  /\ exists \in BOOLEAN /\ subscribed \in BOOLEAN
  /\ \A c \in Clients : calls[c] = IdleCall \/
       calls[c] \in [st : {"applied"}, e : Entities, kind : Kinds, v : Versions]
  /\ chain \in Seq([e : Searchable, kind : Kinds, read : Documents])
  /\ bulk \in [ph : {"idle", "push", "list", "fill"}, wiped : BOOLEAN,
               snap : [Searchable -> Documents], listed : SUBSET Searchable,
               toLoad : SUBSET Searchable, dirty : SUBSET Searchable]
  /\ unsynced \subseteq Searchable /\ astray \subseteq Searchable
  /\ writes \in Nat /\ faults \in Nat /\ bulks \in Nat

Aligned(e) == index[e] = primary[e]

\* When no write, sync work or bulk write is under way, the index holds what the
\* primary store holds, and in particular no stub of an entity that is gone, although
\* sync work reads an entity after its event and indexes what it then finds, bulk
\* writes race with it, and errors are swallowed.  Excepted are entities whose own
\* index write failed or was overwritten by a bulk write, and those that changed
\* with no event or with events that arrived in another order.
AlignedWhenQuiet ==
  \A e \in Searchable \ (unsynced \cup astray) :
    (bulk.ph = "idle" /\ ~InFlight(e) /\ ~Queued(e)) => Aligned(e)

\* Without bulk writes, a document is never replaced by one of an older state of
\* its entity (a stub is of no state), whatever the order of concurrent upserts and
\* their events ("so overlapping upserts do not race Meili writes",
\* subscribeFulltextIndexSync.ts:66).
NeverGoesBack ==
  [][bulks = 0 => \A e \in Searchable :
       (index[e] \notin {Absent, Stub} /\ index'[e] \notin {Absent, Stub}) =>
         index'[e] >= index[e]]_vars

\* Failed work does not stop the work behind it: in the end the index agrees with
\* the primary store on every entity but the excepted ones.
EventuallyAligned ==
  <>[](\A e \in Searchable \ (unsynced \cup astray) : Aligned(e))

\* subscribeFulltextIndexSync's doc (line 44): "Keep searchable FT indexes aligned
\* with primary mutations via the change bus".
AlignedWithPrimary ==
  (/\ chain = <<>> /\ \A c \in Clients : calls[c] = IdleCall
   /\ faults = 0 /\ bulks = 0 /\ subscribed) =>
    \A e \in Searchable : Aligned(e)
=============================================================================
