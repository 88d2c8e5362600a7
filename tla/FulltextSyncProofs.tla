--------------------------- MODULE FulltextSyncProofs ---------------------------
(***************************************************************************)
(* Theorems about FulltextSync, for any number of entities, overlapping    *)
(* writes, faults and bulk writes.                                         *)
(***************************************************************************)
EXTENDS FulltextSync, SequenceTheorems, TLAPS

WorkType == [e : Searchable, kind : Kinds, read : Documents]
CallType == [st : {"applied"}, e : Entities, kind : Kinds, v : Versions]
BulkType == [ph : {"idle", "push", "list", "fill"}, wiped : BOOLEAN,
             snap : [Searchable -> Documents], listed : SUBSET Searchable,
             toLoad : SUBSET Searchable, dirty : SUBSET Searchable]

Types ==
  /\ primary \in [Entities -> Versions] /\ index \in [Entities -> Documents]
  /\ \A e \in Entities \ Searchable : index[e] = Absent
  /\ exists \in BOOLEAN /\ subscribed \in BOOLEAN
  /\ calls \in [Clients -> {IdleCall} \cup CallType]
  /\ chain \in Seq(WorkType)
  /\ bulk \in BulkType
  /\ unsynced \in SUBSET Searchable /\ astray \in SUBSET Searchable
  /\ writes \in Versions /\ faults \in Nat /\ bulks \in Nat

\* Only the running work has read, and only an upsert reads.
HeadInv ==
  \A i \in DOMAIN chain : chain[i].read # Unread => i = 1 /\ chain[i].kind = "upsert"

\* Every save has its own number, and no number is ahead of the counter.
NumbersInv ==
  /\ \A e \in Entities : primary[e] <= writes
  /\ \A c \in Clients : calls[c] # IdleCall => calls[c].v <= writes

\* Without bulk writes the index is never newer than the running work, and neither is
\* newer than the store, stubs aside.
NotAhead(e, d) == d # Stub => d <= writes /\ (primary[e] # Absent => d <= primary[e])
OrderInv == bulks = 0 =>
  /\ bulk.ph = "idle"
  /\ \A e \in Searchable : NotAhead(e, index[e])
  /\ \A i \in DOMAIN chain : chain[i].read # Unread =>
       /\ NotAhead(chain[i].e, chain[i].read)
       /\ Stub \in {index[chain[i].e], chain[i].read} \/ index[chain[i].e] <= chain[i].read

\* What a bulk write holds of an entity is current unless it is marked as dirty.
BulkInv ==
  /\ bulk.ph = "idle" => ~bulk.wiped
  /\ bulk.ph = "fill" => \A e \in Searchable \ bulk.dirty : bulk.snap[e] = primary[e]

Matches(kind, e) == kind = "upsert" <=> primary[e] # Absent

\* A call in flight did what the store shows, or a later one of the other kind is in
\* flight, so that its event cannot come last unnoticed.
Later(c, d) == /\ calls[d] # IdleCall /\ calls[d].e = calls[c].e
               /\ calls[d].v > calls[c].v /\ calls[d].kind # calls[c].kind
CallsInv ==
  \A c \in Clients : (calls[c] # IdleCall /\ calls[c].e \in Searchable \ astray) =>
    Matches(calls[c].kind, calls[c].e) \/ \E d \in Clients : Later(c, d)

\* The last work on an entity does what the store shows, once all events have come.
IsLast(i) == \A j \in DOMAIN chain : j > i => chain[j].e # chain[i].e
QueueInv ==
  \A i \in DOMAIN chain :
    (IsLast(i) /\ chain[i].e \notin astray /\ ~InFlight(chain[i].e)) =>
      /\ Matches(chain[i].kind, chain[i].e)
      /\ chain[i].read # Unread => chain[i].read = primary[chain[i].e]

\* Where the index was wiped, a bulk write will fill in what was there to be listed.
Behind(e) == bulk.wiped /\ index[e] = Absent /\ (bulk.ph = "fill" => bulk.snap[e] # Absent)
AlignedInv ==
  \A e \in Searchable \ (unsynced \cup astray) :
    (~InFlight(e) /\ ~Queued(e)) => Aligned(e) \/ Behind(e)

IInv == /\ Types /\ HeadInv /\ NumbersInv /\ OrderInv
        /\ BulkInv /\ CallsInv /\ QueueInv /\ AlignedInv
-----------------------------------------------------------------------------
(* Numbers, and the fields of the state.                                   *)

LEMMA VersionsAreNumbers ==
  /\ Versions \subseteq Nat /\ 0 \in Versions
  /\ \A w \in Versions : w < MaxWrites => w + 1 \in Versions
BY BoundsAssumption DEF Versions

LEMMA DocumentsAreNumbers ==
  /\ Versions \subseteq Documents /\ 0 \in Documents /\ Documents \subseteq Nat
  /\ Stub \in Documents /\ Stub \notin Versions /\ Stub # 0
BY BoundsAssumption DEF Versions, Documents, Stub

LEMMA NoBulkIsBulk == NoBulk \in BulkType
BY DocumentsAreNumbers DEF NoBulk, BulkType, Absent

LEMMA CallFields ==
  ASSUME Types, NEW c \in Clients, calls[c] # IdleCall
  PROVE  /\ calls[c] \in CallType /\ calls[c].e \in Entities /\ calls[c].kind \in Kinds
         /\ calls[c].v \in Versions
BY DEF Types, CallType

LEMMA WorkFields ==
  ASSUME Types, NEW i \in DOMAIN chain
  PROVE  /\ chain[i] \in WorkType /\ chain[i].e \in Searchable /\ chain[i].e \in Entities
         /\ chain[i].kind \in Kinds /\ chain[i].read \in Documents
<1>1. chain[i] \in WorkType
  BY ElementOfSeq, LenProperties DEF Types
<1> QED
  BY <1>1, EntitiesAssumption DEF WorkType

LEMMA BulkFields ==
  ASSUME Types
  PROVE  /\ bulk \in BulkType /\ bulk.ph \in {"idle", "push", "list", "fill"}
         /\ bulk.wiped \in BOOLEAN /\ bulk.snap \in [Searchable -> Documents]
         /\ bulk.listed \in SUBSET Searchable /\ bulk.dirty \in SUBSET Searchable
BY DEF Types, BulkType

LEMMA ChainDomain ==
  ASSUME Types PROVE Len(chain) \in Nat /\ DOMAIN chain = 1..Len(chain)
BY LenProperties DEF Types

\* Taking the running work out moves the rest of the chain up by one.
LEMMA PopFacts ==
  ASSUME Types, 1 \in DOMAIN chain, chain' = Without(1)
  PROVE  /\ chain' \in Seq(WorkType)
         /\ DOMAIN chain' = 1..(Len(chain) - 1)
         /\ \A j \in DOMAIN chain' : j + 1 \in DOMAIN chain /\ chain'[j] = chain[j + 1]
<1>1. /\ chain \in Seq(WorkType) /\ Len(chain) \in Nat /\ Len(chain) >= 1
      /\ DOMAIN chain = 1..Len(chain)
  BY ChainDomain DEF Types
<1> DEFINE h == SubSeq(chain, 1, 0)
           t == SubSeq(chain, 2, Len(chain))
<1>2. h = <<>>
  BY <1>1, SubSeqEmpty
<1>3. /\ t \in Seq(WorkType) /\ Len(t) = Len(chain) - 1
      /\ \A j \in 1..(Len(chain) - 1) : t[j] = chain[j + 1]
  <2>1. \A j \in 2..Len(chain) : chain[j] \in WorkType
    BY <1>1, ElementOfSeq
  <2> QED
    BY <1>1, <2>1, SubSeqProperties
<1>4. chain' = t
  BY <1>2, <1>3, ConcatEmptySeq DEF Without
<1> HIDE DEF h, t
<1> QED
  BY <1>1, <1>3, <1>4, LenProperties
-----------------------------------------------------------------------------
(***************************************************************************)
(* Work that is done, well or not: the document of its entity becomes w.   *)
(***************************************************************************)
LEMMA PopKeeps ==
  ASSUME IInv, NEW e \in Searchable, 1 \in DOMAIN chain, e = chain[1].e, chain' = Without(1),
         UNCHANGED <<primary, calls, writes, subscribed, bulk, astray, bulks>>,
         exists' \in BOOLEAN, faults' \in Nat,
         NEW w \in Documents, index' = [index EXCEPT ![e] = w],
         unsynced' \in SUBSET Searchable, unsynced \ {e} \subseteq unsynced',
         bulks = 0 => NotAhead(e, w),
         (IsLast(1) /\ e \notin astray \cup unsynced' /\ ~InFlight(e)) => w = primary[e]
  PROVE  IInv'
<1>1. /\ Types /\ e \in Entities
      /\ index \in [Entities -> Documents] /\ index'[e] = w
      /\ \A f \in Entities \ {e} : index'[f] = index[f]
  BY EntitiesAssumption DEF IInv, Types
<1>2. /\ chain' \in Seq(WorkType) /\ DOMAIN chain' = 1..(Len(chain) - 1)
      /\ \A j \in DOMAIN chain' : j \in Nat /\ j + 1 \in DOMAIN chain /\ chain'[j] = chain[j + 1]
      /\ DOMAIN chain = 1..Len(chain) /\ Len(chain) \in Nat
  BY <1>1, PopFacts, ChainDomain
<1>3. \A j \in DOMAIN chain' : chain'[j].read = Unread
  BY <1>2 DEF IInv, HeadInv
<1>4. \A f : InFlight(f)' <=> InFlight(f)
  BY DEF InFlight
<1>5. Types'
  <2>1. index' \in [Entities -> Documents] /\ \A f \in Entities \ Searchable : index'[f] = Absent
    BY <1>1 DEF Types
  <2> QED
    BY <1>1, <1>2, <2>1 DEF Types
<1>6. HeadInv'
  BY <1>3 DEF HeadInv
<1>7. NumbersInv' /\ BulkInv'
  BY DEF IInv, NumbersInv, BulkInv
<1>8. OrderInv'
  <2> SUFFICES ASSUME bulks = 0 PROVE OrderInv'
    BY DEF OrderInv
  <2>1. \A f \in Searchable : NotAhead(f, index'[f])
    BY <1>1, EntitiesAssumption DEF IInv, OrderInv
  <2> QED
    BY <1>3, <2>1 DEF IInv, OrderInv, NotAhead
<1>9. CallsInv'
  BY DEF IInv, CallsInv, Matches, Later
<1>10. QueueInv'
  <2> SUFFICES ASSUME NEW i \in DOMAIN chain', IsLast(i)', chain'[i].e \notin astray,
                      ~InFlight(chain[i].e)'
               PROVE  Matches(chain[i].kind, chain[i].e)'
    BY <1>3 DEF QueueInv
  <2>1. /\ i + 1 \in DOMAIN chain /\ chain'[i] = chain[i + 1]
    BY <1>2
  <2>2. IsLast(i + 1)
    <3> SUFFICES ASSUME NEW j \in DOMAIN chain, j > i + 1 PROVE chain[j].e # chain[i + 1].e
      BY DEF IsLast
    <3>1. j - 1 \in DOMAIN chain' /\ j - 1 > i /\ chain'[j - 1] = chain[j]
      BY <1>2
    <3> QED
      BY <2>1, <3>1 DEF IsLast
  <2>3. ~InFlight(chain[i + 1].e)
    BY <2>1 DEF InFlight
  <2> QED
    BY <2>1, <2>2, <2>3 DEF IInv, QueueInv, Matches
<1>11. AlignedInv'
  <2> SUFFICES ASSUME NEW f \in Searchable, f \notin unsynced' \cup astray, ~InFlight(f)', ~Queued(f)'
               PROVE  Aligned(f)' \/ Behind(f)'
    BY DEF AlignedInv
  <2>1. \A j \in DOMAIN chain : j # 1 => chain[j].e # f
    <3> SUFFICES ASSUME NEW j \in DOMAIN chain, j # 1 PROVE chain[j].e # f
      OBVIOUS
    <3>1. j - 1 \in DOMAIN chain' /\ chain'[j - 1] = chain[j]
      BY <1>2
    <3> QED
      BY <3>1 DEF Queued
  <2>2. CASE f = e
    <3>1. IsLast(1)
      BY <1>2, <2>1, <2>2 DEF IsLast
    <3> QED
      BY <1>1, <1>4, <2>2, <3>1 DEF Aligned
  <2>3. CASE f # e
    <3>1. ~Queued(f) /\ f \notin unsynced \cup astray /\ index'[f] = index[f]
      BY <1>1, <2>1, <2>3, EntitiesAssumption DEF Queued
    <3> QED
      BY <1>4, <3>1 DEF IInv, AlignedInv, Aligned, Behind
  <2> QED
    BY <2>2, <2>3
<1> QED
  BY <1>5, <1>6, <1>7, <1>8, <1>9, <1>10, <1>11 DEF IInv

LEMMA ImportReadKeeps ==
  ASSUME IInv, NEW e \in Searchable, 1 \in DOMAIN chain, e = chain[1].e, ImportRead(1)
  PROVE  IInv'
<1> DEFINE r == [chain[1] EXCEPT !.read = Loaded(e)]
<1>1. /\ Types /\ chain \in Seq(WorkType) /\ DOMAIN chain = 1..Len(chain) /\ Len(chain) \in Nat
      /\ chain[1] \in WorkType /\ e \in Entities /\ primary[e] \in Versions
  BY ChainDomain, WorkFields, EntitiesAssumption DEF IInv, Types
<1>2. /\ chain[1].kind = "upsert"
      /\ chain' = [chain EXCEPT ![1] = r]
      /\ UNCHANGED <<store, index, exists, subscribed, bulk, excuses, faults, bulks>>
  BY DEF ImportRead
<1>14. /\ Loaded(e) \in Documents /\ Loaded(e) # Unread
       /\ primary[e] # Absent => Loaded(e) = primary[e] /\ Loaded(e) # Stub
       /\ primary[e] = Absent => Loaded(e) = Stub
  BY <1>1, DocumentsAreNumbers DEF Loaded, Absent, Unread
<1>3. /\ r \in WorkType /\ r.e = e /\ r.kind = "upsert" /\ r.read = Loaded(e)
  BY <1>1, <1>2, <1>14 DEF WorkType
<1> HIDE DEF r
<1>4. /\ chain' \in Seq(WorkType) /\ Len(chain') = Len(chain) /\ DOMAIN chain' = DOMAIN chain
      /\ chain'[1] = r /\ \A j \in DOMAIN chain \ {1} : chain'[j] = chain[j]
  BY <1>1, <1>2, <1>3, ExceptSeq, LenProperties
<1>5. \A f : InFlight(f)' <=> InFlight(f)
  BY <1>2 DEF InFlight, store
<1>6. \A i \in DOMAIN chain : chain'[i].e = chain[i].e /\ chain'[i].kind = chain[i].kind
  BY <1>2, <1>3, <1>4
<1>7. Types'
  BY <1>1, <1>2, <1>4 DEF Types, store, excuses
<1>8. HeadInv'
  BY <1>3, <1>4 DEF IInv, HeadInv
<1>9. NumbersInv' /\ BulkInv'
  BY <1>2 DEF IInv, NumbersInv, BulkInv, store
<1>10. OrderInv'
  <2> SUFFICES ASSUME bulks = 0 PROVE OrderInv'
    BY <1>2 DEF OrderInv
  <2>1. /\ NotAhead(e, Loaded(e))
        /\ Stub \in {index[e], Loaded(e)} \/ index[e] <= Loaded(e)
    <3>1. primary[e] \in Nat /\ primary[e] <= writes /\ NotAhead(e, index[e])
      BY <1>1, <1>2, VersionsAreNumbers DEF IInv, OrderInv, NumbersInv
    <3> QED
      BY <1>14, <3>1 DEF NotAhead
  <2>2. \A i \in DOMAIN chain' : chain'[i].read # Unread => i = 1
    BY <1>4 DEF IInv, HeadInv
  <2> QED
    BY <1>2, <1>3, <1>4, <2>1, <2>2 DEF IInv, OrderInv, NotAhead, store
<1>11. CallsInv'
  BY <1>2 DEF IInv, CallsInv, Matches, Later, store, excuses
<1>12. QueueInv'
  <2> SUFFICES ASSUME NEW i \in DOMAIN chain', IsLast(i)', chain'[i].e \notin astray',
                      ~InFlight(chain[i].e)'
               PROVE  /\ Matches(chain[i].kind, chain[i].e)'
                      /\ chain'[i].read # Unread => chain'[i].read = primary'[chain'[i].e]
    BY DEF QueueInv
  <2>1. IsLast(i) /\ chain[i].e \notin astray /\ ~InFlight(chain[i].e)
    BY <1>2, <1>4, <1>6 DEF IsLast, excuses, InFlight, store
  <2>2. /\ Matches(chain[i].kind, chain[i].e)
        /\ chain[i].read # Unread => chain[i].read = primary[chain[i].e]
    BY <1>4, <2>1 DEF IInv, QueueInv
  <2> QED
    BY <1>2, <1>3, <1>4, <1>6, <1>14, <2>2 DEF Matches, store
<1>13. AlignedInv'
  <2>1. \A f : Queued(f)' <=> Queued(f)
    BY <1>4, <1>6 DEF Queued
  <2> QED
    BY <1>2, <1>5, <2>1 DEF IInv, AlignedInv, Aligned, Behind, store, excuses
<1> QED
  BY <1>7, <1>8, <1>9, <1>10, <1>11, <1>12, <1>13 DEF IInv

LEMMA SyncKeeps == ASSUME IInv, SyncStep PROVE IInv'
<1>1. PICK i \in DOMAIN chain : ImportRead(i) \/ ImportMissing(i) \/ ImportWrite(i)
                                 \/ DeleteDocument(i) \/ WorkFails(i)
  BY DEF SyncStep
<1>2. i = 1 /\ 1 \in DOMAIN chain
  BY <1>1 DEF ImportRead, ImportMissing, ImportWrite, DeleteDocument, WorkFails, Turn
<1>3. PICK e \in Searchable : e = chain[1].e
  BY <1>2, WorkFields DEF IInv
<1>4. /\ Types /\ e \in Entities /\ chain[1].kind \in Kinds /\ chain[1].read \in Documents
      /\ index \in [Entities -> Documents] /\ primary \in [Entities -> Versions]
      /\ faults \in Nat /\ exists \in BOOLEAN /\ unsynced \in SUBSET Searchable
  BY <1>2, <1>3, WorkFields DEF IInv, Types
<1>5. IsLast(1) /\ e \notin astray /\ ~InFlight(e) =>
        Matches(chain[1].kind, e) /\ (chain[1].read # Unread => chain[1].read = primary[e])
  BY <1>2, <1>3 DEF IInv, QueueInv
<1>6. CASE ImportMissing(1)
  <2>1. index' = [index EXCEPT ![e] = index[e]]
    BY <1>4, <1>6 DEF ImportMissing
  <2>2. bulks = 0 => NotAhead(e, index[e])
    BY DEF IInv, OrderInv
  <2>3. index[e] \in Documents /\ 1 \in DOMAIN chain
    BY <1>2, <1>4
  <2>4. ~(IsLast(1) /\ e \notin astray /\ ~InFlight(e))
    BY <1>3, <1>5, <1>6 DEF ImportMissing, Matches
  <2>5. /\ chain' = Without(1) /\ UNCHANGED <<primary, calls, writes, subscribed, bulk, astray, bulks>>
        /\ exists' \in BOOLEAN /\ faults' \in Nat /\ unsynced' = unsynced
    BY <1>4, <1>6 DEF ImportMissing, store, excuses
  <2> QED
    BY <1>3, <1>4, <2>1, <2>2, <2>3, <2>4, <2>5, PopKeeps
<1>7. CASE ImportWrite(1)
  <2>1. /\ chain' = Without(1) /\ UNCHANGED <<primary, calls, writes, subscribed, bulk, astray, bulks>>
        /\ exists' \in BOOLEAN /\ faults' \in Nat /\ unsynced' = unsynced \ {e}
        /\ index' = [index EXCEPT ![e] = chain[1].read] /\ chain[1].read # Unread
    BY <1>3, <1>4, <1>7 DEF ImportWrite, store
  <2>2. bulks = 0 => NotAhead(e, chain[1].read)
    BY <1>2, <1>3, <2>1 DEF IInv, OrderInv
  <2>3. PICK w \in Documents : w = chain[1].read
    BY <1>4
  <2> QED
    BY <1>2, <1>3, <1>4, <1>5, <2>1, <2>2, <2>3, PopKeeps
<1>8. CASE DeleteDocument(1)
  <2>1. /\ chain' = Without(1) /\ UNCHANGED <<primary, calls, writes, subscribed, bulk, astray, bulks>>
        /\ exists' \in BOOLEAN /\ faults' \in Nat /\ unsynced' = unsynced \ {e}
        /\ index' = [index EXCEPT ![e] = Absent] /\ chain[1].kind = "remove"
    BY <1>3, <1>4, <1>8 DEF DeleteDocument, store
  <2>2. IsLast(1) /\ e \notin astray /\ ~InFlight(e) => primary[e] = Absent
    BY <1>5, <2>1 DEF Matches
  <2>3. Absent \in Documents /\ NotAhead(e, Absent)
    <3>1. writes \in Versions /\ primary[e] \in Versions
      BY <1>4 DEF Types
    <3>2. Versions \subseteq Nat /\ 0 \in Documents
      BY VersionsAreNumbers, DocumentsAreNumbers
    <3>3. writes \in Nat /\ primary[e] \in Nat
      BY <3>1, <3>2
    <3> QED
      BY <3>2, <3>3 DEF Absent, NotAhead
  <2> QED
    BY <1>2, <1>3, <1>4, <2>1, <2>2, <2>3, PopKeeps
<1>9. CASE WorkFails(1)
  <2>1. /\ chain' = Without(1) /\ UNCHANGED <<primary, calls, writes, subscribed, bulk, astray, bulks>>
        /\ exists' \in BOOLEAN /\ faults' \in Nat /\ unsynced' = unsynced \cup {e}
        /\ index' = [index EXCEPT ![e] = index[e]]
    BY <1>3, <1>4, <1>9 DEF WorkFails, store, Fault
  <2>2. bulks = 0 => NotAhead(e, index[e])
    BY DEF IInv, OrderInv
  <2> QED
    BY <1>2, <1>3, <1>4, <2>1, <2>2, PopKeeps
<1>10. CASE ImportRead(1)
  BY <1>2, <1>3, <1>10, ImportReadKeeps
<1> QED
  BY <1>1, <1>2, <1>6, <1>7, <1>8, <1>9, <1>10
-----------------------------------------------------------------------------
(* The primary store and its events.                                       *)

LEMMA WriteKeeps ==
  ASSUME IInv, NEW c \in Clients, NEW e \in Entities, NEW kind \in Kinds, Write(c, e, kind)
  PROVE  IInv'
<1> DEFINE made == [st |-> "applied", e |-> e, kind |-> kind, v |-> writes + 1]
<1>1. /\ Types /\ Versions \subseteq Nat /\ 0 \in Versions /\ bulk \in BulkType
      /\ calls \in [Clients -> {IdleCall} \cup CallType] /\ primary \in [Entities -> Versions]
      /\ writes \in Nat /\ writes + 1 \in Versions
  <2>1. Types /\ Versions \subseteq Nat /\ 0 \in Versions /\ bulk \in BulkType
    BY VersionsAreNumbers DEF IInv, Types
  <2>2. writes \in Versions /\ writes < MaxWrites
    BY <2>1 DEF Types, Write
  <2> QED
    BY <2>1, <2>2, VersionsAreNumbers DEF Types
<1>2. /\ writes' = writes + 1 /\ calls' = [calls EXCEPT ![c] = made]
      /\ primary' = [primary EXCEPT ![e] = IF kind = "upsert" THEN writes + 1 ELSE Absent]
      /\ bulk' = IF bulk.ph = "fill" THEN [bulk EXCEPT !.dirty = @ \cup ({e} \cap Searchable)]
                 ELSE bulk
      /\ calls[c] = IdleCall
      /\ UNCHANGED <<index, exists, chain, subscribed, unsynced, astray, faults, bulks>>
  BY DEF Write, excuses
<1>3. made \in CallType /\ made # IdleCall /\ made.e = e /\ made.kind = kind /\ made.v = writes + 1
  <2>1. made.st # IdleCall.st
    BY DEF IdleCall
  <2> QED
    BY <1>1, <2>1 DEF CallType
<1> HIDE DEF made
<1>4. /\ calls' \in [Clients -> {IdleCall} \cup CallType] /\ calls'[c] = made
      /\ \A d \in Clients \ {c} : calls'[d] = calls[d]
  BY <1>1, <1>2, <1>3
<1>5. /\ primary' \in [Entities -> Versions]
      /\ primary'[e] = IF kind = "upsert" THEN writes + 1 ELSE Absent
      /\ \A f \in Entities \ {e} : primary'[f] = primary[f]
  BY <1>1, <1>2 DEF Absent
<1>6. /\ bulk' \in BulkType /\ bulk'.ph = bulk.ph /\ bulk'.wiped = bulk.wiped
      /\ bulk'.snap = bulk.snap /\ bulk.dirty \subseteq bulk'.dirty
      /\ bulk.ph = "fill" /\ e \in Searchable => e \in bulk'.dirty
  BY <1>1, <1>2 DEF BulkType
<1>7. Matches(kind, e)'
  BY <1>1, <1>5 DEF Matches, Kinds, Absent
<1>8. /\ InFlight(e)' /\ \A f : InFlight(f) => InFlight(f)'
      /\ \A k, f \in Entities \ {e} : Matches(k, f)' <=> Matches(k, f)
  BY <1>2, <1>3, <1>4, <1>5 DEF InFlight, Matches
<1>9. Types'
  BY <1>1, <1>2, <1>4, <1>5, <1>6 DEF Types
<1>10. HeadInv'
  BY <1>2 DEF IInv, HeadInv
<1>11. NumbersInv'
  <2>1. ASSUME NEW f \in Entities PROVE primary'[f] <= writes + 1
    <3>1. primary[f] \in Nat /\ primary[f] <= writes
      BY <1>1 DEF IInv, NumbersInv
    <3> QED
      BY <1>1, <1>5, <3>1 DEF Absent
  <2>2. ASSUME NEW d \in Clients, calls'[d] # IdleCall PROVE calls'[d].v <= writes + 1
    <3>1. CASE d = c
      BY <1>1, <1>3, <1>4, <3>1
    <3>2. CASE d # c
      <4>1. calls'[d] = calls[d] /\ calls[d].v \in Nat /\ calls[d].v <= writes
        BY <1>1, <1>4, <2>2, <3>2, CallFields DEF IInv, NumbersInv
      <4> QED
        BY <1>1, <4>1
    <3> QED
      BY <3>1, <3>2
  <2> QED
    BY <1>2, <2>1, <2>2 DEF NumbersInv
<1>12. OrderInv'
  <2> SUFFICES ASSUME bulks = 0 PROVE OrderInv'
    BY <1>2 DEF OrderInv
  <2>1. /\ \A f \in Searchable : f \in Entities /\ index[f] \in Nat
        /\ \A i \in DOMAIN chain : chain[i].read \in Nat /\ chain[i].e \in Searchable
    BY <1>1, EntitiesAssumption, WorkFields, DocumentsAreNumbers DEF Types
  <2>2. bulk'.ph = "idle"
    BY <1>6 DEF IInv, OrderInv
  <2>3. ASSUME NEW f \in Searchable, NEW d \in Nat, NotAhead(f, d)
        PROVE  NotAhead(f, d)'
    BY <1>1, <1>2, <1>5, <2>1, <2>3 DEF NotAhead
  <2>4. \A f \in Searchable : NotAhead(f, index[f])'
    BY <1>2, <2>1, <2>3 DEF IInv, OrderInv, NotAhead
  <2>5. \A i \in DOMAIN chain : chain[i].read # Unread => NotAhead(chain[i].e, chain[i].read)'
    BY <1>2, <2>1, <2>3 DEF IInv, OrderInv, NotAhead
  <2> QED
    BY <1>2, <2>2, <2>4, <2>5 DEF IInv, OrderInv
<1>13. BulkInv'
  <2>1. bulk'.ph = "idle" => ~bulk'.wiped
    BY <1>6 DEF IInv, BulkInv
  <2>2. ASSUME bulk'.ph = "fill", NEW f \in Searchable \ bulk'.dirty
        PROVE  bulk'.snap[f] = primary'[f]
    BY <1>5, <1>6, <2>2, EntitiesAssumption DEF IInv, BulkInv
  <2> QED
    BY <2>1, <2>2 DEF BulkInv
<1>14. CallsInv'
  <2> SUFFICES ASSUME NEW d \in Clients, calls'[d] # IdleCall, calls'[d].e \in Searchable \ astray,
                      ~Matches(calls[d].kind, calls[d].e)'
               PROVE  \E b \in Clients : Later(d, b)'
    BY <1>2 DEF CallsInv
  <2>1. d # c /\ calls'[d] = calls[d]
    BY <1>3, <1>4, <1>7 DEF Matches
  <2>2. CASE calls[d].e = e
    <3>1. calls[d].kind # kind
      BY <1>7, <2>1, <2>2 DEF Matches
    <3>2. calls[d].v <= writes /\ calls[d].v \in Nat
      BY <1>1, <2>1, CallFields DEF IInv, NumbersInv
    <3>3. Later(d, c)'
      BY <1>1, <1>3, <1>4, <2>1, <2>2, <3>1, <3>2 DEF Later
    <3> QED
      BY <3>3
  <2>3. CASE calls[d].e # e
    <3>1. ~Matches(calls[d].kind, calls[d].e)
      BY <1>1, <1>5, <2>1, <2>3, CallFields DEF Matches
    <3>2. PICK b \in Clients : Later(d, b)
      BY <2>1, <3>1 DEF IInv, CallsInv
    <3>3. b # c /\ calls'[b] = calls[b]
      BY <1>2, <1>4, <3>2 DEF Later
    <3> QED
      BY <2>1, <3>2, <3>3 DEF Later
  <2> QED
    BY <2>2, <2>3
<1>15. QueueInv'
  <2> SUFFICES ASSUME NEW i \in DOMAIN chain, IsLast(i)', chain[i].e \notin astray,
                      ~InFlight(chain[i].e)'
               PROVE  /\ Matches(chain[i].kind, chain[i].e)'
                      /\ chain[i].read # Unread => chain[i].read = primary'[chain[i].e]
    BY <1>2 DEF QueueInv
  <2>1. PICK f \in Searchable : f = chain[i].e
    BY <1>1, WorkFields
  <2>2. f # e /\ ~InFlight(f)
    BY <1>2, <1>8, <2>1 DEF InFlight
  <2>3. primary'[f] = primary[f]
    BY <1>5, <2>2, EntitiesAssumption
  <2>4. IsLast(i)
    BY <1>2 DEF IsLast
  <2>5. Matches(chain[i].kind, f) /\ (chain[i].read # Unread => chain[i].read = primary[f])
    BY <2>1, <2>2, <2>4 DEF IInv, QueueInv
  <2> QED
    BY <1>2, <2>1, <2>3, <2>5 DEF Matches
<1>16. AlignedInv'
  <2> SUFFICES ASSUME NEW f \in Searchable, f \notin unsynced \cup astray, ~InFlight(f)', ~Queued(f)'
               PROVE  Aligned(f)' \/ Behind(f)'
    BY <1>2 DEF AlignedInv
  <2>1. f # e /\ ~InFlight(f) /\ ~Queued(f) /\ primary'[f] = primary[f]
    BY <1>2, <1>5, <1>8, EntitiesAssumption DEF Queued
  <2> QED
    BY <1>2, <1>6, <2>1 DEF IInv, AlignedInv, Aligned, Behind
<1> QED
  BY <1>9, <1>10, <1>11, <1>12, <1>13, <1>14, <1>15, <1>16 DEF IInv

\* A call that ends makes room for the witness of no other call whose entity has not
\* gone astray.
LEMMA EndedCall ==
  ASSUME IInv, NEW c \in Clients, calls[c] # IdleCall, calls' = [calls EXCEPT ![c] = IdleCall],
         UNCHANGED primary, astray \subseteq astray', astray' \in SUBSET Searchable,
         Overtakes(c) /\ calls[c].e \in Searchable => calls[c].e \in astray'
  PROVE  /\ CallsInv' /\ calls' \in [Clients -> {IdleCall} \cup CallType]
         /\ calls'[c] = IdleCall /\ \A d \in Clients \ {c} : calls'[d] = calls[d]
<1>1. /\ Types /\ calls' \in [Clients -> {IdleCall} \cup CallType]
      /\ calls'[c] = IdleCall /\ \A d \in Clients \ {c} : calls'[d] = calls[d]
  BY DEF IInv, Types
<1>2. ASSUME NEW d \in Clients, calls'[d] # IdleCall, calls'[d].e \in Searchable \ astray',
             ~Matches(calls'[d].kind, calls'[d].e)
      PROVE  \E b \in Clients : Later(d, b)'
  <2>1. d # c /\ calls'[d] = calls[d]
    BY <1>1, <1>2
  <2>2. PICK b \in Clients : Later(d, b)
    BY <1>2, <2>1 DEF IInv, CallsInv
  <2>3. b # c
    <3>1. ASSUME b = c PROVE Overtakes(c)
      <4>1. calls[d].v \in Nat /\ calls[c].v \in Nat
        BY <1>1, <1>2, <2>1, CallFields, VersionsAreNumbers
      <4> QED
        BY <1>2, <2>1, <2>2, <3>1, <4>1 DEF Overtakes, Later
    <3>2. calls[b].e = calls[d].e /\ calls[d].e \in Searchable \ astray'
      BY <1>2, <2>1, <2>2 DEF Later
    <3> QED
      BY <3>1, <3>2
  <2> QED
    BY <1>1, <2>1, <2>2, <2>3 DEF Later
<1> QED
  BY <1>1, <1>2 DEF CallsInv, Matches

LEMMA CallFailsKeeps == ASSUME IInv, NEW c \in Clients, CallFails(c) PROVE IInv'
<1>1. /\ calls[c] # IdleCall /\ calls' = [calls EXCEPT ![c] = IdleCall]
      /\ astray' = astray \cup ({calls[c].e} \cap Searchable) /\ faults' = faults + 1
      /\ UNCHANGED <<primary, writes, index, exists, chain, subscribed, bulk, unsynced, bulks>>
  BY DEF CallFails, Fault
<1>2. Types /\ astray' \in SUBSET Searchable
  BY <1>1 DEF IInv, Types
<1>3. /\ CallsInv' /\ calls' \in [Clients -> {IdleCall} \cup CallType]
      /\ calls'[c] = IdleCall /\ \A d \in Clients \ {c} : calls'[d] = calls[d]
  BY <1>1, <1>2, EndedCall
<1>4. \A f \in Searchable : f \notin astray' /\ ~InFlight(f)' => f \notin astray /\ ~InFlight(f)
  BY <1>1, <1>3 DEF InFlight
<1>5. Types'
  BY <1>1, <1>2, <1>3 DEF Types
<1>6. HeadInv' /\ BulkInv' /\ OrderInv'
  BY <1>1 DEF IInv, HeadInv, BulkInv, OrderInv, NotAhead
<1>7. NumbersInv'
  BY <1>1, <1>3 DEF IInv, NumbersInv
<1>8. QueueInv'
  <2> SUFFICES ASSUME NEW i \in DOMAIN chain, IsLast(i)', chain[i].e \notin astray',
                      ~InFlight(chain[i].e)'
               PROVE  /\ Matches(chain[i].kind, chain[i].e)
                      /\ chain[i].read # Unread => chain[i].read = primary[chain[i].e]
    BY <1>1 DEF QueueInv, Matches
  <2>1. PICK f \in Searchable : f = chain[i].e
    BY <1>2, WorkFields
  <2>2. f \notin astray' /\ ~InFlight(f)'
    BY <1>1, <2>1 DEF InFlight
  <2>3. IsLast(i)
    BY <1>1 DEF IsLast
  <2> QED
    BY <1>4, <2>1, <2>2, <2>3 DEF IInv, QueueInv
<1>9. AlignedInv'
  BY <1>1, <1>4 DEF IInv, AlignedInv, Aligned, Behind, Queued
<1> QED
  BY <1>3, <1>5, <1>6, <1>7, <1>8, <1>9 DEF IInv

LEMMA EmitKeeps == ASSUME IInv, NEW c \in Clients, Emit(c) PROVE IInv'
<1>1. PICK e \in Entities : e = calls[c].e
  BY CallFields DEF Emit, IInv
<1>2. PICK kind \in Kinds : kind = calls[c].kind
  BY CallFields DEF Emit, IInv
<1> DEFINE work == Work(e, kind)
<1>3. /\ calls[c] # IdleCall /\ calls' = [calls EXCEPT ![c] = IdleCall]
      /\ chain' = IF Listens(e) THEN Append(chain, work) ELSE chain
      /\ astray' = IF ~subscribed \/ Overtakes(c) THEN astray \cup ({e} \cap Searchable) ELSE astray
      /\ UNCHANGED <<primary, writes, index, exists, subscribed, bulk, unsynced, faults, bulks>>
  BY <1>1, <1>2 DEF Emit
<1>4. Types /\ astray' \in SUBSET Searchable /\ astray \subseteq astray'
  BY <1>3 DEF IInv, Types
<1>5. /\ CallsInv' /\ calls' \in [Clients -> {IdleCall} \cup CallType]
      /\ calls'[c] = IdleCall /\ \A d \in Clients \ {c} : calls'[d] = calls[d]
  BY <1>1, <1>3, <1>4, EndedCall
<1>6. \A f : f # e => (InFlight(f)' <=> InFlight(f))
  BY <1>1, <1>3, <1>5 DEF InFlight
<1>7. e \in Searchable \ astray' => Listens(e) /\ ~Overtakes(c)
  BY <1>3 DEF Listens
<1>8. CASE ~Listens(e)
  <2>1. chain' = chain
    BY <1>3, <1>8
  <2>2. \A f \in Searchable : f \notin astray' => f \notin astray /\ (InFlight(f)' <=> InFlight(f))
    BY <1>4, <1>6, <1>7, <1>8
  <2>3. Types' /\ HeadInv' /\ BulkInv' /\ OrderInv'
    BY <1>3, <1>4, <1>5, <2>1 DEF IInv, HeadInv, BulkInv, OrderInv, NotAhead, Types
  <2>4. NumbersInv'
    BY <1>3, <1>5 DEF IInv, NumbersInv
  <2>5. QueueInv'
    <3> SUFFICES ASSUME NEW i \in DOMAIN chain, IsLast(i)', chain[i].e \notin astray',
                        ~InFlight(chain[i].e)'
                 PROVE  /\ Matches(chain[i].kind, chain[i].e)
                        /\ chain[i].read # Unread => chain[i].read = primary[chain[i].e]
      BY <1>3, <2>1 DEF QueueInv, Matches
    <3>1. PICK f \in Searchable : f = chain[i].e
      BY <1>4, WorkFields
    <3>2. f \notin astray' /\ ~InFlight(f)'
      BY <2>1, <3>1 DEF InFlight
    <3>3. IsLast(i)
      BY <2>1 DEF IsLast
    <3> QED
      BY <2>2, <3>1, <3>2, <3>3 DEF IInv, QueueInv
  <2>6. AlignedInv'
    BY <1>3, <2>1, <2>2 DEF IInv, AlignedInv, Aligned, Behind, Queued
  <2> QED
    BY <1>5, <2>3, <2>4, <2>5, <2>6 DEF IInv
<1>9. CASE Listens(e)
  <2>1. /\ work \in WorkType /\ work.e = e /\ work.kind = kind /\ work.read = Unread
        /\ e \in Searchable
    BY <1>9, DocumentsAreNumbers DEF Listens, Work, WorkType, Unread
  <2> HIDE DEF work
  <2>2. /\ chain \in Seq(WorkType) /\ Len(chain) \in Nat /\ DOMAIN chain = 1..Len(chain)
    BY <1>4, ChainDomain DEF Types
  <2>3. /\ chain' \in Seq(WorkType) /\ DOMAIN chain' = 1..(Len(chain) + 1)
        /\ \A i \in DOMAIN chain : chain'[i] = chain[i]
        /\ chain'[Len(chain) + 1] = work
    BY <1>3, <1>9, <2>1, <2>2, AppendProperties, LenProperties
  <2>4. Types'
    BY <1>3, <1>4, <1>5, <2>3 DEF Types
  <2>5. HeadInv'
    BY <2>1, <2>2, <2>3 DEF IInv, HeadInv
  <2>6. BulkInv' /\ NumbersInv'
    BY <1>3, <1>5 DEF IInv, BulkInv, NumbersInv
  <2>7. OrderInv'
    BY <1>3, <2>1, <2>2, <2>3 DEF IInv, OrderInv, NotAhead
  <2>8. QueueInv'
    <3> SUFFICES ASSUME NEW i \in DOMAIN chain', IsLast(i)', chain'[i].e \notin astray',
                        ~InFlight(chain[i].e)'
                 PROVE  /\ Matches(chain'[i].kind, chain'[i].e)
                        /\ chain'[i].read # Unread => chain'[i].read = primary[chain'[i].e]
      BY <1>3 DEF QueueInv, Matches
    <3>1. CASE i = Len(chain) + 1
      <4>1. chain'[i] = work /\ e \notin astray' /\ ~Overtakes(c)
        BY <1>7, <2>1, <2>3, <3>1
      <4>2. \A d \in Clients \ {c} : calls[d] = IdleCall \/ calls[d].e # e
        BY <1>5, <2>1, <4>1 DEF InFlight
      <4>3. ~\E d \in Clients : Later(c, d)
        <5>1. calls[c].v \in Nat
          BY <1>3, <1>4, CallFields, VersionsAreNumbers
        <5> QED
          BY <1>1, <4>2, <5>1 DEF Later
      <4>4. Matches(kind, e)
        BY <1>1, <1>2, <1>3, <1>4, <2>1, <4>1, <4>3 DEF IInv, CallsInv
      <4> QED
        BY <2>1, <4>1, <4>4
    <3>2. CASE i # Len(chain) + 1
      <4>1. i \in DOMAIN chain /\ chain'[i] = chain[i]
        BY <2>2, <2>3, <3>2
      <4>2. IsLast(i) /\ chain[i].e # e
        <5>1. \A j \in DOMAIN chain : j > i => chain[j].e # chain[i].e
          BY <2>2, <2>3, <4>1 DEF IsLast
        <5>2. Len(chain) + 1 \in DOMAIN chain' /\ Len(chain) + 1 > i
          BY <2>2, <2>3, <4>1
        <5> QED
          BY <2>1, <2>3, <4>1, <5>1, <5>2 DEF IsLast
      <4>3. ~InFlight(chain[i].e) /\ chain[i].e \notin astray
        BY <1>1, <1>4, <1>5, <4>1, <4>2 DEF InFlight
      <4> QED
        BY <4>1, <4>2, <4>3 DEF IInv, QueueInv
    <3> QED
      BY <3>1, <3>2
  <2>9. AlignedInv'
    <3> SUFFICES ASSUME NEW f \in Searchable, f \notin unsynced \cup astray', ~InFlight(f)', ~Queued(f)'
                 PROVE  Aligned(f)' \/ Behind(f)'
      BY <1>3 DEF AlignedInv
    <3>1. f # e /\ ~Queued(f)
      <4>1. Len(chain) + 1 \in DOMAIN chain' /\ \A i \in DOMAIN chain : i \in DOMAIN chain'
        BY <2>2, <2>3
      <4> QED
        BY <2>1, <2>3, <4>1 DEF Queued
    <3> QED
      BY <1>3, <1>4, <1>6, <3>1 DEF IInv, AlignedInv, Aligned, Behind
  <2> QED
    BY <1>5, <2>4, <2>5, <2>6, <2>7, <2>8, <2>9 DEF IInv
<1> QED
  BY <1>8, <1>9
-----------------------------------------------------------------------------
(***************************************************************************)
(* Bulk writes, and what else leaves the store, the calls and the chain    *)
(* alone.                                                                  *)
(***************************************************************************)
LEMMA OthersKeep ==
  ASSUME IInv, UNCHANGED <<store, chain>>, astray' \in SUBSET Searchable,
         \A e \in astray \ astray' : ~InFlight(e) /\ ~Queued(e)
  PROVE  HeadInv' /\ NumbersInv' /\ CallsInv' /\ QueueInv'
<1>1. Types /\ UNCHANGED <<primary, calls, writes, chain>>
  BY DEF IInv, store
<1>2. HeadInv' /\ NumbersInv'
  BY <1>1 DEF IInv, HeadInv, NumbersInv
<1>3. CallsInv'
  <2>1. \A c \in Clients : calls[c] # IdleCall => calls[c].e \notin astray \ astray'
    BY DEF InFlight
  <2> QED
    BY <1>1, <2>1 DEF IInv, CallsInv, Matches, Later
<1>4. QueueInv'
  <2>1. \A i \in DOMAIN chain : chain[i].e \notin astray \ astray'
    BY DEF Queued
  <2> QED
    BY <1>1, <2>1 DEF IInv, QueueInv, Matches, IsLast, InFlight
<1> QED
  BY <1>2, <1>3, <1>4

LEMMA UnsubscribeKeeps == ASSUME IInv, Unsubscribe PROVE IInv'
<1>1. UNCHANGED <<store, index, exists, chain, bulk, excuses, faults, bulks>> /\ subscribed' = FALSE
  BY DEF Unsubscribe
<1>2. astray' \in SUBSET Searchable /\ astray' = astray
  BY <1>1 DEF IInv, Types, excuses
<1>3. HeadInv' /\ NumbersInv' /\ CallsInv' /\ QueueInv'
  BY <1>1, <1>2, OthersKeep
<1>4. Types' /\ OrderInv' /\ BulkInv'
  BY <1>1 DEF IInv, Types, OrderInv, NotAhead, BulkInv, store, excuses
<1>5. AlignedInv'
  BY <1>1 DEF IInv, AlignedInv, Aligned, Behind, InFlight, Queued, store, excuses
<1> QED
  BY <1>3, <1>4, <1>5 DEF IInv

LEMMA StartImportAllKeeps == ASSUME IInv, StartImportAll PROVE IInv'
<1>1. /\ UNCHANGED <<store, index, exists, chain, subscribed, excuses, faults>>
      /\ bulk.ph = "idle" /\ bulks' = bulks + 1
      /\ bulk' = [NoBulk EXCEPT !.ph = "list", !.wiped = FALSE]
  BY DEF StartImportAll, StartBulk
<1>2. /\ Types /\ bulk' \in BulkType /\ bulk'.ph = "list" /\ ~bulk'.wiped /\ ~bulk.wiped
      /\ astray' \in SUBSET Searchable /\ astray' = astray /\ bulks' \in Nat /\ bulks' # 0
  <2>1. bulk' \in BulkType /\ bulk'.ph = "list" /\ ~bulk'.wiped
    BY <1>1, NoBulkIsBulk DEF BulkType
  <2>2. ~bulk.wiped /\ bulks \in Nat
    BY <1>1 DEF IInv, BulkInv, Types
  <2>3. bulks' \in Nat /\ bulks' # 0
    BY <1>1, <2>2
  <2> QED
    BY <1>1, <2>1, <2>2, <2>3 DEF IInv, Types, excuses
<1>3. HeadInv' /\ NumbersInv' /\ CallsInv' /\ QueueInv'
  BY <1>1, <1>2, OthersKeep
<1>4. Types' /\ OrderInv' /\ BulkInv'
  BY <1>1, <1>2 DEF Types, OrderInv, NotAhead, BulkInv, store, excuses
<1>5. AlignedInv'
  BY <1>1, <1>2 DEF IInv, AlignedInv, Aligned, Behind, InFlight, Queued, store, excuses
<1> QED
  BY <1>3, <1>4, <1>5 DEF IInv

LEMMA StartReindexKeeps == ASSUME IInv, StartReindex PROVE IInv'
<1>1. /\ UNCHANGED <<store, chain, subscribed, excuses, faults>>
      /\ bulk.ph = "idle" /\ bulks' = bulks + 1
      /\ bulk' = [NoBulk EXCEPT !.ph = "push", !.wiped = TRUE]
      /\ index' = [e \in Entities |-> Absent] /\ exists' \in {exists, FALSE}
  BY DEF StartReindex, StartBulk
<1>2. /\ Types /\ bulk' \in BulkType /\ bulk'.ph = "push" /\ bulk'.wiped
      /\ astray' \in SUBSET Searchable /\ astray' = astray /\ bulks' \in Nat /\ bulks' # 0
      /\ exists' \in BOOLEAN
  <2>1. bulk' \in BulkType /\ bulk'.ph = "push" /\ bulk'.wiped
    BY <1>1, NoBulkIsBulk DEF BulkType
  <2>2. exists \in BOOLEAN /\ bulks \in Nat
    BY DEF IInv, Types
  <2>3. exists' \in BOOLEAN
    BY <1>1, <2>2
  <2>4. bulks' \in Nat /\ bulks' # 0
    BY <1>1, <2>2
  <2> QED
    BY <1>1, <2>1, <2>3, <2>4 DEF IInv, Types, excuses
<1>3. HeadInv' /\ NumbersInv' /\ CallsInv' /\ QueueInv'
  BY <1>1, <1>2, OthersKeep
<1>4. index' \in [Entities -> Documents] /\ \A e \in Entities : index'[e] = Absent
  BY <1>1, DocumentsAreNumbers DEF Absent
<1>5. Types' /\ OrderInv' /\ BulkInv'
  BY <1>1, <1>2, <1>4 DEF Types, OrderInv, NotAhead, BulkInv, store, excuses
<1>6. AlignedInv'
  BY <1>1, <1>2, <1>4, EntitiesAssumption DEF AlignedInv, Behind
<1> QED
  BY <1>3, <1>5, <1>6 DEF IInv

LEMMA PushKeeps == ASSUME IInv, Push PROVE IInv'
<1>1. /\ UNCHANGED <<store, index, chain, subscribed, excuses, faults, bulks>>
      /\ bulk.ph = "push" /\ bulk' = [bulk EXCEPT !.ph = "list"] /\ exists' = TRUE
  BY DEF Push
<1>2. /\ Types /\ bulk' \in BulkType /\ bulk'.ph = "list" /\ bulk'.wiped = bulk.wiped
      /\ astray' \in SUBSET Searchable /\ astray' = astray
  <2>1. bulk' \in BulkType /\ bulk'.ph = "list" /\ bulk'.wiped = bulk.wiped
    BY <1>1, BulkFields DEF IInv, BulkType
  <2> QED
    BY <1>1, <2>1 DEF IInv, Types, excuses
<1>3. HeadInv' /\ NumbersInv' /\ CallsInv' /\ QueueInv'
  BY <1>1, <1>2, OthersKeep
<1>4. Types' /\ OrderInv' /\ BulkInv'
  BY <1>1, <1>2 DEF IInv, Types, OrderInv, NotAhead, BulkInv, store, excuses
<1>5. AlignedInv'
  BY <1>1, <1>2 DEF IInv, AlignedInv, Aligned, Behind, InFlight, Queued, store, excuses
<1> QED
  BY <1>3, <1>4, <1>5 DEF IInv

LEMMA ListKeeps == ASSUME IInv, List PROVE IInv'
<1>1. /\ UNCHANGED <<store, index, exists, chain, subscribed, excuses, faults, bulks>>
      /\ bulk.ph = "list"
  BY DEF List
<1>2. PICK S \in SUBSET Present :
        bulk' = [bulk EXCEPT !.ph = "fill", !.listed = S, !.toLoad = S,
                             !.snap = [e \in Searchable |-> primary[e]]]
  BY DEF List
<1>3. /\ Types /\ bulk \in BulkType /\ S \in SUBSET Searchable
      /\ [e \in Searchable |-> primary[e]] \in [Searchable -> Documents]
      /\ astray' \in SUBSET Searchable /\ astray' = astray
  BY <1>1, EntitiesAssumption, DocumentsAreNumbers DEF IInv, Types, Present, excuses
<1>4. /\ bulk' \in BulkType /\ bulk'.ph = "fill" /\ bulk'.wiped = bulk.wiped
      /\ bulk'.snap = [e \in Searchable |-> primary[e]]
  BY <1>2, <1>3 DEF BulkType
<1>5. HeadInv' /\ NumbersInv' /\ CallsInv' /\ QueueInv'
  BY <1>1, <1>3, OthersKeep
<1>6. Types' /\ OrderInv' /\ BulkInv'
  BY <1>1, <1>3, <1>4 DEF IInv, Types, OrderInv, NotAhead, BulkInv, store, excuses
<1>7. AlignedInv'
  <2> SUFFICES ASSUME NEW e \in Searchable, e \notin unsynced \cup astray, ~InFlight(e), ~Queued(e)
               PROVE  Aligned(e)' \/ Behind(e)'
    BY <1>1 DEF AlignedInv, InFlight, Queued, store, excuses
  <2>1. Aligned(e) \/ (bulk.wiped /\ index[e] = Absent)
    BY DEF IInv, AlignedInv, Behind
  <2>2. bulk'.snap[e] = primary[e] /\ UNCHANGED <<index, primary>>
    BY <1>1, <1>4 DEF store
  <2> QED
    BY <1>4, <2>1, <2>2 DEF Aligned, Behind
<1> QED
  BY <1>5, <1>6, <1>7 DEF IInv

LEMMA LoadListedKeeps == ASSUME IInv, NEW e \in Searchable, LoadListed(e) PROVE IInv'
<1>1. /\ UNCHANGED <<store, index, exists, chain, subscribed, excuses, faults, bulks>>
      /\ bulk.ph = "fill"
      /\ bulk' = [bulk EXCEPT !.toLoad = @ \ {e}, !.snap[e] = Loaded(e),
                              !.dirty = IF primary[e] = Absent THEN @ \cup {e} ELSE @ \ {e}]
  BY DEF LoadListed
<1>2. /\ Types /\ bulk \in BulkType /\ e \in Entities /\ primary[e] \in Versions
      /\ astray' \in SUBSET Searchable /\ astray' = astray
  BY <1>1, EntitiesAssumption DEF IInv, Types, excuses
<1>3. /\ Loaded(e) \in Documents /\ Loaded(e) # Absent
      /\ primary[e] # Absent => Loaded(e) = primary[e]
  BY <1>2, DocumentsAreNumbers DEF Loaded, Absent
<1>4. /\ bulk' \in BulkType /\ bulk'.ph = "fill" /\ bulk'.wiped = bulk.wiped
      /\ bulk'.snap = [bulk.snap EXCEPT ![e] = Loaded(e)]
      /\ bulk'.dirty = IF primary[e] = Absent THEN bulk.dirty \cup {e} ELSE bulk.dirty \ {e}
  BY <1>1, <1>2, <1>3 DEF BulkType
<1>5. /\ bulk'.snap[e] = Loaded(e) /\ \A f \in Searchable \ {e} : bulk'.snap[f] = bulk.snap[f]
  BY <1>2, <1>4, BulkFields
<1>6. HeadInv' /\ NumbersInv' /\ CallsInv' /\ QueueInv'
  BY <1>1, <1>2, OthersKeep
<1>7. Types' /\ OrderInv'
  BY <1>1, <1>2, <1>4 DEF IInv, Types, OrderInv, NotAhead, store, excuses
<1>8. BulkInv'
  <2> SUFFICES ASSUME NEW f \in Searchable \ bulk'.dirty PROVE bulk'.snap[f] = primary[f]
    BY <1>1, <1>4 DEF BulkInv, store
  <2>1. CASE f = e
    BY <1>3, <1>4, <1>5, <2>1
  <2>2. CASE f # e
    BY <1>1, <1>4, <1>5, <2>2 DEF IInv, BulkInv
  <2> QED
    BY <2>1, <2>2
<1>9. AlignedInv'
  <2> SUFFICES ASSUME NEW f \in Searchable, f \notin unsynced \cup astray, ~InFlight(f), ~Queued(f)
               PROVE  Aligned(f)' \/ Behind(f)'
    BY <1>1 DEF AlignedInv, InFlight, Queued, store, excuses
  <2>1. Aligned(f) \/ Behind(f)
    BY DEF IInv, AlignedInv
  <2>2. UNCHANGED <<index, primary>>
    BY <1>1 DEF store
  <2> QED
    BY <1>1, <1>3, <1>4, <1>5, <2>1, <2>2 DEF Aligned, Behind
<1> QED
  BY <1>6, <1>7, <1>8, <1>9 DEF IInv

LEMMA PutKeeps == ASSUME IInv, Put PROVE IInv'
<1> DEFINE sure   == bulk.listed \ bulk.dirty
           cutOff == {e \in Searchable \ bulk.listed : bulk.wiped /\ bulk.snap[e] # Absent}
<1>1. /\ UNCHANGED <<store, chain, subscribed, faults, bulks>> /\ bulk.ph = "fill" /\ bulk' = NoBulk
      /\ index' = [e \in Entities |-> IF e \in bulk.listed THEN bulk.snap[e] ELSE index[e]]
      /\ exists' = (exists \/ bulk.listed # {})
      /\ unsynced' = (unsynced \ sure) \cup (bulk.listed \cap bulk.dirty) \cup cutOff
      /\ astray' = astray \ {e \in sure : ~Queued(e) /\ ~InFlight(e)}
  BY DEF Put
<1>2. /\ Types /\ bulk \in BulkType /\ bulk.snap \in [Searchable -> Documents]
      /\ bulk.listed \in SUBSET Searchable /\ bulk.dirty \in SUBSET Searchable
  BY BulkFields DEF IInv
<1>3. astray' \in SUBSET Searchable /\ unsynced' \in SUBSET Searchable
  BY <1>1, <1>2 DEF Types
<1>4. HeadInv' /\ NumbersInv' /\ CallsInv' /\ QueueInv'
  BY <1>1, <1>3, OthersKeep
<1>5. index' \in [Entities -> Documents] /\ \A e \in Entities \ Searchable : index'[e] = Absent
  BY <1>1, <1>2 DEF Types
<1>6. Types'
  BY <1>1, <1>2, <1>3, <1>5, NoBulkIsBulk DEF Types, store
<1>7. bulks' # 0 /\ bulk'.ph = "idle" /\ ~bulk'.wiped
  BY <1>1 DEF IInv, OrderInv, NoBulk
<1>8. OrderInv' /\ BulkInv'
  BY <1>7 DEF OrderInv, BulkInv
<1>9. AlignedInv'
  <2> SUFFICES ASSUME NEW e \in Searchable, e \notin unsynced' \cup astray', ~InFlight(e), ~Queued(e)
               PROVE  Aligned(e)'
    BY <1>1 DEF AlignedInv, InFlight, Queued, store
  <2>1. e \in Entities /\ primary' = primary
    BY <1>1, EntitiesAssumption DEF store
  <2>2. CASE e \in bulk.listed
    <3>1. e \in sure
      BY <1>1, <2>2
    <3>2. bulk.snap[e] = primary[e]
      BY <1>1, <3>1 DEF IInv, BulkInv
    <3> QED
      BY <1>1, <2>1, <2>2, <3>2 DEF Aligned
  <2>3. CASE e \notin bulk.listed
    <3>1. e \notin unsynced \cup astray /\ e \notin cutOff
      BY <1>1, <2>3
    <3>2. ~Behind(e)
      BY <1>1, <2>3, <3>1 DEF Behind
    <3>3. Aligned(e)
      BY <3>1, <3>2 DEF IInv, AlignedInv
    <3> QED
      BY <1>1, <2>1, <2>3, <3>3 DEF Aligned
  <2> QED
    BY <2>2, <2>3
<1> QED
  BY <1>4, <1>6, <1>8, <1>9 DEF IInv

LEMMA BulkFailsKeeps == ASSUME IInv, BulkFails PROVE IInv'
<1>1. /\ UNCHANGED <<store, index, exists, chain, subscribed, astray, bulks>>
      /\ bulk.ph # "idle" /\ bulk' = NoBulk /\ faults' \in {faults, faults + 1}
      /\ unsynced' = IF bulk.wiped THEN Searchable ELSE unsynced
  BY DEF BulkFails, Fault
<1>2. Types /\ astray' \in SUBSET Searchable /\ astray' = astray /\ faults' \in Nat
  BY <1>1 DEF IInv, Types
<1>3. HeadInv' /\ NumbersInv' /\ CallsInv' /\ QueueInv'
  BY <1>1, <1>2, OthersKeep
<1>4. Types'
  BY <1>1, <1>2, NoBulkIsBulk DEF Types, store
<1>5. bulks' # 0 /\ bulk'.ph = "idle" /\ ~bulk'.wiped
  BY <1>1 DEF IInv, OrderInv, NoBulk
<1>6. OrderInv' /\ BulkInv'
  BY <1>5 DEF OrderInv, BulkInv
<1>7. AlignedInv'
  BY <1>1 DEF IInv, AlignedInv, Aligned, Behind, InFlight, Queued, store
<1> QED
  BY <1>3, <1>4, <1>6, <1>7 DEF IInv
-----------------------------------------------------------------------------
(***************************************************************************)
(* The theorems.                                                           *)
(***************************************************************************)
LEMMA InitInvariant == Init => IInv
<1> SUFFICES ASSUME Init PROVE IInv
  OBVIOUS
<1>1. /\ primary = [e \in Entities |-> Absent] /\ index = [e \in Entities |-> Absent]
      /\ calls = [c \in Clients |-> IdleCall] /\ chain = <<>> /\ bulk = NoBulk
      /\ exists = TRUE /\ subscribed = TRUE /\ unsynced = {} /\ astray = {}
      /\ writes = 0 /\ faults = 0 /\ bulks = 0
  BY DEF Init
<1>2. /\ DOMAIN chain = {} /\ chain \in Seq(WorkType)
      /\ \A e \in Entities : primary[e] = 0 /\ index[e] = 0
      /\ \A c \in Clients : calls[c] = IdleCall
      /\ bulk.ph = "idle" /\ ~bulk.wiped
  BY <1>1, EmptySeq DEF Absent, NoBulk
<1>3. /\ primary \in [Entities -> Versions] /\ index \in [Entities -> Documents]
      /\ calls \in [Clients -> {IdleCall} \cup CallType]
  BY <1>1, VersionsAreNumbers, DocumentsAreNumbers DEF Absent
<1>4. Types
  BY <1>1, <1>2, <1>3, NoBulkIsBulk, VersionsAreNumbers DEF Types, Absent
<1>5. HeadInv /\ NumbersInv /\ BulkInv /\ CallsInv /\ QueueInv
  BY <1>1, <1>2 DEF HeadInv, NumbersInv, BulkInv, CallsInv, QueueInv
<1>6. OrderInv /\ AlignedInv
  BY <1>1, <1>2, EntitiesAssumption DEF OrderInv, NotAhead, AlignedInv, Aligned, Absent
<1> QED
  BY <1>4, <1>5, <1>6 DEF IInv

LEMMA NextInvariant == IInv /\ [Next]_vars => IInv'
<1> SUFFICES ASSUME IInv, [Next]_vars PROVE IInv'
  OBVIOUS
<1>1. CASE \E c \in Clients, e \in Entities, kind \in Kinds : Write(c, e, kind)
  BY <1>1, WriteKeeps
<1>2. CASE \E c \in Clients : CallStep(c)
  BY <1>2, EmitKeeps, CallFailsKeeps DEF CallStep
<1>3. CASE SyncStep
  BY <1>3, SyncKeeps
<1>4. CASE Unsubscribe \/ StartImportAll \/ StartReindex
  BY <1>4, UnsubscribeKeeps, StartImportAllKeeps, StartReindexKeeps
<1>5. CASE BulkStep
  BY <1>5, PushKeeps, ListKeeps, LoadListedKeeps, PutKeeps, BulkFailsKeeps DEF BulkStep
<1>6. CASE UNCHANGED vars
  BY <1>6 DEF vars, IInv, Types, HeadInv, NumbersInv, OrderInv, NotAhead, BulkInv, CallsInv, QueueInv,
              AlignedInv, Aligned, Behind, Matches, Later, IsLast, InFlight, Queued
<1> QED
  BY <1>1, <1>2, <1>3, <1>4, <1>5, <1>6 DEF Next

\* The strengthened invariant holds of every reachable state of the index sync.
THEOREM SyncInvariant == Spec => []IInv
BY InitInvariant, NextInvariant, PTL DEF Spec

\* Every reachable state is well typed; in particular nothing that is not searchable is
\* ever queued or indexed.
THEOREM SyncTypeCorrect == Spec => []TypeOK
<1>1. IInv => TypeOK
  BY VersionsAreNumbers DEF IInv, Types, TypeOK, WorkType, CallType, BulkType
<1> QED
  BY <1>1, SyncInvariant, PTL

\* When nothing is under way, the index holds what the store holds, for every searchable
\* entity but those the model excuses, however writes, sync work, bulk writes and
\* failures overlap.
THEOREM QuietIndexIsAligned == Spec => []AlignedWhenQuiet
<1>1. IInv => AlignedWhenQuiet
  BY DEF IInv, AlignedInv, AlignedWhenQuiet, Behind, BulkInv
<1> QED
  BY <1>1, SyncInvariant, PTL

\* The promise chain never replaces a document by an older one, as long as nobody
\* writes in bulk.
THEOREM IndexNeverGoesBack == Spec => NeverGoesBack
<1> DEFINE Forward == bulks = 0 => \A e \in Searchable :
                        (index[e] \notin {Absent, Stub} /\ index'[e] \notin {Absent, Stub}) =>
                          index'[e] >= index[e]
<1>1. IInv /\ [Next]_vars => Forward
  <2> SUFFICES ASSUME IInv, [Next]_vars, bulks = 0, NEW e \in Searchable,
                      index[e] \notin {Absent, Stub}, index'[e] \notin {Absent, Stub}
               PROVE  index'[e] >= index[e]
    OBVIOUS
  <2>1. /\ Types /\ e \in Entities /\ index[e] \in Nat /\ index \in [Entities -> Documents]
        /\ bulk.ph = "idle"
    BY EntitiesAssumption, DocumentsAreNumbers DEF IInv, Types, OrderInv
  <2>2. CASE index' = index
    BY <2>1, <2>2
  <2>3. CASE \E i \in DOMAIN chain : ImportWrite(i)
    <3>1. /\ 1 \in DOMAIN chain /\ chain[1].read # Unread
          /\ index' = [index EXCEPT ![chain[1].e] = chain[1].read]
      BY <2>3 DEF ImportWrite, Turn
    <3>2. Stub \in {index[chain[1].e], chain[1].read} \/ index[chain[1].e] <= chain[1].read
      BY <3>1 DEF IInv, OrderInv
    <3> QED
      BY <2>1, <3>1, <3>2
  <2>4. CASE \E i \in DOMAIN chain : DeleteDocument(i)
    <3>1. PICK f : index' = [index EXCEPT ![f] = Absent]
      BY <2>4 DEF DeleteDocument
    <3> QED
      BY <2>1, <3>1
  <2>5. CASE StartReindex
    BY <2>1, <2>5 DEF StartReindex
  <2>6. ~Put
    BY <2>1 DEF Put
  <2> QED
    BY <2>2, <2>3, <2>4, <2>5, <2>6 DEF Next, vars, Write, CallStep, Emit, CallFails, SyncStep,
         ImportRead, ImportMissing, WorkFails, Unsubscribe, StartImportAll, BulkStep, Push, List,
         LoadListed, BulkFails
<1>2. IInv /\ [Next]_vars => [Forward]_vars
  BY <1>1
<1> QED
  BY <1>2, SyncInvariant, PTL DEF Spec, NeverGoesBack
=============================================================================
