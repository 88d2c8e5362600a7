------------------------------ MODULE Hexastore ------------------------------
(***************************************************************************)
(* The write path of packages/indexeddb-dataset: WriteBuffer (queued       *)
(* additions and deletions, flush), TermDictionary (terms <-> integer ids, *)
(* with an in-memory cache) and the three key-only index stores, over      *)
(* IndexedDB transactions, which are external and modelled as the code     *)
(* uses them.                                                              *)
(*                                                                         *)
(* JavaScript is single threaded: an action is what runs between two       *)
(* awaits that can be interleaved with something else.  A flush() call is  *)
(* a process (a slot of Calls); fire-and-forget calls of the timer and of  *)
(* the threshold are calls nobody looks at.  _doFlush() is a job in txq,   *)
(* the queue in which IndexedDB runs read-write transactions on the same   *)
(* stores; only its head runs.                                             *)
(***************************************************************************)
EXTENDS Naturals, Sequences, Functions

CONSTANTS
  Terms,          \* RDF terms, in their dictionary form
  Quads,          \* the quads callers use: sequences <<s, p, o, g>> of Terms
  Calls,          \* slots for concurrent flush() calls
  FlushThreshold, \* buffered operations that trigger a flush
  MaxOps,         \* bound: operations queued in a behaviour
  MaxAborts,      \* bound: transactions the browser aborts
  MaxCloses,      \* bound: close() calls
  MaxCrashes      \* bound: crashes (the page goes away)

ASSUME QuadsAssumption == Quads \subseteq [1..4 -> Terms]
ASSUME BoundsAssumption ==
  /\ FlushThreshold \in Nat \ {0}
  /\ MaxOps \in Nat /\ MaxAborts \in Nat /\ MaxCloses \in Nat /\ MaxCrashes \in Nat

VARIABLES
  pendingAdds, pendingDeletes, \* WriteBuffer: sequences of [q: Quads, n: operation number]
  flushPromise,   \* TRUE iff WriteBuffer.flushPromise # null; it is then the youngest job's
  txq,            \* running and waiting _doFlush() jobs, oldest first
  calls,          \* state of each flush() call
  disk,           \* committed database: [terms, idx]
  work,           \* database as the transaction of Head(txq) sees it; disk when none runs
  termToId, idToTerm, \* TermDictionary's caches
  isOpen,         \* FALSE after close()
  opCount,        \* operations queued so far: the n-th one has number n
  committed, lost,    \* numbers of the operations committed, and given up
  aborts, closes, crashes

buffer == <<pendingAdds, pendingDeletes>>
cache  == <<termToId, idToTerm>>
faults == <<aborts, closes, crashes>>
vars   == <<buffer, flushPromise, txq, calls, disk, work, cache, isOpen,
            opCount, committed, lost, faults>>
-----------------------------------------------------------------------------
Indexes == {"spo", "ops", "pso"}
NoId    == 0          \* Map.get() of an absent term; autoIncrement starts at 1
Ids     == Nat \ {NoId}

\* spoKey, opsKey, psoKey: which component of <<s, p, o, g>> stands where.
Permutation == [spo |-> <<1, 2, 3, 4>>, ops |-> <<3, 2, 1, 4>>, pso |-> <<2, 1, 3, 4>>]

\* Mutant of Key: the graph is left out.
KeyWithoutGraph(x, ids) == [i \in 1..3 |-> ids[Permutation[x][i]]]

Key(x, ids) == [i \in 1..4 |-> ids[Permutation[x][i]]]

Ops(s) == {s[i].n : i \in DOMAIN s}
EmptyDb == [terms |-> <<>>, idx |-> [x \in Indexes |-> {}]]
IdleCall == [st |-> "idle", upto |-> 0, ops |-> {}]
Free(c) == calls[c].st \in {"idle", "ok", "err"}

\* The dictionary of a database: term record i is ts[i].
IdIn(ts, t) == CHOOSE i \in DOMAIN ts : ts[i] = t

IsNew(t) == termToId[t] = NoId /\ t \notin Range(work.terms)

\* getOrCreateId adds a record for each new term of a quad, in the order s, p, o, g.
NewAt(q, i) ==
  IF IsNew(q[i]) /\ \A k \in 1..(i - 1) : q[k] # q[i] THEN <<q[i]>> ELSE <<>>
InternQuad(q) ==
  work.terms \o NewAt(q, 1) \o NewAt(q, 2) \o NewAt(q, 3) \o NewAt(q, 4)

\* The four lookups of a quad run side by side (Promise.all): the same new term
\* in two positions is looked up twice before it is added once.
Repeats(q) == {j \in 1..4 : IsNew(q[j]) /\ \E i \in 1..(j - 1) : q[i] = q[j]}

\* The caches after the terms S, which have records in ts, were looked up.
Remember(ts, S) ==
  LET fresh == {t \in S : termToId[t] = NoId}
      ids   == {IdIn(ts, t) : t \in fresh}
  IN  /\ termToId' = [t \in Terms |-> IF t \in fresh THEN IdIn(ts, t) ELSE termToId[t]]
      /\ idToTerm' = [i \in DOMAIN idToTerm \cup ids |->
                        IF i \in ids THEN ts[i] ELSE idToTerm[i]]
-----------------------------------------------------------------------------
Init ==
  /\ pendingAdds = <<>> /\ pendingDeletes = <<>>
  /\ flushPromise = FALSE
  /\ txq = <<>>
  /\ calls = [c \in Calls |-> IdleCall]
  /\ disk = EmptyDb /\ work = EmptyDb
  /\ termToId = [t \in Terms |-> NoId]
  /\ idToTerm = [i \in {} |-> i]
  /\ isOpen = TRUE
  /\ opCount = 0
  /\ committed = {} /\ lost = {}
  /\ aborts = 0 /\ closes = 0 /\ crashes = 0

(***************************************************************************)
(* flush().  `called` is the call table with c's new entry, q the job      *)
(* queue; the buffer to splice is given as adds and dels because addQuad   *)
(* and deleteQuad call flush() right after their push.                     *)
(***************************************************************************)
Job(c, adds, dels) ==
  [owner |-> c, waiters |-> <<>>, adds |-> adds, dels |-> dels,
   na |-> 0, nd |-> 0, live |-> TRUE]

\* Nothing to write: return.
ReturnEmpty(c, called, q, adds, dels) ==
  /\ adds = <<>> /\ dels = <<>>
  /\ pendingAdds' = adds /\ pendingDeletes' = dels
  /\ calls' = [called EXCEPT ![c].st = "ok"]
  /\ txq' = q /\ flushPromise' = FALSE
  /\ UNCHANGED lost

\* Mutant of BeginJob: the buffer is copied, not spliced.
BeginJobByCopy(c, called, q, adds, dels) ==
  /\ adds # <<>> \/ dels # <<>>
  /\ isOpen
  /\ pendingAdds' = adds /\ pendingDeletes' = dels
  /\ calls' = [called EXCEPT ![c].st = "own", ![c].ops = Ops(adds) \cup Ops(dels)]
  /\ txq' = Append(q, Job(c, adds, dels)) /\ flushPromise' = TRUE
  /\ UNCHANGED lost

\* Splice the buffer and open a transaction for it.
BeginJob(c, called, q, adds, dels) ==
  /\ adds # <<>> \/ dels # <<>>
  /\ isOpen
  /\ pendingAdds' = <<>> /\ pendingDeletes' = <<>>
  /\ calls' = [called EXCEPT ![c].st = "own", ![c].ops = Ops(adds) \cup Ops(dels)]
  /\ txq' = Append(q, Job(c, adds, dels)) /\ flushPromise' = TRUE
  /\ UNCHANGED lost

\* After close(), db.transaction() throws: the spliced batch is gone.
BeginFails(c, called, q, adds, dels) ==
  /\ adds # <<>> \/ dels # <<>>
  /\ ~isOpen
  /\ pendingAdds' = <<>> /\ pendingDeletes' = <<>>
  /\ calls' = [called EXCEPT ![c].st = "err", ![c].ops = Ops(adds) \cup Ops(dels)]
  /\ txq' = q /\ flushPromise' = FALSE
  /\ lost' = lost \cup Ops(adds) \cup Ops(dels)

SpliceAndWrite(c, called, q, adds, dels) ==
  \/ ReturnEmpty(c, called, q, adds, dels)
  \/ BeginJob(c, called, q, adds, dels)
  \/ BeginFails(c, called, q, adds, dels)

\* A flush is running: await its promise.
AwaitRunning(c, adds, dels, n) ==
  /\ flushPromise
  /\ pendingAdds' = adds /\ pendingDeletes' = dels
  /\ txq' = [txq EXCEPT ![Len(txq)].waiters = Append(@, c)]
  /\ calls' = [calls EXCEPT ![c] = [st |-> "waiting", upto |-> n, ops |-> {}]]
  /\ UNCHANGED <<flushPromise, lost>>

\* Mutant of StartFlush: a running flush is not awaited.
StartFlushAtOnce(c, adds, dels, n) ==
  /\ Free(c)
  /\ SpliceAndWrite(c, [calls EXCEPT ![c] = [IdleCall EXCEPT !.upto = n]], txq, adds, dels)

\* The flush() call number c, with n operations queued so far.
StartFlush(c, adds, dels, n) ==
  /\ Free(c)
  /\ \/ AwaitRunning(c, adds, dels, n)
     \/ /\ ~flushPromise
        /\ SpliceAndWrite(c, [calls EXCEPT ![c] = [IdleCall EXCEPT !.upto = n]],
                          txq, adds, dels)
-----------------------------------------------------------------------------
\* push, then flush at the threshold (`void this.flush()`: nobody awaits it).
PushThenFlush(adds, dels) ==
  /\ opCount < MaxOps
  /\ opCount' = opCount + 1
  /\ \/ /\ Len(adds) + Len(dels) < FlushThreshold
        /\ pendingAdds' = adds /\ pendingDeletes' = dels
        /\ UNCHANGED <<flushPromise, txq, calls, lost>>
     \/ /\ Len(adds) + Len(dels) >= FlushThreshold
        /\ \E c \in Calls : StartFlush(c, adds, dels, opCount + 1)
  /\ UNCHANGED <<disk, work, cache, isOpen, committed, faults>>

AddQuad(q) ==
  PushThenFlush(Append(pendingAdds, [q |-> q, n |-> opCount + 1]), pendingDeletes)

DeleteQuad(q) ==
  PushThenFlush(pendingAdds, Append(pendingDeletes, [q |-> q, n |-> opCount + 1]))

\* An awaited flush(): flush(), import(), remove(), and every read (matchAsync,
\* countQuads, getSize), all of which flush first.
Flush(c) ==
  /\ StartFlush(c, pendingAdds, pendingDeletes, opCount)
  /\ UNCHANGED <<opCount, disk, work, cache, isOpen, committed, faults>>

\* Mutant of Tick: the timer looks at the additions only.
TickOnAdds ==
  /\ isOpen
  /\ pendingAdds # <<>>
  /\ \E c \in Calls : Flush(c)

\* The interval timer; stopTimer() in close() ends it.
Tick ==
  /\ isOpen
  /\ pendingAdds # <<>> \/ pendingDeletes # <<>>
  /\ \E c \in Calls : Flush(c)
-----------------------------------------------------------------------------
(***************************************************************************)
(* A job ends: .finally() clears flushPromise, then everything that awaits *)
(* the promise resumes in the order it was awaited, in one microtask run   *)
(* that nothing else can enter: the call that owns the job returns, the    *)
(* first waiting call takes what is buffered, the others find nothing.     *)
(***************************************************************************)
\* Mutant of Returned: only the call that owns the job returns.
OwnerReturned(h, how) ==
  [c \in Calls |-> IF c = h.owner THEN [calls[c] EXCEPT !.st = how] ELSE calls[c]]

Returned(h, how) ==
  [c \in Calls |-> IF c = h.owner \/ c \in Range(h.waiters)
                   THEN [calls[c] EXCEPT !.st = how] ELSE calls[c]]

ResumeNone(h, how) ==
  /\ calls' = Returned(h, how)
  /\ txq' = Tail(txq) /\ flushPromise' = FALSE
  /\ UNCHANGED buffer

\* Mutant of JobSucceeds: waiting calls return without flushing again.
JobSucceedsOnce(h) ==
  /\ ResumeNone(h, "ok")
  /\ UNCHANGED lost

JobSucceeds(h) ==
  \/ /\ h.waiters = <<>> \/ pendingAdds \o pendingDeletes = <<>>
     /\ ResumeNone(h, "ok")
     /\ UNCHANGED lost
  \/ /\ h.waiters # <<>> /\ pendingAdds \o pendingDeletes # <<>>
     /\ SpliceAndWrite(Head(h.waiters), Returned(h, "ok"), Tail(txq),
                       pendingAdds, pendingDeletes)

\* Mutant of JobFails: calls that wait for a failed flush are forgotten.
JobFailsForOwner(h) ==
  /\ calls' = [calls EXCEPT ![h.owner].st = "err"]
  /\ txq' = Tail(txq) /\ flushPromise' = FALSE
  /\ UNCHANGED buffer
  /\ lost' = lost \cup ((Ops(h.adds) \cup Ops(h.dels)) \ committed)

JobFails(h) ==
  /\ ResumeNone(h, "err")
  /\ lost' = lost \cup ((Ops(h.adds) \cup Ops(h.dels)) \ committed)

\* The operations of a job that are carried out.
OpsUpTo(s, k) == {s[i].n : i \in DOMAIN s \cap 1..k}
Done(h) == OpsUpTo(h.adds, h.na) \cup OpsUpTo(h.dels, h.nd)

\* Mutant of Put: the third index is forgotten.
PutTwo(db, ids) ==
  [db EXCEPT !.idx = [x \in Indexes |-> IF x = "pso" THEN @[x] ELSE @[x] \cup {Key(x, ids)}]]

\* The work of one _doFlush(): the head of txq, between two awaits.
Put(db, ids) ==
  [db EXCEPT !.idx = [x \in Indexes |-> @[x] \cup {Key(x, ids)}]]
Remove(db, ids) ==
  [db EXCEPT !.idx = [x \in Indexes |-> @[x] \ {Key(x, ids)}]]

\* An addition: ids for the four terms, then a put into each index.
AddStep ==
  /\ txq # <<>>
  /\ LET h == Head(txq) IN
     /\ h.na < Len(h.adds)
     /\ LET q  == h.adds[h.na + 1].q
        IN  \E ts \in {InternQuad(q)} :
            /\ Repeats(q) = {}
            /\ Remember(ts, Range(q))
            /\ work' = Put([work EXCEPT !.terms = ts],
                           [i \in 1..4 |-> IF termToId[q[i]] # NoId THEN termToId[q[i]]
                                           ELSE IdIn(ts, q[i])])
     /\ txq' = [txq EXCEPT ![1].na = h.na + 1]
  /\ UNCHANGED <<buffer, flushPromise, calls, disk, isOpen, opCount, committed, lost, faults>>

\* The second add of a repeated new term breaks the unique by_term index: the
\* transaction aborts.  The ids handed out stay in the caches.
AddClashes ==
  /\ txq # <<>>
  /\ LET h == Head(txq) IN
     /\ h.na < Len(h.adds)
     /\ LET q == h.adds[h.na + 1].q
            seen == {q[k] : k \in {k \in 1..4 : \A j \in Repeats(q) : k < j}}
        IN  /\ Repeats(q) # {}
            /\ Remember(InternQuad(q), seen \cup {t \in Range(q) : ~IsNew(t)})
     /\ JobFails(h)
  /\ work' = disk
  /\ UNCHANGED <<disk, isOpen, opCount, committed, faults>>

Adding == txq # <<>> /\ Head(txq).na < Len(Head(txq).adds)
\* Mutant of Deleting: deletions do not wait for the additions.
DeletingAtOnce ==
  txq # <<>> /\ Head(txq).nd < Len(Head(txq).dels)

Deleting ==
  txq # <<>> /\ Head(txq).na = Len(Head(txq).adds) /\ Head(txq).nd < Len(Head(txq).dels)
NextDelete == Head(txq).dels[Head(txq).nd + 1].q
Cached(q) == \A t \in Range(q) : termToId[t] # NoId
AdvanceDelete == txq' = [txq EXCEPT ![1].nd = @ + 1]

\* A deletion whose terms are cached: a delete from each index.
DeleteStep ==
  /\ Deleting /\ Cached(NextDelete) /\ Head(txq).live
  /\ work' = Remove(work, [i \in 1..4 |-> termToId[NextDelete[i]]])
  /\ AdvanceDelete
  /\ UNCHANGED <<buffer, flushPromise, calls, disk, cache, isOpen, opCount, committed,
                 lost, faults>>

\* A deletion with an uncached term: getId() reads in a transaction of its own,
\* which waits for this one; this one has no request left and commits itself.
AutoCommit ==
  /\ Deleting /\ ~Cached(NextDelete) /\ Head(txq).live
  /\ disk' = work
  /\ committed' = committed \cup Done(Head(txq))
  /\ txq' = [txq EXCEPT ![1].live = FALSE]
  /\ UNCHANGED <<buffer, flushPromise, calls, work, cache, isOpen, opCount, lost, faults>>

\* ... and getId() answers: a quad with an unknown term is skipped.
SkipDelete ==
  /\ Deleting /\ ~Cached(NextDelete) /\ ~Head(txq).live /\ isOpen
  /\ \E t \in Range(NextDelete) : IsNew(t)
  /\ Remember(disk.terms, {t \in Range(NextDelete) : ~IsNew(t)})
  /\ AdvanceDelete
  /\ UNCHANGED <<buffer, flushPromise, calls, disk, work, isOpen, opCount, committed,
                 lost, faults>>

\* ... or all terms are known, and tx.objectStore() throws: the transaction is
\* finished.  After close() already getId() throws.
DeleteTooLate ==
  /\ Deleting /\ ~Head(txq).live
  /\ \A t \in Range(NextDelete) : isOpen => ~IsNew(t)
  /\ IF isOpen THEN Remember(disk.terms, Range(NextDelete)) ELSE UNCHANGED cache
  /\ JobFails(Head(txq))
  /\ UNCHANGED <<disk, work, isOpen, opCount, committed, faults>>

\* await tx.done.
Commit ==
  /\ txq # <<>> /\ ~Adding /\ ~Deleting
  /\ disk' = work
  /\ committed' = committed \cup Done(Head(txq))
  /\ JobSucceeds(Head(txq))
  /\ UNCHANGED <<work, cache, isOpen, opCount, faults>>

\* External: the browser aborts the running transaction (quota, I/O error).
Abort ==
  /\ aborts < MaxAborts
  /\ txq # <<>> /\ Head(txq).live
  /\ aborts' = aborts + 1
  /\ work' = disk
  /\ JobFails(Head(txq))
  /\ UNCHANGED <<disk, cache, isOpen, opCount, committed, closes, crashes>>
-----------------------------------------------------------------------------
\* A read resolves a term or an id against the committed dictionary (getId,
\* resolveTerm): a read-only transaction, which waits for a running writer.
Lookup(t) ==
  /\ isOpen
  /\ txq # <<>> => ~Head(txq).live
  /\ t \in Range(disk.terms)
  /\ LET id == IdIn(disk.terms, t) IN
     /\ termToId[t] = NoId \/ id \notin DOMAIN idToTerm
     /\ termToId' = [termToId EXCEPT ![t] = id]
     /\ idToTerm' = [i \in DOMAIN idToTerm \cup {id} |-> IF i = id THEN t ELSE idToTerm[i]]
  /\ UNCHANGED <<buffer, flushPromise, txq, calls, disk, work, isOpen, opCount, committed,
                 lost, faults>>

\* close(): stops the timer, does not flush; running transactions still finish.
Close ==
  /\ isOpen
  /\ closes < MaxCloses
  /\ closes' = closes + 1
  /\ isOpen' = FALSE
  /\ UNCHANGED <<buffer, flushPromise, txq, calls, disk, work, cache, opCount, committed,
                 lost, aborts, crashes>>

\* Mutant of NewSession: the dictionary's caches outlive the session.
NewSessionOldCache ==
  /\ pendingAdds' = <<>> /\ pendingDeletes' = <<>>
  /\ flushPromise' = FALSE /\ txq' = <<>>
  /\ calls' = [c \in Calls |-> IdleCall]
  /\ work' = disk
  /\ UNCHANGED cache
  /\ isOpen' = TRUE
  /\ lost' = (1..opCount) \ committed
  /\ UNCHANGED <<disk, opCount, committed, aborts, closes>>

\* open(): a new WriteBuffer and a new TermDictionary over the same database.
NewSession ==
  /\ pendingAdds' = <<>> /\ pendingDeletes' = <<>>
  /\ flushPromise' = FALSE /\ txq' = <<>>
  /\ calls' = [c \in Calls |-> IdleCall]
  /\ work' = disk
  /\ termToId' = [t \in Terms |-> NoId] /\ idToTerm' = [i \in {} |-> i]
  /\ isOpen' = TRUE
  /\ lost' = (1..opCount) \ committed
  /\ UNCHANGED <<disk, opCount, committed, aborts, closes>>

Reopen == ~isOpen /\ txq = <<>> /\ NewSession /\ UNCHANGED crashes

\* The page goes away at any point, its uncommitted transactions with it.
Crash ==
  /\ crashes < MaxCrashes
  /\ crashes' = crashes + 1
  /\ NewSession

JobStep ==
  \/ AddStep \/ AddClashes \/ DeleteStep \/ AutoCommit \/ SkipDelete \/ DeleteTooLate
  \/ Commit

Next ==
  \/ \E q \in Quads : AddQuad(q) \/ DeleteQuad(q)
  \/ \E c \in Calls : Flush(c)
  \/ Tick
  \/ JobStep
  \/ \E t \in Terms : Lookup(t)
  \/ Abort \/ Close \/ Reopen \/ Crash

\* The browser runs what is ready: requests of a transaction complete, and the
\* timer fires every flushIntervalMs.  Callers owe nothing.
Fairness == WF_vars(JobStep) /\ WF_vars(Tick)

SafetySpec == Init /\ [][Next]_vars
Spec == SafetySpec /\ Fairness
-----------------------------------------------------------------------------
(***************************************************************************)
(* Properties                                                              *)
(***************************************************************************)
OpUpTo(n)  == [q : Quads, n : 1..n]
JobUpTo(n) == [owner : Calls, waiters : Seq(Calls), adds : Seq(OpUpTo(n)),
               dels : Seq(OpUpTo(n)), na : Nat, nd : Nat, live : BOOLEAN]
CallUpTo(n) == [st : {"idle", "waiting", "own", "ok", "err"}, upto : 0..n,
                ops : SUBSET (1..n)]
DbOf == [terms : Seq(Terms), idx : [Indexes -> SUBSET [1..4 -> Ids]]]

\* The variables hold values of the shapes the code keeps in its fields.
TypeOK ==
  /\ pendingAdds \in Seq(OpUpTo(opCount)) /\ pendingDeletes \in Seq(OpUpTo(opCount))
  /\ flushPromise \in BOOLEAN
  /\ txq \in Seq(JobUpTo(opCount))
  /\ calls \in [Calls -> CallUpTo(opCount)]
  /\ disk \in DbOf /\ work \in DbOf
  /\ termToId \in [Terms -> Nat]
  /\ DOMAIN idToTerm \subseteq Ids /\ \A i \in DOMAIN idToTerm : idToTerm[i] \in Terms
  /\ isOpen \in BOOLEAN
  /\ opCount \in Nat
  /\ committed \subseteq 1..opCount /\ lost \subseteq 1..opCount
  /\ aborts \in Nat /\ closes \in Nat /\ crashes \in Nat

\* At most one _doFlush() runs at a time, although any number of callers, the
\* timer and the threshold call flush(): a call that finds flushPromise set
\* waits, and of the calls that wake together only one writes.
SingleFlight == Len(txq) <= 1

\* A call that waits is registered with a running job and a call that writes
\* owns one, so no caller of flush() is left hanging.
NoStrandedCall ==
  \A c \in Calls :
    /\ calls[c].st = "waiting" => \E j \in DOMAIN txq : c \in Range(txq[j].waiters)
    /\ calls[c].st = "own" => \E j \in DOMAIN txq : c = txq[j].owner

\* When a flush() returned without an error, nothing queued before it was
\* called is still in the buffer: it was at least handed to a transaction.
NothingLeftBuffered ==
  \A c \in Calls : calls[c].st = "ok" =>
    /\ \A i \in DOMAIN pendingAdds : pendingAdds[i].n > calls[c].upto
    /\ \A i \in DOMAIN pendingDeletes : pendingDeletes[i].n > calls[c].upto

\* The three indexes hold the same quads, whatever fails: they are written in
\* one transaction, so a query may choose any of them.
IndexesAgree ==
  \A x \in Indexes : disk.idx[x] = {Key(x, k) : k \in disk.idx["spo"]}

\* Every queued operation is buffered, in a running batch, committed or given up
\* with an error or a crash, and never two of these: flush() neither drops one
\* nor writes one twice.
InFlight == (UNION {Ops(txq[j].adds) \cup Ops(txq[j].dels) : j \in DOMAIN txq}) \ committed
EveryOpOnce ==
  LET held == Ops(pendingAdds) \cup Ops(pendingDeletes)
  IN  /\ held \cup InFlight \cup committed \cup lost = 1..opCount
      /\ held \cap (InFlight \cup committed \cup lost) = {}
      /\ lost \cap (InFlight \cup committed) = {}

\* Every id in an index has a term record, and every cached id is the id of a
\* record that is committed or written by the running transaction.
DictionaryConsistent ==
  /\ \A k \in disk.idx["spo"] : \A i \in 1..4 : k[i] \in DOMAIN disk.terms
  /\ \A t \in Terms : termToId[t] # NoId =>
       termToId[t] \in DOMAIN work.terms /\ work.terms[termToId[t]] = t
  /\ \A i \in DOMAIN idToTerm : i \in DOMAIN work.terms /\ work.terms[i] = idToTerm[i]

\* The buffered quads reach the abstract quad set batch by batch.
QuadsOf(s) == {s[i].q : i \in DOMAIN s}
Content(db) == {[i \in 1..4 |-> db.terms[k[i]]] : k \in db.idx["spo"]}
Store == INSTANCE QuadStore WITH
  quads <- Content(disk),
  adds  <- QuadsOf(pendingAdds),
  dels  <- QuadsOf(pendingDeletes),
  batch <- {[adds |-> QuadsOf(txq[j].adds), dels |-> QuadsOf(txq[j].dels),
             whole |-> txq[j].live] : j \in DOMAIN txq},
  known <- {q \in Quads : Cached(q)},
  open  <- isOpen

\* Queries see exactly what the abstract quad set holds: ids, indexes, caches,
\* concurrent flushes and crashes do not show.
ImplementsQuadStore == Store!Spec

\* Whatever is queued is committed in the end without anybody calling flush(),
\* unless it is lost with a crash or a failed batch, or the store was closed.
EventuallySettled ==
  \A n \in 1..MaxOps : (opCount >= n) ~> (n \in committed \cup lost \/ ~isOpen)

\* Every flush() returns.
FlushReturns ==
  \A c \in Calls : (calls[c].st \in {"waiting", "own"}) ~> Free(c)

\* flush()'s doc (IndexedDBDataset.ts:395-396): "Awaiting this guarantees that
\* all previously add()ed quads are persisted."
FlushPersists ==
  \A c \in Calls : calls[c].st = "ok" => 1..calls[c].upto \subseteq committed \cup lost

\* resolveTerm()'s doc (TermDictionary.ts:133): an unknown id "should never happen
\* if the DB is consistent", and flush()'s (WriteBuffer.ts:90-91): "dictionary
\* entries and index entries are always written atomically".
IndexedIdsHaveTerms ==
  \A k \in disk.idx["spo"] : \A i \in 1..4 : k[i] \in DOMAIN disk.terms
==============================================================================
