--------------------------- MODULE HexastoreProofs ---------------------------
(***************************************************************************)
(* Proofs about the write path of the IndexedDB quad store, for any set of *)
(* terms, quads and callers and any bounds.                                *)
(***************************************************************************)
EXTENDS Hexastore, TLAPS

\* A larger number of operations only enlarges the types.
LEMMA TypesGrow ==
  ASSUME NEW m \in Nat, NEW n \in Nat, m <= n
  PROVE  /\ Seq(OpUpTo(m)) \subseteq Seq(OpUpTo(n))
         /\ Seq(JobUpTo(m)) \subseteq Seq(JobUpTo(n))
         /\ [Calls -> CallUpTo(m)] \subseteq [Calls -> CallUpTo(n)]
<1>1. 1..m \subseteq 1..n /\ 0..m \subseteq 0..n
  OBVIOUS
<1>2. OpUpTo(m) \subseteq OpUpTo(n)
  BY <1>1 DEF OpUpTo
<1>3. Seq(OpUpTo(m)) \subseteq Seq(OpUpTo(n))
  BY <1>2
<1>4. JobUpTo(m) \subseteq JobUpTo(n)
  BY <1>3 DEF JobUpTo
<1>5. CallUpTo(m) \subseteq CallUpTo(n)
  BY <1>1 DEF CallUpTo
<1> QED
  BY <1>3, <1>4, <1>5

\* Replacing one entry of a sequence keeps its elements' set and its length.
LEMMA ReplaceAt ==
  ASSUME NEW S, NEW s \in Seq(S), NEW i \in 1..Len(s), NEW e \in S
  PROVE  [s EXCEPT ![i] = e] \in Seq(S) /\ Len([s EXCEPT ![i] = e]) = Len(s)
OBVIOUS

\* A concatenation holds what its two parts hold.
LEMMA RangeOfConcat ==
  ASSUME NEW S, NEW s \in Seq(S), NEW u \in Seq(S)
  PROVE  s \o u \in Seq(S) /\ Range(s \o u) = Range(s) \cup Range(u)
<1>1. /\ s \o u \in Seq(S)
      /\ DOMAIN (s \o u) = 1..(Len(s) + Len(u))
      /\ DOMAIN s = 1..Len(s) /\ DOMAIN u = 1..Len(u)
      /\ Len(s) \in Nat /\ Len(u) \in Nat
  OBVIOUS
<1>2. \A i \in DOMAIN s : i \in DOMAIN (s \o u) /\ (s \o u)[i] = s[i]
  BY <1>1
<1>3. \A i \in DOMAIN u : Len(s) + i \in DOMAIN (s \o u) /\ (s \o u)[Len(s) + i] = u[i]
  BY <1>1
<1>4. ASSUME NEW i \in DOMAIN (s \o u)
      PROVE  (s \o u)[i] \in Range(s) \cup Range(u)
  <2>1. CASE i \in DOMAIN s
    BY <1>2, <2>1 DEF Range
  <2>2. CASE i \notin DOMAIN s
    <3>1. i - Len(s) \in DOMAIN u /\ i = Len(s) + (i - Len(s))
      BY <1>1, <2>2
    <3>2. (s \o u)[i] = u[i - Len(s)]
      BY <1>1, <2>2, <3>1
    <3> QED
      BY <3>1, <3>2 DEF Range
  <2> QED
    BY <2>1, <2>2
<1>5. Range(s \o u) \subseteq Range(s) \cup Range(u)
  BY <1>4 DEF Range
<1>6. Range(s) \subseteq Range(s \o u)
  BY <1>2 DEF Range
<1>7. Range(u) \subseteq Range(s \o u)
  <2> SUFFICES ASSUME NEW i \in DOMAIN u PROVE u[i] \in Range(s \o u)
    BY DEF Range
  <2> QED
    BY <1>3 DEF Range
<1> QED
  BY <1>1, <1>5, <1>6, <1>7

\* The variables a flush() call may touch, with n operations queued.
FlowType(n) ==
  /\ pendingAdds \in Seq(OpUpTo(n)) /\ pendingDeletes \in Seq(OpUpTo(n))
  /\ flushPromise \in BOOLEAN
  /\ txq \in Seq(JobUpTo(n))
  /\ calls \in [Calls -> CallUpTo(n)]
  /\ lost \subseteq 1..n

\* The numbers of queued operations are numbers already given out.
LEMMA OpsType ==
  ASSUME NEW n \in Nat, NEW s \in Seq(OpUpTo(n))
  PROVE  Ops(s) \subseteq 1..n
<1>1. \A i \in DOMAIN s : s[i] \in OpUpTo(n)
  OBVIOUS
<1> QED
  BY <1>1 DEF Ops, OpUpTo

\* _doFlush() starts with the two arrays that flush() spliced out.
LEMMA JobType ==
  ASSUME NEW n \in Nat, NEW c \in Calls,
         NEW adds \in Seq(OpUpTo(n)), NEW dels \in Seq(OpUpTo(n))
  PROVE  Job(c, adds, dels) \in JobUpTo(n)
BY DEF Job, JobUpTo

\* flush() after its wait: splicing the buffers keeps every variable's shape.
LEMMA SpliceType ==
  ASSUME NEW n \in Nat, NEW c \in Calls,
         NEW adds \in Seq(OpUpTo(n)), NEW dels \in Seq(OpUpTo(n)),
         NEW q \in Seq(JobUpTo(n)), NEW called \in [Calls -> CallUpTo(n)],
         lost \subseteq 1..n,
         SpliceAndWrite(c, called, q, adds, dels)
  PROVE  FlowType(n)'
<1>1. Ops(adds) \subseteq 1..n /\ Ops(dels) \subseteq 1..n
  BY OpsType
<1>2. CASE ReturnEmpty(c, called, q, adds, dels)
  <2>1. [called EXCEPT ![c].st = "ok"] \in [Calls -> CallUpTo(n)]
    BY DEF CallUpTo
  <2> QED
    BY <1>2, <2>1 DEF ReturnEmpty, FlowType
<1>3. CASE BeginJob(c, called, q, adds, dels)
  <2>1. [called EXCEPT ![c].st = "own", ![c].ops = Ops(adds) \cup Ops(dels)]
          \in [Calls -> CallUpTo(n)]
    BY <1>1 DEF CallUpTo
  <2>2. Append(q, Job(c, adds, dels)) \in Seq(JobUpTo(n))
    BY JobType
  <2> QED
    BY <1>3, <2>1, <2>2 DEF BeginJob, FlowType
<1>4. CASE BeginFails(c, called, q, adds, dels)
  <2>1. [called EXCEPT ![c].st = "err", ![c].ops = Ops(adds) \cup Ops(dels)]
          \in [Calls -> CallUpTo(n)]
    BY <1>1 DEF CallUpTo
  <2>2. lost' \subseteq 1..n
    BY <1>1, <1>4 DEF BeginFails
  <2>3. <<>> \in Seq(OpUpTo(n))
    OBVIOUS
  <2> QED
    BY <1>4, <2>1, <2>2, <2>3 DEF BeginFails, FlowType
<1> QED
  BY <1>2, <1>3, <1>4 DEF SpliceAndWrite

\* flush() from its first line: it waits, or splices, and keeps every shape.
LEMMA StartFlushType ==
  ASSUME NEW n \in Nat, NEW m \in 0..n, FlowType(n), NEW c \in Calls,
         NEW adds \in Seq(OpUpTo(n)), NEW dels \in Seq(OpUpTo(n)),
         txq # <<>> \/ ~flushPromise,
         StartFlush(c, adds, dels, m)
  PROVE  FlowType(n)'
<1>1. CASE AwaitRunning(c, adds, dels, m)
  <2>0. txq \in Seq(JobUpTo(n)) /\ txq # <<>>
    BY <1>1 DEF AwaitRunning, FlowType
  <2>1. Len(txq) \in 1..Len(txq) /\ txq[Len(txq)] \in JobUpTo(n)
    BY <2>0
  <2>2. [txq[Len(txq)] EXCEPT !.waiters = Append(@, c)] \in JobUpTo(n)
    <3>1. Append(txq[Len(txq)].waiters, c) \in Seq(Calls)
      BY <2>1 DEF JobUpTo
    <3>2. \A j \in JobUpTo(n) : \A w \in Seq(Calls) :
            [j EXCEPT !.waiters = w] \in JobUpTo(n)
      BY DEF JobUpTo
    <3> QED
      BY <2>1, <3>1, <3>2
  <2>3. txq' = [txq EXCEPT ![Len(txq)] = [txq[Len(txq)] EXCEPT !.waiters = Append(@, c)]]
    BY <1>1 DEF AwaitRunning
  <2>5. txq' \in Seq(JobUpTo(n))
    BY <2>0, <2>1, <2>2, <2>3, ReplaceAt
  <2>4. [st |-> "waiting", upto |-> m, ops |-> {}] \in CallUpTo(n)
    BY DEF CallUpTo
  <2> QED
    BY <1>1, <2>4, <2>5 DEF AwaitRunning, FlowType
<1>2. CASE SpliceAndWrite(c, [calls EXCEPT ![c] = [IdleCall EXCEPT !.upto = m]],
                          txq, adds, dels)
  <2>1. [IdleCall EXCEPT !.upto = m] \in CallUpTo(n)
    BY DEF CallUpTo, IdleCall
  <2>2. [calls EXCEPT ![c] = [IdleCall EXCEPT !.upto = m]] \in [Calls -> CallUpTo(n)]
    BY <2>1 DEF FlowType
  <2> QED
    BY <1>2, <2>2, SpliceType DEF FlowType
<1> QED
  BY <1>1, <1>2 DEF StartFlush
-----------------------------------------------------------------------------
(* The dictionary.                                                         *)

\* The id of a record is its position.
LEMMA IdOfRecord ==
  ASSUME NEW ts \in Seq(Terms), NEW t \in Range(ts)
  PROVE  IdIn(ts, t) \in DOMAIN ts /\ ts[IdIn(ts, t)] = t /\ IdIn(ts, t) \in Ids
<1>1. \E i \in DOMAIN ts : ts[i] = t
  BY DEF Range
<1>2. IdIn(ts, t) \in DOMAIN ts /\ ts[IdIn(ts, t)] = t
  BY <1>1 DEF IdIn
<1> QED
  BY <1>2 DEF Ids, NoId

DictType ==
  /\ disk \in DbOf /\ work \in DbOf
  /\ termToId \in [Terms -> Nat]
  /\ DOMAIN idToTerm \subseteq Ids /\ \A i \in DOMAIN idToTerm : idToTerm[i] \in Terms

\* getOrCreateId leaves a record for every term of the quad that had no id.
LEMMA InternType ==
  ASSUME DictType, NEW q \in [1..4 -> Terms]
  PROVE  /\ InternQuad(q) \in Seq(Terms)
         /\ Range(work.terms) \subseteq Range(InternQuad(q))
         /\ \A t \in Range(q) : IsNew(t) => t \in Range(InternQuad(q))
<1> DEFINE n1 == NewAt(q, 1)
           n2 == NewAt(q, 2)
           n3 == NewAt(q, 3)
           n4 == NewAt(q, 4)
<1>1. work.terms \in Seq(Terms)
  BY DEF DictType, DbOf
<1>2. \A i \in 1..4 : NewAt(q, i) \in Seq(Terms)
  BY DEF NewAt
<1>3. /\ n1 \in Seq(Terms) /\ n2 \in Seq(Terms) /\ n3 \in Seq(Terms) /\ n4 \in Seq(Terms)
  BY <1>2
<1> HIDE DEF n1, n2, n3, n4
<1> DEFINE w1 == work.terms \o n1
           w2 == w1 \o n2
           w3 == w2 \o n3
           w4 == w3 \o n4
<1>4. w1 \in Seq(Terms) /\ Range(w1) = Range(work.terms) \cup Range(n1)
  BY <1>1, <1>3, RangeOfConcat
<1> HIDE DEF w1
<1>5. w2 \in Seq(Terms) /\ Range(w2) = Range(w1) \cup Range(n2)
  BY <1>3, <1>4, RangeOfConcat
<1> HIDE DEF w2
<1>6. w3 \in Seq(Terms) /\ Range(w3) = Range(w2) \cup Range(n3)
  BY <1>3, <1>5, RangeOfConcat
<1> HIDE DEF w3
<1>7. w4 \in Seq(Terms) /\ Range(w4) = Range(w3) \cup Range(n4)
  BY <1>3, <1>6, RangeOfConcat
<1> HIDE DEF w4
<1>8. InternQuad(q) = w4
  BY DEF InternQuad, n1, n2, n3, n4, w1, w2, w3, w4
<1>9. ASSUME NEW i \in 1..4, IsNew(q[i]), \A k \in 1..(i - 1) : q[k] # q[i]
      PROVE  q[i] \in Range(NewAt(q, i))
  <2>1. NewAt(q, i) = <<q[i]>>
    BY <1>9 DEF NewAt
  <2>2. 1 \in DOMAIN <<q[i]>> /\ <<q[i]>>[1] = q[i]
    OBVIOUS
  <2> QED
    BY <2>1, <2>2 DEF Range
<1>10. ASSUME NEW i \in 1..4, IsNew(q[i])
       PROVE  q[i] \in Range(n1) \cup Range(n2) \cup Range(n3) \cup Range(n4)
  <2>1. q[1] = q[i] => q[i] \in Range(n1)
    BY <1>9, <1>10 DEF n1
  <2>2. q[1] # q[i] /\ q[2] = q[i] => q[i] \in Range(n2)
    BY <1>9, <1>10 DEF n2
  <2>3. q[1] # q[i] /\ q[2] # q[i] /\ q[3] = q[i] => q[i] \in Range(n3)
    BY <1>9, <1>10 DEF n3
  <2>4. q[1] # q[i] /\ q[2] # q[i] /\ q[3] # q[i] /\ q[4] = q[i] => q[i] \in Range(n4)
    BY <1>9, <1>10 DEF n4
  <2> QED
    BY <2>1, <2>2, <2>3, <2>4
<1> QED
  <2>1. Range(w4) = Range(work.terms) \cup Range(n1) \cup Range(n2) \cup Range(n3) \cup Range(n4)
    BY <1>4, <1>5, <1>6, <1>7
  <2>2. ASSUME NEW t \in Range(q), IsNew(t) PROVE t \in Range(w4)
    BY <1>10, <2>1, <2>2 DEF Range
  <2> QED
    BY <1>7, <1>8, <2>1, <2>2

\* Caching the ids of terms that have a record keeps the dictionaries' shape.
LEMMA RememberType ==
  ASSUME DictType, NEW ts \in Seq(Terms), NEW S \in SUBSET Terms,
         \A t \in S : termToId[t] = NoId => t \in Range(ts),
         Remember(ts, S)
  PROVE  /\ termToId' \in [Terms -> Nat]
         /\ DOMAIN idToTerm' \subseteq Ids
         /\ \A i \in DOMAIN idToTerm' : idToTerm'[i] \in Terms
<1> DEFINE fresh == {t \in S : termToId[t] = NoId}
           ids   == {IdIn(ts, t) : t \in fresh}
<1>1. \A t \in fresh : IdIn(ts, t) \in DOMAIN ts /\ IdIn(ts, t) \in Ids
  BY IdOfRecord
<1>2. termToId' \in [Terms -> Nat]
  BY <1>1 DEF Remember, DictType, Ids
<1>3. ids \subseteq Ids /\ ids \subseteq DOMAIN ts
  BY <1>1
<1>4. idToTerm' = [i \in DOMAIN idToTerm \cup ids |-> IF i \in ids THEN ts[i] ELSE idToTerm[i]]
  BY DEF Remember
<1>5. \A i \in ids : ts[i] \in Terms
  BY <1>3
<1> HIDE DEF ids
<1> QED
  BY <1>2, <1>3, <1>4, <1>5 DEF DictType
-----------------------------------------------------------------------------
(* How a job ends.                                                         *)

\* The calls of a finished job are again calls.
LEMMA ReturnedType ==
  ASSUME NEW n \in Nat, calls \in [Calls -> CallUpTo(n)], NEW h,
         NEW how \in {"ok", "err"}
  PROVE  Returned(h, how) \in [Calls -> CallUpTo(n)]
<1>1. \A k \in CallUpTo(n) : [k EXCEPT !.st = how] \in CallUpTo(n)
  BY DEF CallUpTo
<1> QED
  BY <1>1 DEF Returned

\* The first and the other elements of a sequence that is not empty.
LEMMA TailType ==
  ASSUME NEW S, NEW s \in Seq(S), s # <<>>
  PROVE  /\ Head(s) \in S /\ Tail(s) \in Seq(S) /\ Len(Tail(s)) = Len(s) - 1
         /\ Len(s) \in Nat \ {0} /\ s[1] = Head(s)
OBVIOUS

\* A sequence of length 0 is empty.
LEMMA EmptyWhenNoLength ==
  ASSUME NEW S, NEW s \in Seq(S), Len(s) = 0
  PROVE  s = <<>>
OBVIOUS

\* A rejected flush promise keeps every shape.
LEMMA JobFailsType ==
  ASSUME NEW n \in Nat, FlowType(n), txq # <<>>, JobFails(Head(txq))
  PROVE  FlowType(n)'
<1>1. Head(txq) \in JobUpTo(n) /\ Tail(txq) \in Seq(JobUpTo(n))
  BY TailType DEF FlowType
<1>2. Ops(Head(txq).adds) \subseteq 1..n /\ Ops(Head(txq).dels) \subseteq 1..n
  BY <1>1, OpsType DEF JobUpTo
<1>3. Returned(Head(txq), "err") \in [Calls -> CallUpTo(n)]
  BY ReturnedType DEF FlowType
<1>4. lost' \subseteq 1..n
  BY <1>2 DEF JobFails, FlowType
<1> QED
  BY <1>1, <1>3, <1>4 DEF JobFails, ResumeNone, FlowType, buffer

\* A fulfilled flush promise keeps every shape, whether or not a waiting call writes.
LEMMA JobSucceedsType ==
  ASSUME NEW n \in Nat, FlowType(n), txq # <<>>, JobSucceeds(Head(txq))
  PROVE  FlowType(n)'
<1>1. Head(txq) \in JobUpTo(n) /\ Tail(txq) \in Seq(JobUpTo(n))
  BY TailType DEF FlowType
<1>2. Returned(Head(txq), "ok") \in [Calls -> CallUpTo(n)]
  BY ReturnedType DEF FlowType
<1>3. CASE ResumeNone(Head(txq), "ok") /\ UNCHANGED lost
  BY <1>1, <1>2, <1>3 DEF ResumeNone, FlowType, buffer
<1>4. CASE /\ Head(txq).waiters # <<>>
           /\ SpliceAndWrite(Head(Head(txq).waiters), Returned(Head(txq), "ok"), Tail(txq),
                             pendingAdds, pendingDeletes)
  <2>1. Head(Head(txq).waiters) \in Calls
    BY <1>1, <1>4 DEF JobUpTo
  <2> QED
    BY <1>1, <1>2, <1>4, <2>1, SpliceType DEF FlowType
<1> QED
  BY <1>3, <1>4 DEF JobSucceeds
-----------------------------------------------------------------------------
(***************************************************************************)
(* The inductive invariant behind the type invariant and SingleFlight:     *)
(* flushPromise is set exactly while a job exists, and there is one job.   *)
(***************************************************************************)
FlushInv ==
  /\ Len(txq) <= 1
  /\ flushPromise <=> txq # <<>>
FlowInv == TypeOK /\ FlushInv

\* The type invariant, by the groups of variables an action touches.
LEMMA TypeParts == TypeOK <=>
  /\ opCount \in Nat
  /\ FlowType(opCount)
  /\ DictType
  /\ isOpen \in BOOLEAN
  /\ committed \subseteq 1..opCount
  /\ aborts \in Nat /\ closes \in Nat /\ crashes \in Nat
BY DEF TypeOK, FlowType, DictType

\* With no job left, a call that splices leaves at most its own job, with the
\* promise set exactly when there is one.
LEMMA SpliceFlush ==
  ASSUME NEW c, NEW called, NEW adds, NEW dels,
         SpliceAndWrite(c, called, <<>>, adds, dels)
  PROVE  FlushInv'
<1>1. CASE ReturnEmpty(c, called, <<>>, adds, dels)
  BY <1>1 DEF ReturnEmpty, FlushInv
<1>2. CASE BeginJob(c, called, <<>>, adds, dels)
  <2>1. txq' = <<Job(c, adds, dels)>>
    BY <1>2 DEF BeginJob
  <2> QED
    BY <1>2, <2>1 DEF BeginJob, FlushInv
<1>3. CASE BeginFails(c, called, <<>>, adds, dels)
  BY <1>3 DEF BeginFails, FlushInv
<1> QED
  BY <1>1, <1>2, <1>3 DEF SpliceAndWrite

\* A new flush() call never starts a second job: with the promise set it waits.
LEMMA StartFlushInv ==
  ASSUME NEW n \in Nat, FlowType(n), FlushInv, NEW c, NEW adds, NEW dels, NEW m,
         StartFlush(c, adds, dels, m)
  PROVE  FlushInv'
<1>1. CASE AwaitRunning(c, adds, dels, m)
  <2>1. txq \in Seq(JobUpTo(n)) /\ txq # <<>>
    BY <1>1 DEF AwaitRunning, FlowType, FlushInv
  <2>2. Len(txq') = Len(txq) /\ txq' # <<>>
    BY <1>1, <2>1 DEF AwaitRunning
  <2> QED
    BY <1>1, <2>2 DEF AwaitRunning, FlushInv
<1>2. CASE ~flushPromise /\ SpliceAndWrite(c, [calls EXCEPT ![c] = [IdleCall EXCEPT !.upto = m]],
                                           txq, adds, dels)
  <2>1. txq = <<>>
    BY <1>2 DEF FlushInv
  <2> QED
    BY <1>2, <2>1, SpliceFlush
<1> QED
  BY <1>1, <1>2 DEF StartFlush

\* With one job, nothing waits behind the one that ends.
LEMMA LastJob ==
  ASSUME NEW n \in Nat, FlowType(n), FlushInv, txq # <<>>
  PROVE  /\ Tail(txq) = <<>> /\ Head(txq) = txq[1] /\ Head(txq) \in JobUpTo(n)
         /\ DOMAIN txq = {1} /\ Len(txq) = 1
<1>1. txq \in Seq(JobUpTo(n))
  BY DEF FlowType
<1>2. /\ Head(txq) \in JobUpTo(n) /\ Tail(txq) \in Seq(JobUpTo(n))
      /\ Len(Tail(txq)) = Len(txq) - 1 /\ Len(txq) \in Nat \ {0} /\ txq[1] = Head(txq)
  BY <1>1, TailType
<1>3. Len(txq) = 1
  BY <1>2 DEF FlushInv
<1>4. Tail(txq) = <<>>
  <2>1. Len(Tail(txq)) = 0
    BY <1>2, <1>3
  <2> QED
    BY <1>2, <2>1, EmptyWhenNoLength
<1>5. DOMAIN txq = {1}
  <2>1. DOMAIN txq = 1..Len(txq)
    BY <1>1
  <2>2. 1..1 = {1}
    OBVIOUS
  <2> QED
    BY <1>3, <2>1, <2>2
<1> QED
  BY <1>2, <1>3, <1>4, <1>5

\* When a job ends, .finally() has cleared the promise before a waiting call
\* looks at it, so again at most one job runs.
LEMMA JobEndsInv ==
  ASSUME NEW n \in Nat, FlowType(n), FlushInv, txq # <<>>,
         JobFails(Head(txq)) \/ JobSucceeds(Head(txq))
  PROVE  FlushInv'
<1>1. Tail(txq) = <<>>
  BY LastJob
<1>2. CASE txq' = Tail(txq) /\ flushPromise' = FALSE
  BY <1>1, <1>2 DEF FlushInv
<1>3. ASSUME SpliceAndWrite(Head(Head(txq).waiters), Returned(Head(txq), "ok"), Tail(txq),
                            pendingAdds, pendingDeletes)
      PROVE  FlushInv'
  BY <1>1, <1>3, SpliceFlush
<1> QED
  BY <1>2, <1>3 DEF JobFails, JobSucceeds, ResumeNone

\* A step of the job that only advances a counter of the job.
LEMMA AdvanceType ==
  ASSUME NEW n \in Nat, FlowType(n), FlushInv, txq # <<>>,
         UNCHANGED <<buffer, flushPromise, calls, lost>>,
         NEW j \in JobUpTo(n), txq' = [txq EXCEPT ![1] = j]
  PROVE  FlowType(n)' /\ FlushInv'
<1>1. txq \in Seq(JobUpTo(n)) /\ 1 \in 1..Len(txq)
  BY DEF FlowType
<1>2. txq' \in Seq(JobUpTo(n)) /\ Len(txq') = Len(txq) /\ txq' # <<>>
  BY <1>1, ReplaceAt
<1> QED
  BY <1>2 DEF FlowType, FlushInv, buffer
-----------------------------------------------------------------------------
(* Every action preserves FlowInv.                                            *)

\* Queueing an operation, and the flush at the threshold, preserve FlowInv.
LEMMA PushPreserves ==
  ASSUME FlowInv, NEW adds \in Seq(OpUpTo(opCount + 1)), NEW dels \in Seq(OpUpTo(opCount + 1)),
         PushThenFlush(adds, dels)
  PROVE  FlowInv'
<1>0. opCount \in Nat
  BY DEF FlowInv, TypeOK
<1> PICK n \in Nat : n = opCount + 1
  BY <1>0
<1>1. opCount \in Nat /\ n \in Nat /\ opCount <= n /\ n \in 0..n
  BY <1>0
<1>2. 1..opCount \subseteq 1..n
  BY <1>1
<1>3. FlowType(n)
  BY <1>1, <1>2, TypesGrow, TypeParts DEF FlowInv, FlowType
<1>4. FlushInv /\ (txq # <<>> \/ ~flushPromise)
  BY DEF FlowInv, FlushInv
<1>5. opCount' = n /\ UNCHANGED <<disk, work, cache, isOpen, committed, faults>>
  BY DEF PushThenFlush
<1>6. FlowType(n)' /\ FlushInv'
  <2>1. CASE /\ pendingAdds' = adds /\ pendingDeletes' = dels
             /\ UNCHANGED <<flushPromise, txq, calls, lost>>
    BY <1>3, <1>4, <2>1 DEF FlowType, FlushInv
  <2>2. ASSUME NEW c \in Calls, StartFlush(c, adds, dels, n)
        PROVE  FlowType(n)' /\ FlushInv'
    BY <1>1, <1>3, <1>4, <2>2, StartFlushType, StartFlushInv
  <2> QED
    BY <2>1, <2>2 DEF PushThenFlush
<1>7. FlowType(opCount)'
  BY <1>5, <1>6 DEF FlowType
<1>8. committed' \subseteq 1..opCount' /\ opCount' \in Nat
  BY <1>1, <1>2, <1>5, TypeParts DEF FlowInv
<1>9. DictType' /\ isOpen' \in BOOLEAN /\ aborts' \in Nat /\ closes' \in Nat /\ crashes' \in Nat
  BY <1>5, TypeParts DEF FlowInv, DictType, cache, faults
<1> QED
  BY <1>6, <1>7, <1>8, <1>9 DEF FlowInv, TypeOK, FlowType, DictType

\* addQuad() and deleteQuad() preserve FlowInv.
LEMMA AddQuadPreserves ==
  ASSUME FlowInv, NEW q \in Quads, AddQuad(q) \/ DeleteQuad(q)
  PROVE  FlowInv'
<1> DEFINE op == [q |-> q, n |-> opCount + 1]
<1>1. opCount \in Nat
  BY DEF FlowInv, TypeOK
<1>2. op \in OpUpTo(opCount + 1)
  BY <1>1 DEF OpUpTo
<1>3. pendingAdds \in Seq(OpUpTo(opCount + 1)) /\ pendingDeletes \in Seq(OpUpTo(opCount + 1))
  <2>1. Seq(OpUpTo(opCount)) \subseteq Seq(OpUpTo(opCount + 1))
    BY <1>1, TypesGrow
  <2> QED
    BY <2>1 DEF FlowInv, TypeOK
<1>4. /\ Append(pendingAdds, op) \in Seq(OpUpTo(opCount + 1))
      /\ Append(pendingDeletes, op) \in Seq(OpUpTo(opCount + 1))
  BY <1>2, <1>3
<1> QED
  BY <1>3, <1>4, PushPreserves DEF AddQuad, DeleteQuad

\* A call of flush() preserves FlowInv.
LEMMA FlushPreserves ==
  ASSUME FlowInv, NEW c \in Calls, Flush(c)
  PROVE  FlowInv'
<1>1. opCount \in Nat /\ FlowType(opCount) /\ FlushInv
  BY TypeParts DEF FlowInv
<1>2. StartFlush(c, pendingAdds, pendingDeletes, opCount)
  BY DEF Flush
<1>3. /\ pendingAdds \in Seq(OpUpTo(opCount)) /\ pendingDeletes \in Seq(OpUpTo(opCount))
      /\ opCount \in 0..opCount /\ (txq # <<>> \/ ~flushPromise)
  BY <1>1 DEF FlowType, FlushInv
<1>4. UNCHANGED <<opCount, disk, work, cache, isOpen, committed, faults>>
  BY DEF Flush
<1>5. \A m \in Nat : m = opCount => FlowType(m)' /\ FlushInv'
  BY <1>1, <1>2, <1>3, StartFlushType, StartFlushInv
<1>6. FlowType(opCount)' /\ FlushInv'
  BY <1>1, <1>4, <1>5 DEF FlowType
<1> QED
  BY <1>4, <1>6, TypeParts DEF FlowInv, TypeOK, FlowType, DictType, cache, faults

\* What FlowInv' needs of a step that queues nothing.
LEMMA Assemble ==
  ASSUME FlowInv, opCount' = opCount,
         \A n \in Nat : n = opCount => FlowType(n)', FlushInv', DictType',
         isOpen' \in BOOLEAN, committed' \subseteq 1..opCount,
         aborts' \in Nat, closes' \in Nat, crashes' \in Nat
  PROVE  FlowInv'
<1>1. opCount \in Nat
  BY DEF FlowInv, TypeOK
<1>2. FlowType(opCount)'
  BY <1>1 DEF FlowType
<1> QED
  BY <1>1, <1>2 DEF FlowInv, TypeOK, FlowType, DictType

\* A step of the running job that only advances one of its counters.
LEMMA AdvancePreserves ==
  ASSUME FlowInv, txq # <<>>, NEW j \in JobUpTo(opCount), txq' = [txq EXCEPT ![1] = j],
         UNCHANGED <<buffer, flushPromise, calls, lost, opCount, isOpen, faults>>,
         committed' \subseteq 1..opCount, DictType'
  PROVE  FlowInv'
<1>1. \A n \in Nat : n = opCount => FlowType(n)' /\ FlushInv'
  BY AdvanceType, TypeParts DEF FlowInv
<1> QED
  BY <1>1, Assemble, TypeParts DEF FlowInv, faults

\* A step that ends the running job.
LEMMA EndPreserves ==
  ASSUME FlowInv, txq # <<>>, JobFails(Head(txq)) \/ JobSucceeds(Head(txq)),
         UNCHANGED <<opCount, isOpen, closes, crashes>>, aborts' \in Nat,
         committed' \subseteq 1..opCount, DictType'
  PROVE  FlowInv'
<1>1. \A n \in Nat : n = opCount => FlowType(n)' /\ FlushInv'
  BY JobFailsType, JobSucceedsType, JobEndsInv, TypeParts DEF FlowInv
<1> QED
  BY <1>1, Assemble, TypeParts DEF FlowInv

\* The operations of a job that are done are operations that were queued.
LEMMA DoneType ==
  ASSUME NEW n \in Nat, NEW h \in JobUpTo(n)
  PROVE  Done(h) \subseteq 1..n
<1>1. h.adds \in Seq(OpUpTo(n)) /\ h.dels \in Seq(OpUpTo(n)) /\ h.na \in Nat /\ h.nd \in Nat
  BY DEF JobUpTo
<1>2. ASSUME NEW s \in Seq(OpUpTo(n)), NEW i \in DOMAIN s
      PROVE  s[i].n \in 1..n
  <2>1. s[i] \in OpUpTo(n)
    OBVIOUS
  <2> QED
    BY <2>1 DEF OpUpTo
<1> QED
  BY <1>1, <1>2 DEF Done, OpsUpTo

\* A key of any index is a permutation of the four ids.
LEMMA KeyType ==
  ASSUME NEW x \in Indexes, NEW ids \in [1..4 -> Ids]
  PROVE  Key(x, ids) \in [1..4 -> Ids]
<1>1. \A i \in 1..4 : Permutation[x][i] \in 1..4
  BY DEF Indexes, Permutation
<1> QED
  BY <1>1 DEF Key

\* Puts and deletes of index keys keep the database's shape.
LEMMA PutType ==
  ASSUME NEW db \in DbOf, NEW ids \in [1..4 -> Ids]
  PROVE  Put(db, ids) \in DbOf /\ Remove(db, ids) \in DbOf
<1>1. \A x \in Indexes : /\ db.idx[x] \cup {Key(x, ids)} \in SUBSET [1..4 -> Ids]
                         /\ db.idx[x] \ {Key(x, ids)} \in SUBSET [1..4 -> Ids]
  BY KeyType DEF DbOf
<1> QED
  BY <1>1 DEF Put, Remove, DbOf
-----------------------------------------------------------------------------
(* The steps of the running job.                                           *)

\* The head of the queue, and the quad it works on.
LEMMA HeadType ==
  ASSUME FlowInv, txq # <<>>
  PROVE  /\ Head(txq) \in JobUpTo(opCount) /\ txq[1] = Head(txq)
         /\ txq \in Seq(JobUpTo(opCount)) /\ 1 \in 1..Len(txq)
         /\ opCount \in Nat /\ DictType
<1>1. opCount \in Nat /\ FlowType(opCount) /\ DictType /\ FlushInv
  BY TypeParts DEF FlowInv
<1> QED
  BY <1>1, TailType DEF FlowType

\* The quad an addition of a running job is about.
LEMMA NextQuad ==
  ASSUME NEW n \in Nat, NEW s \in Seq(OpUpTo(n)), NEW k \in Nat, k < Len(s)
  PROVE  s[k + 1].q \in Quads /\ s[k + 1].q \in [1..4 -> Terms]
<1>1. s[k + 1] \in OpUpTo(n)
  OBVIOUS
<1> QED
  BY <1>1, QuadsAssumption DEF OpUpTo

\* A job that has carried out one more operation is a job.
LEMMA Advanced ==
  ASSUME NEW n, NEW j \in JobUpTo(n), NEW k \in Nat
  PROVE  /\ [j EXCEPT !.na = k] \in JobUpTo(n) /\ [j EXCEPT !.nd = k] \in JobUpTo(n)
         /\ [j EXCEPT !.live = FALSE] \in JobUpTo(n)
BY DEF JobUpTo

\* An addition preserves FlowInv: the ids it hands out are positions of records.
LEMMA AddStepPreserves ==
  ASSUME FlowInv, AddStep
  PROVE  FlowInv'
<1> DEFINE h == Head(txq)
           q == h.adds[h.na + 1].q
           ts == InternQuad(q)
           ids == [i \in 1..4 |-> IF termToId[q[i]] # NoId THEN termToId[q[i]]
                                  ELSE IdIn(ts, q[i])]
<1>1. txq # <<>> /\ h.na < Len(h.adds)
  BY DEF AddStep
<1>2. /\ h \in JobUpTo(opCount) /\ txq[1] = h /\ opCount \in Nat /\ DictType
      /\ txq \in Seq(JobUpTo(opCount)) /\ 1 \in 1..Len(txq)
  BY <1>1, HeadType
<1>3. h.na \in Nat /\ h.adds \in Seq(OpUpTo(opCount))
  BY <1>2 DEF JobUpTo
<1>4. q \in [1..4 -> Terms]
  BY <1>1, <1>2, <1>3, NextQuad
<1>5. /\ ts \in Seq(Terms) /\ Range(work.terms) \subseteq Range(ts)
      /\ \A t \in Range(q) : IsNew(t) => t \in Range(ts)
  BY <1>2, <1>4, InternType
<1>6. \A t \in Range(q) : termToId[t] = NoId => t \in Range(ts)
  BY <1>5 DEF IsNew
<1>7. Range(q) \subseteq Terms
  BY <1>4 DEF Range
<1>8. /\ Remember(ts, Range(q))
      /\ work' = Put([work EXCEPT !.terms = ts], ids)
  BY DEF AddStep
<1>9. ids \in [1..4 -> Ids]
  <2> SUFFICES ASSUME NEW i \in 1..4, termToId[q[i]] = NoId
               PROVE  IdIn(ts, q[i]) \in Ids
    BY <1>2, <1>4 DEF DictType, Ids, NoId
  <2>1. q[i] \in Range(q)
    BY <1>4 DEF Range
  <2> QED
    BY <1>5, <1>6, <2>1, IdOfRecord
<1> HIDE DEF ids, ts, q, h
<1>10. [work EXCEPT !.terms = ts] \in DbOf
  BY <1>2, <1>5 DEF DictType, DbOf
<1>11. work' \in DbOf
  BY <1>8, <1>9, <1>10, PutType
<1>12. DictType'
  <2>1. /\ termToId' \in [Terms -> Nat]
        /\ DOMAIN idToTerm' \subseteq Ids
        /\ \A i \in DOMAIN idToTerm' : idToTerm'[i] \in Terms
    BY <1>2, <1>5, <1>6, <1>7, <1>8, RememberType
  <2>2. disk' = disk
    BY DEF AddStep
  <2> QED
    BY <1>2, <1>11, <2>1, <2>2 DEF DictType
<1>13. txq' = [txq EXCEPT ![1] = [h EXCEPT !.na = h.na + 1]]
  BY <1>2 DEF AddStep, h
<1>14. [h EXCEPT !.na = h.na + 1] \in JobUpTo(opCount)
  <2>1. h.na + 1 \in Nat
    BY <1>3
  <2> QED
    BY <1>2, <2>1, Advanced
<1>15. UNCHANGED <<buffer, flushPromise, calls, lost, opCount, isOpen, faults, committed>>
  BY DEF AddStep
<1>16. committed' \subseteq 1..opCount
  BY <1>15, TypeParts DEF FlowInv
<1> QED
  BY <1>1, <1>12, <1>13, <1>14, <1>15, <1>16, AdvancePreserves

\* So does one whose second add of a repeated new term aborts the transaction.
LEMMA AddClashesPreserves ==
  ASSUME FlowInv, AddClashes
  PROVE  FlowInv'
<1> DEFINE h == Head(txq)
           q == h.adds[h.na + 1].q
           ts == InternQuad(q)
           seen == {q[k] : k \in {k \in 1..4 : \A j \in Repeats(q) : k < j}}
           S == seen \cup {t \in Range(q) : ~IsNew(t)}
<1>1. txq # <<>> /\ h.na < Len(h.adds)
  BY DEF AddClashes
<1>2. h \in JobUpTo(opCount) /\ opCount \in Nat /\ DictType
  BY <1>1, HeadType
<1>3. h.na \in Nat /\ h.adds \in Seq(OpUpTo(opCount))
  BY <1>2 DEF JobUpTo
<1>4. q \in [1..4 -> Terms]
  BY <1>1, <1>2, <1>3, NextQuad
<1>5. /\ ts \in Seq(Terms) /\ Range(work.terms) \subseteq Range(ts)
      /\ \A t \in Range(q) : IsNew(t) => t \in Range(ts)
  BY <1>2, <1>4, InternType
<1>6. S \subseteq Range(q) /\ Range(q) \subseteq Terms
  BY <1>4 DEF Range
<1>7. \A t \in S : termToId[t] = NoId => t \in Range(ts)
  BY <1>5, <1>6 DEF IsNew
<1>8. Remember(ts, S) /\ JobFails(h) /\ work' = disk
  BY DEF AddClashes
<1>9. UNCHANGED <<disk, isOpen, opCount, committed, faults>>
  BY DEF AddClashes
<1> HIDE DEF h, q, ts, S
<1>10. /\ termToId' \in [Terms -> Nat]
       /\ DOMAIN idToTerm' \subseteq Ids
       /\ \A i \in DOMAIN idToTerm' : idToTerm'[i] \in Terms
  BY <1>2, <1>5, <1>6, <1>7, <1>8, RememberType
<1>11. DictType'
  BY <1>2, <1>8, <1>9, <1>10 DEF DictType
<1>12. JobFails(Head(txq))
  BY <1>8 DEF h
<1>13. committed' \subseteq 1..opCount /\ aborts' \in Nat
  BY <1>9, TypeParts DEF FlowInv, faults
<1> QED
  BY <1>1, <1>9, <1>11, <1>12, <1>13, EndPreserves DEF faults

\* The quad that a batch deletes next.
LEMMA NextDeleteType ==
  ASSUME FlowInv, Deleting
  PROVE  /\ txq # <<>> /\ Head(txq) \in JobUpTo(opCount) /\ txq[1] = Head(txq)
         /\ Head(txq).nd + 1 \in Nat /\ DictType
         /\ txq \in Seq(JobUpTo(opCount)) /\ 1 \in 1..Len(txq)
         /\ NextDelete \in [1..4 -> Terms] /\ Range(NextDelete) \subseteq Terms
         /\ txq' = [txq EXCEPT ![1].nd = @ + 1] =>
              txq' = [txq EXCEPT ![1] = [Head(txq) EXCEPT !.nd = Head(txq).nd + 1]]
<1>1. txq # <<>> /\ Head(txq).nd < Len(Head(txq).dels)
  BY DEF Deleting
<1>2. /\ Head(txq) \in JobUpTo(opCount) /\ txq[1] = Head(txq) /\ opCount \in Nat /\ DictType
      /\ txq \in Seq(JobUpTo(opCount)) /\ 1 \in 1..Len(txq)
  BY <1>1, HeadType
<1>3. Head(txq).nd \in Nat /\ Head(txq).dels \in Seq(OpUpTo(opCount))
  BY <1>2 DEF JobUpTo
<1>4. NextDelete \in [1..4 -> Terms]
  BY <1>1, <1>2, <1>3, NextQuad DEF NextDelete
<1>5. Range(NextDelete) \subseteq Terms
  BY <1>4 DEF Range
<1>6. txq' = [txq EXCEPT ![1].nd = @ + 1] =>
        txq' = [txq EXCEPT ![1] = [Head(txq) EXCEPT !.nd = Head(txq).nd + 1]]
  BY <1>2
<1> QED
  BY <1>1, <1>2, <1>3, <1>4, <1>5, <1>6

\* A deletion whose terms are cached preserves FlowInv.
LEMMA DeleteStepPreserves ==
  ASSUME FlowInv, DeleteStep
  PROVE  FlowInv'
<1> DEFINE ids == [i \in 1..4 |-> termToId[NextDelete[i]]]
<1>1. Deleting /\ Cached(NextDelete) /\ AdvanceDelete /\ work' = Remove(work, ids)
  BY DEF DeleteStep
<1>2. ids \in [1..4 -> Ids]
  <2>1. NextDelete \in [1..4 -> Terms] /\ DictType
    BY <1>1, NextDeleteType
  <2>2. \A i \in 1..4 : NextDelete[i] \in Range(NextDelete)
    BY <2>1 DEF Range
  <2> QED
    BY <1>1, <2>1, <2>2 DEF Cached, DictType, Ids, NoId
<1> HIDE DEF ids
<1>3. work' \in DbOf
  BY <1>1, <1>2, NextDeleteType, PutType DEF DictType
<1>4. UNCHANGED <<buffer, flushPromise, calls, disk, cache, isOpen, opCount, committed,
                  lost, faults>>
  BY DEF DeleteStep
<1>5. DictType'
  BY <1>1, <1>3, <1>4, NextDeleteType DEF DictType, cache
<1>6. committed' \subseteq 1..opCount
  BY <1>4, TypeParts DEF FlowInv
<1>7. txq' = [txq EXCEPT ![1] = [Head(txq) EXCEPT !.nd = Head(txq).nd + 1]]
  BY <1>1, NextDeleteType DEF AdvanceDelete
<1>8. [Head(txq) EXCEPT !.nd = Head(txq).nd + 1] \in JobUpTo(opCount) /\ txq # <<>>
  BY <1>1, NextDeleteType, Advanced
<1> QED
  BY <1>4, <1>5, <1>6, <1>7, <1>8, AdvancePreserves

\* The transaction that commits itself under a pending getId() preserves FlowInv.
LEMMA AutoCommitPreserves ==
  ASSUME FlowInv, AutoCommit
  PROVE  FlowInv'
<1>1. Deleting /\ disk' = work /\ txq' = [txq EXCEPT ![1].live = FALSE]
  BY DEF AutoCommit
<1>2. UNCHANGED <<buffer, flushPromise, calls, work, cache, isOpen, opCount, lost, faults>>
  BY DEF AutoCommit
<1>3. DictType'
  BY <1>1, <1>2, NextDeleteType DEF DictType, cache
<1>4. committed' \subseteq 1..opCount
  <2>1. Done(Head(txq)) \subseteq 1..opCount
    BY <1>1, NextDeleteType, DoneType DEF FlowInv, TypeOK
  <2> QED
    BY <2>1, TypeParts DEF FlowInv, AutoCommit
<1>5. txq' = [txq EXCEPT ![1] = [Head(txq) EXCEPT !.live = FALSE]]
  BY <1>1, NextDeleteType
<1>6. [Head(txq) EXCEPT !.live = FALSE] \in JobUpTo(opCount) /\ txq # <<>>
  BY <1>1, NextDeleteType, Advanced
<1> QED
  BY <1>2, <1>3, <1>4, <1>5, <1>6, AdvancePreserves

\* Here the batch has committed, so its dictionary is the committed one.
LEMMA SkipDeletePreserves ==
  ASSUME FlowInv, SkipDelete, disk.terms = work.terms
  PROVE  FlowInv'
<1> DEFINE S == {t \in Range(NextDelete) : ~IsNew(t)}
<1>1. Deleting /\ AdvanceDelete /\ Remember(disk.terms, S)
  BY DEF SkipDelete
<1>2. UNCHANGED <<buffer, flushPromise, calls, disk, work, isOpen, opCount, committed,
                  lost, faults>>
  BY DEF SkipDelete
<1>3. disk.terms \in Seq(Terms) /\ S \in SUBSET Terms /\ DictType
  BY <1>1, NextDeleteType DEF DictType, DbOf
<1>4. \A t \in S : termToId[t] = NoId => t \in Range(disk.terms)
  BY DEF IsNew
<1> HIDE DEF S
<1>5. DictType'
  BY <1>1, <1>2, <1>3, <1>4, RememberType DEF DictType
<1>6. committed' \subseteq 1..opCount
  BY <1>2, TypeParts DEF FlowInv
<1>7. txq' = [txq EXCEPT ![1] = [Head(txq) EXCEPT !.nd = Head(txq).nd + 1]]
  BY <1>1, NextDeleteType DEF AdvanceDelete
<1>8. [Head(txq) EXCEPT !.nd = Head(txq).nd + 1] \in JobUpTo(opCount) /\ txq # <<>>
  BY <1>1, NextDeleteType, Advanced
<1> QED
  BY <1>2, <1>5, <1>6, <1>7, <1>8, AdvancePreserves

\* The deletion that finds its transaction finished preserves FlowInv: by WorkInv,
\* what getId() read from the committed terms is what the cache's ids refer to.
LEMMA DeleteTooLatePreserves ==
  ASSUME FlowInv, DeleteTooLate, disk.terms = work.terms
  PROVE  FlowInv'
<1>1. Deleting /\ JobFails(Head(txq))
  BY DEF DeleteTooLate
<1>2. UNCHANGED <<disk, work, isOpen, opCount, committed, faults>>
  BY DEF DeleteTooLate
<1>3. disk.terms \in Seq(Terms) /\ DictType
  BY <1>1, NextDeleteType DEF DictType, DbOf
<1>4. ASSUME isOpen
      PROVE  DictType'
  <2>1. Remember(disk.terms, Range(NextDelete))
    BY <1>4 DEF DeleteTooLate
  <2>2. \A t \in Range(NextDelete) : termToId[t] = NoId => t \in Range(disk.terms)
    BY <1>4 DEF DeleteTooLate, IsNew
  <2>3. Range(NextDelete) \in SUBSET Terms
    BY <1>1, NextDeleteType
  <2> QED
    BY <1>2, <1>3, <2>1, <2>2, <2>3, RememberType DEF DictType
<1>5. ASSUME ~isOpen
      PROVE  DictType'
  BY <1>2, <1>3, <1>5 DEF DeleteTooLate, DictType, cache
<1>6. committed' \subseteq 1..opCount /\ aborts' \in Nat
  BY <1>2, TypeParts DEF FlowInv, faults
<1>7. txq # <<>> /\ DictType'
  BY <1>1, <1>4, <1>5, NextDeleteType
<1> QED
  BY <1>1, <1>2, <1>6, <1>7, EndPreserves DEF faults

\* `await tx.done` preserves FlowInv.
LEMMA CommitPreserves ==
  ASSUME FlowInv, Commit
  PROVE  FlowInv'
<1>1. txq # <<>> /\ disk' = work /\ JobSucceeds(Head(txq))
  BY DEF Commit
<1>2. UNCHANGED <<work, cache, isOpen, opCount, faults>>
  BY DEF Commit
<1>3. Head(txq) \in JobUpTo(opCount) /\ opCount \in Nat /\ DictType
  BY <1>1, HeadType
<1>4. DictType'
  BY <1>1, <1>2, <1>3 DEF DictType, cache
<1>5. committed' \subseteq 1..opCount /\ aborts' \in Nat
  BY <1>2, <1>3, DoneType, TypeParts DEF FlowInv, Commit, faults
<1> QED
  BY <1>1, <1>2, <1>4, <1>5, EndPreserves DEF faults

\* An aborted transaction preserves FlowInv.
LEMMA AbortPreserves ==
  ASSUME FlowInv, Abort
  PROVE  FlowInv'
<1>1. txq # <<>> /\ work' = disk /\ JobFails(Head(txq))
  BY DEF Abort
<1>2. UNCHANGED <<disk, cache, isOpen, opCount, committed, closes, crashes>>
  BY DEF Abort
<1>3. DictType'
  BY <1>1, <1>2, HeadType DEF DictType, cache
<1>4. committed' \subseteq 1..opCount /\ aborts' \in Nat
  BY <1>2, TypeParts DEF FlowInv, Abort
<1> QED
  BY <1>1, <1>2, <1>3, <1>4, EndPreserves

\* A read that fills the dictionary's caches preserves FlowInv.
LEMMA LookupPreserves ==
  ASSUME FlowInv, NEW t \in Terms, Lookup(t)
  PROVE  FlowInv'
<1> DEFINE id == IdIn(disk.terms, t)
<1>1. DictType /\ disk.terms \in Seq(Terms) /\ t \in Range(disk.terms)
  BY TypeParts DEF FlowInv, Lookup, DictType, DbOf
<1>2. id \in Ids
  BY <1>1, IdOfRecord
<1>3. /\ termToId' = [termToId EXCEPT ![t] = id]
      /\ idToTerm' = [i \in DOMAIN idToTerm \cup {id} |-> IF i = id THEN t ELSE idToTerm[i]]
  BY DEF Lookup
<1>4. UNCHANGED <<buffer, flushPromise, txq, calls, disk, work, isOpen, opCount, committed,
                  lost, faults>>
  BY DEF Lookup
<1> HIDE DEF id
<1>5. termToId' \in [Terms -> Nat]
  BY <1>1, <1>2, <1>3 DEF DictType, Ids
<1>6. DOMAIN idToTerm' \subseteq Ids /\ \A i \in DOMAIN idToTerm' : idToTerm'[i] \in Terms
  BY <1>1, <1>2, <1>3 DEF DictType
<1>7. DictType'
  BY <1>1, <1>4, <1>5, <1>6 DEF DictType
<1> QED
  BY <1>4, <1>7, TypeParts DEF FlowInv, FlushInv, TypeOK, DictType, buffer, faults

\* close() preserves FlowInv.
LEMMA ClosePreserves ==
  ASSUME FlowInv, Close
  PROVE  FlowInv'
<1>1. /\ isOpen' = FALSE /\ closes' = closes + 1
      /\ UNCHANGED <<buffer, flushPromise, txq, calls, disk, work, cache, opCount,
                     committed, lost, aborts, crashes>>
  BY DEF Close
<1>2. closes' \in Nat /\ isOpen' \in BOOLEAN
  <2>1. closes' \in Nat
    BY <1>1, TypeParts DEF FlowInv
  <2>2. isOpen' \in BOOLEAN
    BY <1>1
  <2> QED
    BY <2>1, <2>2
<1>3. DictType'
  BY <1>1, TypeParts DEF FlowInv, DictType, cache
<1>4. FlushInv'
  BY <1>1 DEF FlowInv, FlushInv
<1>5. \A n \in Nat : n = opCount => FlowType(n)'
  BY <1>1, TypeParts DEF FlowInv, FlowType, buffer
<1> QED
  BY <1>1, <1>2, <1>3, <1>4, <1>5, Assemble, TypeParts DEF FlowInv

\* open() on an existing database preserves FlowInv.
LEMMA NewSessionPreserves ==
  ASSUME FlowInv, NewSession, crashes' \in Nat
  PROVE  FlowInv'
<1>1. /\ pendingAdds' = <<>> /\ pendingDeletes' = <<>> /\ flushPromise' = FALSE /\ txq' = <<>>
      /\ calls' = [c \in Calls |-> IdleCall] /\ work' = disk
      /\ termToId' = [t \in Terms |-> NoId] /\ idToTerm' = [i \in {} |-> i]
      /\ isOpen' = TRUE /\ lost' = (1..opCount) \ committed
      /\ UNCHANGED <<disk, opCount, committed, aborts, closes>>
  BY DEF NewSession
<1>2. opCount \in Nat /\ DictType
  BY TypeParts DEF FlowInv
<1>3. IdleCall \in CallUpTo(opCount)
  BY <1>2 DEF IdleCall, CallUpTo
<1>4. <<>> \in Seq(OpUpTo(opCount)) /\ <<>> \in Seq(JobUpTo(opCount)) /\ Len(<<>>) = 0
  OBVIOUS
<1>5. \A n \in Nat : n = opCount => FlowType(n)'
  BY <1>1, <1>3, <1>4 DEF FlowType
<1>6. FlushInv'
  BY <1>1, <1>4 DEF FlushInv
<1>7. DictType'
  BY <1>1, <1>2 DEF DictType, NoId
<1> QED
  BY <1>1, <1>5, <1>6, <1>7, Assemble, TypeParts DEF FlowInv
-----------------------------------------------------------------------------
(***************************************************************************)
(* Once a batch has committed itself before its end (AutoCommit), what it  *)
(* sees is what is committed.                                              *)
(***************************************************************************)
WorkInv ==
  \A j \in DOMAIN txq : txq[j].live \/ (work = disk /\ txq[j].na = Len(txq[j].adds))
IInv == FlowInv /\ WorkInv

\* A job that starts is live, so it asks nothing of the database.
LEMMA SpliceWork ==
  ASSUME NEW c, NEW called, NEW adds, NEW dels,
         SpliceAndWrite(c, called, <<>>, adds, dels)
  PROVE  WorkInv'
<1>1. txq' = <<>> \/ txq' = <<Job(c, adds, dels)>>
  BY DEF SpliceAndWrite, ReturnEmpty, BeginJob, BeginFails
<1>2. Job(c, adds, dels).live
  BY DEF Job
<1> QED
  BY <1>1, <1>2 DEF WorkInv

\* A flush() call neither ends a transaction nor writes: WorkInv is kept.
LEMMA StartFlushWork ==
  ASSUME IInv, NEW c, NEW adds, NEW dels, NEW m, UNCHANGED <<disk, work>>,
         StartFlush(c, adds, dels, m)
  PROVE  WorkInv'
<1>1. CASE AwaitRunning(c, adds, dels, m)
  <2>1. txq \in Seq(JobUpTo(opCount)) /\ txq # <<>>
    BY <1>1, TypeParts DEF IInv, FlowInv, FlushInv, FlowType, AwaitRunning
  <2>2. /\ DOMAIN txq' = DOMAIN txq
        /\ \A j \in DOMAIN txq : /\ txq'[j].live = txq[j].live /\ txq'[j].na = txq[j].na
                                 /\ txq'[j].adds = txq[j].adds
    <3> DEFINE k == Len(txq)
               r == [txq[k] EXCEPT !.waiters = Append(@, c)]
    <3>1. k \in DOMAIN txq /\ txq[k] \in JobUpTo(opCount)
      BY <2>1
    <3>2. r.live = txq[k].live /\ r.na = txq[k].na /\ r.adds = txq[k].adds
      BY <3>1 DEF JobUpTo
    <3>3. txq' = [txq EXCEPT ![k] = r]
      BY <1>1 DEF AwaitRunning
    <3> HIDE DEF k, r
    <3> QED
      BY <3>1, <3>2, <3>3
  <2> QED
    BY <2>2 DEF IInv, WorkInv
<1>2. CASE ~flushPromise /\ SpliceAndWrite(c, [calls EXCEPT ![c] = [IdleCall EXCEPT !.upto = m]],
                                           txq, adds, dels)
  <2>1. txq = <<>>
    BY <1>2 DEF IInv, FlowInv, FlushInv
  <2> QED
    BY <1>2, <2>1, SpliceWork
<1> QED
  BY <1>1, <1>2 DEF StartFlush

\* After a job the queue is empty or holds a fresh, live job.
LEMMA EndWork ==
  ASSUME IInv, txq # <<>>, JobFails(Head(txq)) \/ JobSucceeds(Head(txq))
  PROVE  WorkInv'
<1>1. Tail(txq) = <<>>
  BY LastJob, TypeParts DEF IInv, FlowInv
<1>2. CASE txq' = Tail(txq)
  BY <1>1, <1>2 DEF WorkInv
<1>3. ASSUME SpliceAndWrite(Head(Head(txq).waiters), Returned(Head(txq), "ok"), Tail(txq),
                            pendingAdds, pendingDeletes)
      PROVE  WorkInv'
  BY <1>1, <1>3, SpliceWork
<1> QED
  BY <1>2, <1>3 DEF JobFails, JobSucceeds, ResumeNone

\* Every step keeps WorkInv: a transaction is finished early only after its
\* additions, and from then on nothing writes terms.
LEMMA WorkPreserved ==
  ASSUME IInv, Next
  PROVE  WorkInv'
<1>0. txq \in Seq(JobUpTo(opCount)) /\ FlowInv
  BY TypeParts DEF IInv, FlowInv, FlowType
<1>1. ASSUME NEW adds, NEW dels, PushThenFlush(adds, dels)
      PROVE  WorkInv'
  <2>1. CASE UNCHANGED txq
    BY <1>1, <2>1 DEF PushThenFlush, IInv, WorkInv
  <2>2. ASSUME NEW c \in Calls, StartFlush(c, adds, dels, opCount + 1)
        PROVE  WorkInv'
    BY <1>1, <2>2, StartFlushWork DEF PushThenFlush
  <2> QED
    BY <1>1, <2>1, <2>2 DEF PushThenFlush
<1>2. ASSUME NEW c \in Calls, Flush(c)
      PROVE  WorkInv'
  BY <1>2, StartFlushWork DEF Flush
<1>3. CASE AddStep
  <2>1. txq # <<>> /\ Head(txq).na < Len(Head(txq).adds)
        /\ txq' = [txq EXCEPT ![1].na = Head(txq).na + 1]
    BY <1>3 DEF AddStep
  <2>2. /\ DOMAIN txq = {1} /\ Head(txq) = txq[1] /\ Head(txq) \in JobUpTo(opCount)
    BY <1>0, <2>1, LastJob, TypeParts DEF FlowInv
  <2>3. Head(txq).na # Len(Head(txq).adds)
    BY <2>1, <2>2 DEF JobUpTo
  <2>4. txq[1].live
    BY <2>2, <2>3 DEF IInv, WorkInv
  <2>5. DOMAIN txq' = {1} /\ txq'[1].live
    BY <2>1, <2>2, <2>4 DEF JobUpTo
  <2> QED
    BY <2>5 DEF WorkInv
<1>4. ASSUME Deleting, AdvanceDelete, \/ Head(txq).live
                                      \/ UNCHANGED <<work, disk>>
      PROVE  WorkInv'
  <2>1. txq # <<>> /\ txq' = [txq EXCEPT ![1].nd = @ + 1]
    BY <1>4 DEF Deleting, AdvanceDelete
  <2>2. DOMAIN txq = {1} /\ Head(txq) = txq[1] /\ Head(txq) \in JobUpTo(opCount)
    BY <1>0, <2>1, LastJob, TypeParts DEF FlowInv
  <2>3. /\ DOMAIN txq' = {1} /\ txq'[1].live = txq[1].live /\ txq'[1].na = txq[1].na
        /\ txq'[1].adds = txq[1].adds
    BY <2>1, <2>2 DEF JobUpTo
  <2> QED
    BY <1>4, <2>2, <2>3 DEF IInv, WorkInv
<1>5. CASE AutoCommit
  <2>1. /\ txq # <<>> /\ txq' = [txq EXCEPT ![1].live = FALSE] /\ work' = disk'
        /\ Head(txq).na = Len(Head(txq).adds)
    BY <1>5 DEF AutoCommit, Deleting
  <2>2. DOMAIN txq = {1} /\ Head(txq) = txq[1] /\ Head(txq) \in JobUpTo(opCount)
    BY <1>0, <2>1, LastJob, TypeParts DEF FlowInv
  <2>3. DOMAIN txq' = {1} /\ txq'[1].na = txq[1].na /\ txq'[1].adds = txq[1].adds
    BY <2>1, <2>2 DEF JobUpTo
  <2> QED
    BY <2>1, <2>2, <2>3 DEF WorkInv
<1>6. ASSUME txq # <<>>, JobFails(Head(txq)) \/ JobSucceeds(Head(txq))
      PROVE  WorkInv'
  BY <1>6, EndWork
<1>7. ASSUME NewSession
      PROVE  WorkInv'
  BY <1>7 DEF NewSession, WorkInv
<1>8. ASSUME UNCHANGED <<txq, work, disk>>
      PROVE  WorkInv'
  BY <1>8 DEF IInv, WorkInv
<1>9. CASE JobStep
  <2>1. CASE AddClashes
    BY <1>6, <2>1 DEF AddClashes
  <2>2. CASE DeleteStep
    BY <1>4, <2>2 DEF DeleteStep
  <2>3. CASE SkipDelete
    BY <1>4, <2>3 DEF SkipDelete
  <2>4. CASE DeleteTooLate
    BY <1>6, <2>4 DEF DeleteTooLate, Deleting
  <2>5. CASE Commit
    BY <1>6, <2>5 DEF Commit
  <2> QED
    BY <1>3, <1>5, <1>9, <2>1, <2>2, <2>3, <2>4, <2>5 DEF JobStep
<1>10. CASE Abort
  BY <1>6, <1>10 DEF Abort
<1>11. CASE Close
  BY <1>8, <1>11 DEF Close
<1>12. CASE Reopen \/ Crash
  BY <1>7, <1>12 DEF Reopen, Crash
<1>13. ASSUME NEW t \in Terms, Lookup(t)
       PROVE  WorkInv'
  BY <1>8, <1>13 DEF Lookup
<1> QED
  BY <1>1, <1>2, <1>9, <1>10, <1>11, <1>12, <1>13 DEF Next, AddQuad, DeleteQuad, Tick

\* The invariant holds of a freshly opened, empty database.
LEMMA InitIInv ==
  ASSUME Init
  PROVE  IInv
<1>1. <<>> \in Seq(OpUpTo(0)) /\ <<>> \in Seq(JobUpTo(0)) /\ Len(<<>>) = 0
  OBVIOUS
<1>2. IdleCall \in CallUpTo(0)
  BY DEF IdleCall, CallUpTo
<1>3. FlowType(opCount)
  BY <1>1, <1>2 DEF Init, FlowType
<1>4. EmptyDb \in DbOf
  <2>1. <<>> \in Seq(Terms)
    OBVIOUS
  <2> QED
    BY <2>1 DEF EmptyDb, DbOf
<1>5. DictType
  BY <1>4 DEF Init, DictType, NoId
<1>6. TypeOK
  <2>1. isOpen \in BOOLEAN
    BY DEF Init
  <2> QED
    BY <1>3, <1>5, <2>1, TypeParts DEF Init
<1>7. FlushInv
  BY <1>1 DEF Init, FlushInv
<1>8. WorkInv
  BY DEF Init, WorkInv
<1> QED
  BY <1>6, <1>7, <1>8 DEF IInv, FlowInv

\* Every step of the write path preserves the invariant.
LEMMA NextIInv ==
  ASSUME IInv, [Next]_vars
  PROVE  IInv'
<1>1. FlowInv /\ WorkInv
  BY DEF IInv
<1>2. ASSUME Deleting, ~Head(txq).live
      PROVE  disk.terms = work.terms
  <2>1. 1 \in DOMAIN txq /\ txq[1] = Head(txq)
    BY <1>1, <1>2, NextDeleteType
  <2> QED
    BY <1>1, <1>2, <2>1 DEF WorkInv
<1>3. ASSUME JobStep
      PROVE  FlowInv'
  <2>1. CASE AddStep
    BY <1>1, <2>1, AddStepPreserves
  <2>2. CASE AddClashes
    BY <1>1, <2>2, AddClashesPreserves
  <2>3. CASE DeleteStep
    BY <1>1, <2>3, DeleteStepPreserves
  <2>4. CASE AutoCommit
    BY <1>1, <2>4, AutoCommitPreserves
  <2>5. CASE SkipDelete
    BY <1>1, <1>2, <2>5, SkipDeletePreserves DEF SkipDelete
  <2>6. CASE DeleteTooLate
    BY <1>1, <1>2, <2>6, DeleteTooLatePreserves DEF DeleteTooLate
  <2>7. CASE Commit
    BY <1>1, <2>7, CommitPreserves
  <2> QED
    BY <1>3, <2>1, <2>2, <2>3, <2>4, <2>5, <2>6, <2>7 DEF JobStep
<1>4. CASE Reopen \/ Crash
  <2>1. NewSession /\ Next
    BY <1>4 DEF Reopen, Crash, Next
  <2>2. crashes' \in Nat
    BY <1>1, <1>4, TypeParts DEF FlowInv, Reopen, Crash
  <2> QED
    BY <1>1, <2>1, <2>2, NewSessionPreserves, WorkPreserved DEF IInv
<1>5. CASE UNCHANGED vars
  <2>1. FlushInv'
    BY <1>1, <1>5 DEF vars, FlowInv, FlushInv
  <2>2. WorkInv'
    BY <1>1, <1>5 DEF vars, WorkInv
  <2>3. TypeOK'
    BY <1>1, <1>5 DEF vars, buffer, cache, faults, FlowInv, TypeOK
  <2> QED
    BY <2>1, <2>2, <2>3 DEF IInv, FlowInv
<1>6. ASSUME NEW q \in Quads, AddQuad(q) \/ DeleteQuad(q)
      PROVE  FlowInv'
  BY <1>1, <1>6, AddQuadPreserves
<1>7. ASSUME NEW c \in Calls, Flush(c)
      PROVE  FlowInv'
  BY <1>1, <1>7, FlushPreserves
<1>8. CASE Tick
  BY <1>7, <1>8, WorkPreserved DEF Tick, Next, IInv
<1>9. ASSUME NEW t \in Terms, Lookup(t)
      PROVE  FlowInv'
  BY <1>1, <1>9, LookupPreserves
<1> QED
  <2>1. CASE Next
    <3>1. FlowInv'
      BY <1>1, <1>3, <1>4, <1>6, <1>7, <1>8, <1>9, <2>1, AbortPreserves, ClosePreserves
         DEF Next, IInv
    <3> QED
      BY <2>1, <3>1, WorkPreserved DEF IInv
  <2> QED
    BY <1>5, <2>1

\* The inductive invariant: the shapes of TypeOK, at most one job with flushPromise
\* set exactly while it runs, and the terms on disk equal to the running
\* transaction's once that one has committed itself.
THEOREM InductiveInvariant == SafetySpec => []IInv
<1>1. Init => IInv
  BY InitIInv
<1>2. IInv /\ [Next]_vars => IInv'
  BY NextIInv
<1> QED
  BY <1>1, <1>2, PTL DEF SafetySpec

\* Whatever is added, flushed, read, aborted or lost, and in whatever order, the
\* buffers, the job queue, the two dictionaries and the indexes keep their shape.
THEOREM TypeCorrect == SafetySpec => []TypeOK
<1>1. IInv => TypeOK
  BY DEF IInv, FlowInv
<1> QED
  BY <1>1, InductiveInvariant, PTL

\* flush() is single flight: of any number of callers, the timer and the
\* threshold, one runs _doFlush() at a time (WriteBuffer.flush, flushPromise).
THEOREM FlushIsSingleFlight == SafetySpec => []SingleFlight
<1>1. IInv => SingleFlight
  BY DEF IInv, FlowInv, FlushInv, SingleFlight
<1> QED
  BY <1>1, InductiveInvariant, PTL

(***************************************************************************)
(* What flush() owes its callers: no operation is dropped or written       *)
(* twice, nobody is left waiting, nothing stays in the buffer.             *)
(***************************************************************************)
Held(adds, dels) == Ops(adds) \cup Ops(dels)
Batch(q) == UNION {Held(q[j].adds, q[j].dels) : j \in DOMAIN q}

\* Of n operations each is held, in flight, committed or lost, and one of these.
Accounted(held, inFlight, com, los, n) ==
  /\ held \cup inFlight \cup com \cup los = 1..n
  /\ held \cap (inFlight \cup com \cup los) = {}
  /\ los \cap (inFlight \cup com) = {}

\* A running job never has more additions behind it than it was given.
AddsInRange == \A j \in DOMAIN txq : txq[j].na <= Len(txq[j].adds)
AccountInv == IInv /\ EveryOpOnce /\ AddsInRange

\* EveryOpOnce by the four places an operation can be in, before and after a step.
LEMMA AccountParts ==
  /\ EveryOpOnce <=> Accounted(Held(pendingAdds, pendingDeletes), Batch(txq) \ committed,
                               committed, lost, opCount)
  /\ EveryOpOnce' <=> Accounted(Held(pendingAdds', pendingDeletes'),
                                Batch(txq') \ committed', committed', lost', opCount')
BY DEF EveryOpOnce, Accounted, Held, Batch, InFlight

\* The numbers of a longer buffer.
LEMMA OpsOfAppend ==
  ASSUME NEW n \in Nat, NEW s \in Seq(OpUpTo(n)), NEW q \in Quads, NEW k \in Nat
  PROVE  Ops(Append(s, [q |-> q, n |-> k])) = Ops(s) \cup {k}
<1> DEFINE r == [q |-> q, n |-> k]
           u == Append(s, r)
<1>1. /\ DOMAIN u = DOMAIN s \cup {Len(s) + 1} /\ u[Len(s) + 1] = r
      /\ \A i \in DOMAIN s : u[i] = s[i]
  OBVIOUS
<1>2. r.n = k
  OBVIOUS
<1> HIDE DEF u, r
<1>3. Ops(u) \subseteq Ops(s) \cup {k}
  BY <1>1, <1>2 DEF Ops
<1>4. Ops(s) \subseteq Ops(u)
  BY <1>1 DEF Ops
<1>5. k \in Ops(u)
  BY <1>1, <1>2 DEF Ops
<1> QED
  BY <1>3, <1>4, <1>5 DEF u, r

\* The batch of an empty queue, and of a queue with one job.
LEMMA BatchOfOne ==
  /\ Batch(<<>>) = {}
  /\ \A j : Batch(<<j>>) = Held(j.adds, j.dels)
  /\ Held(<<>>, <<>>) = {}
<1>1. DOMAIN <<>> = {}
  OBVIOUS
<1>2. \A j : DOMAIN <<j>> = {1} /\ <<j>>[1] = j
  OBVIOUS
<1> QED
  BY <1>1, <1>2 DEF Batch, Held, Ops

\* flush() past its wait moves the whole buffer, or gives it up.
LEMMA SpliceAccounts ==
  ASSUME NEW n, NEW c, NEW called, NEW adds, NEW dels,
         SpliceAndWrite(c, called, <<>>, adds, dels),
         Accounted(Held(adds, dels), {}, committed', lost, n)
  PROVE  /\ Accounted(Held(pendingAdds', pendingDeletes'), Batch(txq') \ committed',
                      committed', lost', n)
         /\ AddsInRange'
<1>1. CASE ReturnEmpty(c, called, <<>>, adds, dels)
  <2>1. txq' = <<>> /\ pendingAdds' = adds /\ pendingDeletes' = dels /\ lost' = lost
    BY <1>1 DEF ReturnEmpty
  <2> QED
    BY <2>1, BatchOfOne DEF AddsInRange
<1>2. CASE BeginJob(c, called, <<>>, adds, dels)
  <2> DEFINE j == Job(c, adds, dels)
  <2>1. /\ txq' = <<j>> /\ pendingAdds' = <<>> /\ pendingDeletes' = <<>> /\ lost' = lost
    BY <1>2 DEF BeginJob
  <2>2. j.adds = adds /\ j.dels = dels /\ j.na = 0 /\ adds = j.adds
    BY DEF Job
  <2> HIDE DEF j
  <2>3. Batch(txq') = Held(adds, dels) /\ Held(pendingAdds', pendingDeletes') = {}
    BY <2>1, <2>2, BatchOfOne
  <2>4. Accounted(Held(pendingAdds', pendingDeletes'), Batch(txq') \ committed',
                  committed', lost', n)
    BY <2>1, <2>3 DEF Accounted
  <2> QED
    BY <2>1, <2>2, <2>4 DEF AddsInRange
<1>3. CASE BeginFails(c, called, <<>>, adds, dels)
  <2>1. /\ txq' = <<>> /\ pendingAdds' = <<>> /\ pendingDeletes' = <<>>
        /\ lost' = lost \cup Held(adds, dels)
    BY <1>3 DEF BeginFails, Held
  <2>2. Batch(txq') = {} /\ Held(pendingAdds', pendingDeletes') = {}
    BY <2>1, BatchOfOne
  <2>3. Accounted(Held(pendingAdds', pendingDeletes'), Batch(txq') \ committed',
                  committed', lost', n)
    BY <2>1, <2>2 DEF Accounted
  <2> QED
    BY <2>1, <2>3 DEF AddsInRange
<1> QED
  BY <1>1, <1>2, <1>3 DEF SpliceAndWrite

\* A flush() call with one more operation, or none, in the buffer.
LEMMA StartFlushAccounts ==
  ASSUME AccountInv, NEW c, NEW adds, NEW dels, NEW m, NEW n,
         StartFlush(c, adds, dels, m), committed' = committed,
         Accounted(Held(adds, dels), Batch(txq) \ committed, committed, lost, n)
  PROVE  /\ Accounted(Held(pendingAdds', pendingDeletes'), Batch(txq') \ committed',
                      committed', lost', n)
         /\ AddsInRange'
<1>1. CASE AwaitRunning(c, adds, dels, m)
  <2> DEFINE k == Len(txq)
             r == [txq[k] EXCEPT !.waiters = Append(@, c)]
  <2>1. txq \in Seq(JobUpTo(opCount)) /\ txq # <<>>
    BY <1>1, TypeParts DEF AccountInv, IInv, FlowInv, FlushInv, FlowType, AwaitRunning
  <2>2. k \in DOMAIN txq /\ txq[k] \in JobUpTo(opCount)
    BY <2>1
  <2>3. r.adds = txq[k].adds /\ r.dels = txq[k].dels /\ r.na = txq[k].na
    BY <2>2 DEF JobUpTo
  <2>4. /\ txq' = [txq EXCEPT ![k] = r] /\ lost' = lost
        /\ pendingAdds' = adds /\ pendingDeletes' = dels
    BY <1>1 DEF AwaitRunning
  <2> HIDE DEF k, r
  <2>5. /\ DOMAIN txq' = DOMAIN txq
        /\ \A j \in DOMAIN txq : /\ txq'[j].adds = txq[j].adds /\ txq'[j].dels = txq[j].dels
                                 /\ txq'[j].na = txq[j].na
    BY <2>2, <2>3, <2>4
  <2>6. Batch(txq') = Batch(txq) /\ AddsInRange'
    BY <2>5 DEF Batch, AddsInRange, AccountInv
  <2> QED
    BY <2>4, <2>6
<1>2. CASE /\ ~flushPromise
           /\ SpliceAndWrite(c, [calls EXCEPT ![c] = [IdleCall EXCEPT !.upto = m]],
                             txq, adds, dels)
  <2>1. txq = <<>>
    BY <1>2 DEF AccountInv, IInv, FlowInv, FlushInv
  <2>2. Accounted(Held(adds, dels), {}, committed', lost, n)
    BY <2>1, BatchOfOne DEF Accounted
  <2> QED
    BY <1>2, <2>1, <2>2, SpliceAccounts
<1> QED
  BY <1>1, <1>2 DEF StartFlush

\* The queue while a job runs: the job, whose batch is all that is in flight.
LEMMA OneJob ==
  ASSUME IInv, txq # <<>>
  PROVE  /\ Tail(txq) = <<>> /\ DOMAIN txq = {1} /\ txq[1] = Head(txq)
         /\ Head(txq) \in JobUpTo(opCount) /\ opCount \in Nat
         /\ Batch(txq) = Held(Head(txq).adds, Head(txq).dels)
<1>1. opCount \in Nat /\ FlowType(opCount) /\ FlushInv
  BY TypeParts DEF IInv, FlowInv
<1>2. /\ Tail(txq) = <<>> /\ DOMAIN txq = {1} /\ txq[1] = Head(txq)
      /\ Head(txq) \in JobUpTo(opCount)
  BY <1>1, LastJob
<1>3. Batch(txq) = Held(Head(txq).adds, Head(txq).dels)
  BY <1>2 DEF Batch
<1> QED
  BY <1>1, <1>2, <1>3

\* A job that fails gives up what it had not committed.
LEMMA FailAccounts ==
  ASSUME AccountInv, txq # <<>>, JobFails(Head(txq)), UNCHANGED <<committed, opCount>>
  PROVE  EveryOpOnce' /\ AddsInRange'
<1> DEFINE held == Held(pendingAdds, pendingDeletes)
<1>1. /\ txq' = <<>> /\ UNCHANGED <<pendingAdds, pendingDeletes>>
      /\ lost' = lost \cup (Batch(txq) \ committed)
  BY OneJob DEF AccountInv, JobFails, ResumeNone, buffer, Held
<1>2. Accounted(held, Batch(txq) \ committed, committed, lost, opCount)
  BY AccountParts DEF AccountInv
<1>3. Batch(txq') = {}
  BY <1>1, BatchOfOne
<1> HIDE DEF held
<1>4. Accounted(held, Batch(txq') \ committed, committed, lost', opCount)
  BY <1>1, <1>2, <1>3 DEF Accounted
<1>5. AddsInRange'
  BY <1>1 DEF AddsInRange
<1> QED
  BY <1>1, <1>4, <1>5, AccountParts DEF held

\* What a job has carried out is part of its batch, and all of it at its end.
LEMMA DoneIsBatch ==
  ASSUME NEW n \in Nat, NEW h \in JobUpTo(n)
  PROVE  /\ Done(h) \subseteq Held(h.adds, h.dels)
         /\ h.na >= Len(h.adds) /\ h.nd >= Len(h.dels) => Done(h) = Held(h.adds, h.dels)
<1>1. \A k \in Nat, s \in Seq(OpUpTo(n)) :
        OpsUpTo(s, k) \subseteq Ops(s) /\ (k >= Len(s) => OpsUpTo(s, k) = Ops(s))
  <2> TAKE k \in Nat, s \in Seq(OpUpTo(n))
  <2>1. DOMAIN s = 1..Len(s) /\ Len(s) \in Nat
    OBVIOUS
  <2>2. DOMAIN s \cap 1..k \subseteq DOMAIN s /\ (k >= Len(s) => DOMAIN s \cap 1..k = DOMAIN s)
    BY <2>1
  <2> QED
    BY <2>2 DEF OpsUpTo, Ops
<1>2. /\ h.na \in Nat /\ h.nd \in Nat
      /\ h.adds \in Seq(OpUpTo(n)) /\ h.dels \in Seq(OpUpTo(n))
  BY DEF JobUpTo
<1> QED
  BY <1>1, <1>2 DEF Done, Held

\* A commit takes the whole batch, and what was buffered since may be taken up.
LEMMA CommitAccounts ==
  ASSUME AccountInv, Commit
  PROVE  EveryOpOnce' /\ AddsInRange'
<1> DEFINE h == Head(txq)
           held == Held(pendingAdds, pendingDeletes)
<1>1. /\ txq # <<>> /\ ~Adding /\ ~Deleting /\ committed' = committed \cup Done(h)
      /\ JobSucceeds(h) /\ opCount' = opCount
  BY DEF Commit
<1>2. /\ h \in JobUpTo(opCount) /\ Tail(txq) = <<>> /\ txq[1] = h /\ DOMAIN txq = {1}
      /\ opCount \in Nat /\ Batch(txq) = Held(h.adds, h.dels)
  BY <1>1, OneJob DEF AccountInv
<1>3. h.na >= Len(h.adds) /\ h.nd >= Len(h.dels)
  <2>1. /\ h.na \in Nat /\ h.nd \in Nat /\ Len(h.adds) \in Nat /\ Len(h.dels) \in Nat
    BY <1>2 DEF JobUpTo
  <2>2. h.na <= Len(h.adds)
    BY <1>2 DEF AccountInv, AddsInRange
  <2> QED
    BY <1>1, <2>1, <2>2 DEF Adding, Deleting
<1>4. Done(h) = Batch(txq)
  BY <1>2, <1>3, DoneIsBatch
<1>5. Accounted(held, Batch(txq) \ committed, committed, lost, opCount)
  BY AccountParts DEF AccountInv
<1> HIDE DEF h, held
<1>6. Accounted(held, {}, committed', lost, opCount)
  BY <1>1, <1>4, <1>5 DEF Accounted
<1>7. CASE ResumeNone(h, "ok") /\ UNCHANGED lost
  <2>1. txq' = <<>> /\ UNCHANGED <<pendingAdds, pendingDeletes, lost>>
    BY <1>2, <1>7 DEF ResumeNone, buffer, h
  <2>2. Batch(txq') \ committed' = {} /\ AddsInRange'
    BY <2>1, BatchOfOne DEF AddsInRange
  <2>3. Accounted(Held(pendingAdds', pendingDeletes'), Batch(txq') \ committed',
                  committed', lost', opCount')
    BY <1>1, <1>6, <2>1, <2>2 DEF held
  <2> QED
    BY <2>2, <2>3, AccountParts
<1>8. CASE SpliceAndWrite(Head(h.waiters), Returned(h, "ok"), Tail(txq),
                          pendingAdds, pendingDeletes)
  <2>1. /\ Accounted(Held(pendingAdds', pendingDeletes'), Batch(txq') \ committed',
                     committed', lost', opCount)
        /\ AddsInRange'
    BY <1>2, <1>6, <1>8, SpliceAccounts DEF held
  <2> QED
    BY <1>1, <2>1, AccountParts
<1> QED
  BY <1>1, <1>7, <1>8 DEF JobSucceeds

\* A push gives the new operation the next number and a place in the buffer.
LEMMA PushAccounts ==
  ASSUME AccountInv, NEW adds, NEW dels, PushThenFlush(adds, dels),
         Held(adds, dels) = Held(pendingAdds, pendingDeletes) \cup {opCount + 1}
  PROVE  EveryOpOnce' /\ AddsInRange'
<1> DEFINE n == opCount + 1
           held == Held(pendingAdds, pendingDeletes)
<1>1. opCount \in Nat /\ committed \subseteq 1..opCount /\ FlowType(opCount)
  BY TypeParts DEF AccountInv, IInv, FlowInv
<1>2. Accounted(held, Batch(txq) \ committed, committed, lost, opCount)
  BY AccountParts DEF AccountInv
<1>3. 1..n = (1..opCount) \cup {n} /\ n \notin 1..opCount
  BY <1>1
<1> HIDE DEF n, held
<1>4. Accounted(Held(adds, dels), Batch(txq) \ committed, committed, lost, n)
  BY <1>2, <1>3 DEF Accounted, n, held
<1>5. committed' = committed /\ opCount' = n
  BY DEF PushThenFlush, n
<1>6. CASE UNCHANGED <<txq, lost>> /\ pendingAdds' = adds /\ pendingDeletes' = dels
  <2>1. EveryOpOnce'
    BY <1>4, <1>5, <1>6, AccountParts
  <2> QED
    BY <1>6, <2>1 DEF AddsInRange, AccountInv
<1>7. ASSUME NEW c \in Calls, StartFlush(c, adds, dels, n)
      PROVE  EveryOpOnce' /\ AddsInRange'
  BY <1>4, <1>5, <1>7, StartFlushAccounts, AccountParts
<1> QED
  BY <1>6, <1>7 DEF PushThenFlush, n

\* The steps of a running job other than its end leave what is accounted for.
LEMMA JobAccounts ==
  ASSUME AccountInv, JobStep
  PROVE  EveryOpOnce' /\ AddsInRange'
<1> DEFINE h == Head(txq)
           held == Held(pendingAdds, pendingDeletes)
<1>1. IInv /\ Accounted(held, Batch(txq) \ committed, committed, lost, opCount) /\ AddsInRange
  BY AccountParts DEF AccountInv
<1>2. txq # <<>>
  BY DEF JobStep, AddStep, AddClashes, DeleteStep, AutoCommit, SkipDelete, DeleteTooLate,
         Commit, Deleting
<1>3. /\ txq[1] = h /\ DOMAIN txq = {1} /\ h \in JobUpTo(opCount) /\ opCount \in Nat
      /\ Batch(txq) = Held(h.adds, h.dels)
  BY <1>1, <1>2, OneJob
<1> HIDE DEF h, held
<1>4. ASSUME NEW k, txq' = [txq EXCEPT ![1] = k], k.adds = h.adds, k.dels = h.dels,
             k.na <= Len(k.adds)
      PROVE  Batch(txq') = Batch(txq) /\ AddsInRange'
  <2>1. DOMAIN txq' = {1} /\ txq'[1] = k
    BY <1>3, <1>4
  <2> QED
    BY <1>3, <1>4, <2>1 DEF Batch, AddsInRange
<1>5. ASSUME Batch(txq') = Batch(txq),
             UNCHANGED <<pendingAdds, pendingDeletes, lost, opCount>>,
             committed' = committed \/ committed' = committed \cup Done(h)
      PROVE  EveryOpOnce'
  <2>1. Done(h) \subseteq Batch(txq)
    BY <1>3, DoneIsBatch
  <2>2. Done(h) \cap lost \subseteq committed
    BY <1>1, <2>1 DEF Accounted
  <2>3. Done(h) \cap held \subseteq committed
    BY <1>1, <2>1 DEF Accounted
  <2>4. Accounted(held, Batch(txq) \ committed', committed', lost, opCount)
    BY <1>1, <1>5, <2>1, <2>2, <2>3 DEF Accounted
  <2> QED
    BY <1>5, <2>4, AccountParts DEF held
<1>6. CASE AddStep
  <2>1. /\ txq' = [txq EXCEPT ![1].na = h.na + 1] /\ h.na < Len(h.adds)
        /\ UNCHANGED <<pendingAdds, pendingDeletes, lost, opCount, committed>>
    BY <1>6 DEF AddStep, buffer, h
  <2> DEFINE k == [h EXCEPT !.na = h.na + 1]
  <2>2. txq' = [txq EXCEPT ![1] = k]
    BY <1>3, <2>1
  <2>3. k.adds = h.adds /\ k.dels = h.dels /\ k.na = h.na + 1
    BY <1>3 DEF JobUpTo
  <2>4. k.na <= Len(k.adds)
    <3>1. h.na \in Nat /\ Len(h.adds) \in Nat
      BY <1>3 DEF JobUpTo
    <3> QED
      BY <2>1, <2>3, <3>1
  <2> HIDE DEF k
  <2> QED
    BY <1>4, <1>5, <2>1, <2>2, <2>3, <2>4
<1>7. CASE DeleteStep \/ SkipDelete
  <2>1. /\ AdvanceDelete
        /\ UNCHANGED <<pendingAdds, pendingDeletes, lost, opCount, committed>>
    BY <1>7 DEF DeleteStep, SkipDelete, buffer
  <2> DEFINE k == [h EXCEPT !.nd = @ + 1]
  <2>2. txq' = [txq EXCEPT ![1] = k]
    BY <1>3, <2>1 DEF AdvanceDelete
  <2>3. k.adds = h.adds /\ k.dels = h.dels /\ k.na = h.na
    BY <1>3 DEF JobUpTo
  <2>4. k.na <= Len(k.adds)
    BY <1>1, <1>3, <2>3 DEF AddsInRange
  <2> HIDE DEF k
  <2> QED
    BY <1>4, <1>5, <2>1, <2>2, <2>3, <2>4
<1>8. CASE AutoCommit
  <2>1. /\ txq' = [txq EXCEPT ![1].live = FALSE] /\ committed' = committed \cup Done(h)
        /\ UNCHANGED <<pendingAdds, pendingDeletes, lost, opCount>>
    BY <1>8 DEF AutoCommit, buffer, h
  <2> DEFINE k == [h EXCEPT !.live = FALSE]
  <2>2. txq' = [txq EXCEPT ![1] = k]
    BY <1>3, <2>1
  <2>3. k.adds = h.adds /\ k.dels = h.dels /\ k.na = h.na
    BY <1>3 DEF JobUpTo
  <2>4. k.na <= Len(k.adds)
    BY <1>1, <1>3, <2>3 DEF AddsInRange
  <2> HIDE DEF k
  <2> QED
    BY <1>4, <1>5, <2>1, <2>2, <2>3, <2>4
<1>9. CASE AddClashes \/ DeleteTooLate
  BY <1>2, <1>9, FailAccounts DEF AddClashes, DeleteTooLate
<1>10. CASE Commit
  BY <1>10, CommitAccounts
<1> QED
  BY <1>6, <1>7, <1>8, <1>9, <1>10 DEF JobStep

\* A new session loses exactly what is not committed.
LEMMA SessionAccounts ==
  ASSUME AccountInv, NewSession
  PROVE  EveryOpOnce' /\ AddsInRange'
<1>1. /\ pendingAdds' = <<>> /\ pendingDeletes' = <<>> /\ txq' = <<>>
      /\ lost' = (1..opCount) \ committed /\ UNCHANGED <<opCount, committed>>
  BY DEF NewSession
<1>2. committed \subseteq 1..opCount
  BY DEF AccountInv, IInv, FlowInv, TypeOK
<1>3. Batch(txq') = {} /\ Held(pendingAdds', pendingDeletes') = {}
  BY <1>1, BatchOfOne
<1>4. Accounted(Held(pendingAdds', pendingDeletes'), Batch(txq') \ committed', committed',
                lost', opCount')
  BY <1>1, <1>2, <1>3 DEF Accounted
<1>5. AddsInRange'
  BY <1>1 DEF AddsInRange
<1> QED
  BY <1>4, <1>5, AccountParts

\* Every step accounts for every operation.
LEMMA AccountPreserved ==
  ASSUME AccountInv, [Next]_vars
  PROVE  EveryOpOnce' /\ AddsInRange'
<1>1. /\ opCount \in Nat /\ pendingAdds \in Seq(OpUpTo(opCount))
      /\ pendingDeletes \in Seq(OpUpTo(opCount))
  BY TypeParts DEF AccountInv, IInv, FlowInv, FlowType
<1>2. ASSUME NEW q \in Quads, AddQuad(q)
      PROVE  EveryOpOnce' /\ AddsInRange'
  <2>1. Held(Append(pendingAdds, [q |-> q, n |-> opCount + 1]), pendingDeletes)
          = Held(pendingAdds, pendingDeletes) \cup {opCount + 1}
    BY <1>1, OpsOfAppend DEF Held
  <2> QED
    BY <1>2, <2>1, PushAccounts DEF AddQuad
<1>3. ASSUME NEW q \in Quads, DeleteQuad(q)
      PROVE  EveryOpOnce' /\ AddsInRange'
  <2>1. Held(pendingAdds, Append(pendingDeletes, [q |-> q, n |-> opCount + 1]))
          = Held(pendingAdds, pendingDeletes) \cup {opCount + 1}
    BY <1>1, OpsOfAppend DEF Held
  <2> QED
    BY <1>3, <2>1, PushAccounts DEF DeleteQuad
<1>4. ASSUME NEW c \in Calls, Flush(c)
      PROVE  EveryOpOnce' /\ AddsInRange'
  <2>1. /\ StartFlush(c, pendingAdds, pendingDeletes, opCount)
        /\ committed' = committed /\ opCount' = opCount
    BY <1>4 DEF Flush
  <2>2. Accounted(Held(pendingAdds, pendingDeletes), Batch(txq) \ committed, committed,
                  lost, opCount)
    BY AccountParts DEF AccountInv
  <2> QED
    BY <2>1, <2>2, StartFlushAccounts, AccountParts
<1>5. CASE JobStep
  BY <1>5, JobAccounts
<1>6. CASE Abort
  BY <1>6, FailAccounts DEF Abort
<1>7. CASE Reopen \/ Crash
  BY <1>7, SessionAccounts DEF Reopen, Crash
<1>8. ASSUME UNCHANGED <<pendingAdds, pendingDeletes, txq, lost, committed, opCount>>
      PROVE  EveryOpOnce' /\ AddsInRange'
  BY <1>8, AccountParts DEF AccountInv, AddsInRange
<1>9. ASSUME NEW t \in Terms, Lookup(t)
      PROVE  EveryOpOnce' /\ AddsInRange'
  BY <1>8, <1>9 DEF Lookup, buffer
<1>10. CASE Close
  BY <1>8, <1>10 DEF Close, buffer
<1>11. CASE UNCHANGED vars
  BY <1>8, <1>11 DEF vars, buffer
<1> QED
  BY <1>2, <1>3, <1>4, <1>5, <1>6, <1>7, <1>9, <1>10, <1>11 DEF Next, Tick

\* Whatever overlaps, fails, is closed or crashes, flush() neither drops an operation
\* nor writes one twice: each is held, in flight, committed or given up.
THEOREM NoOpLostOrRepeated == SafetySpec => []EveryOpOnce
<1>1. Init => AccountInv
  <2> SUFFICES ASSUME Init PROVE AccountInv
    OBVIOUS
  <2>1. /\ pendingAdds = <<>> /\ pendingDeletes = <<>> /\ txq = <<>>
        /\ committed = {} /\ lost = {} /\ opCount = 0
    BY DEF Init
  <2>2. Accounted(Held(pendingAdds, pendingDeletes), Batch(txq) \ committed, committed,
                  lost, opCount)
    BY <2>1, BatchOfOne DEF Accounted
  <2> QED
    BY <2>1, <2>2, InitIInv, AccountParts DEF AccountInv, AddsInRange
<1>2. AccountInv /\ [Next]_vars => AccountInv'
  BY NextIInv, AccountPreserved DEF AccountInv
<1>3. AccountInv => EveryOpOnce
  BY DEF AccountInv
<1> QED
  BY <1>1, <1>2, <1>3, PTL DEF SafetySpec
-----------------------------------------------------------------------------
(***************************************************************************)
(* The callers.                                                            *)
(***************************************************************************)
\* What a call that succeeded, or that may, was promised: the buffer holds nothing
\* that was queued before it.
NothingBehind ==
  \A c \in Calls : calls[c].st \in {"ok", "own"} =>
    \A n \in Held(pendingAdds, pendingDeletes) : n > calls[c].upto
OwnersOwn == \A j \in DOMAIN txq : calls[txq[j].owner].st = "own"
CallerInv == IInv /\ NoStrandedCall /\ NothingBehind /\ OwnersOwn

\* One more element.
LEMMA RangeOfAppend ==
  ASSUME NEW S, NEW s \in Seq(S), NEW e \in S
  PROVE  Range(Append(s, e)) = Range(s) \cup {e}
<1> DEFINE u == Append(s, e)
<1>1. /\ DOMAIN u = DOMAIN s \cup {Len(s) + 1} /\ u[Len(s) + 1] = e
      /\ \A i \in DOMAIN s : u[i] = s[i]
  OBVIOUS
<1> HIDE DEF u
<1>2. Range(u) = Range(s) \cup {e}
  BY <1>1 DEF Range
<1> QED
  BY <1>2 DEF u

\* A flush() past its wait, when nobody else waits or writes, empties the buffer.
LEMMA SpliceCalls ==
  ASSUME NEW k, NEW called \in [Calls -> CallUpTo(k)], NEW c \in Calls, NEW adds, NEW dels,
         SpliceAndWrite(c, called, <<>>, adds, dels),
         \A d \in Calls : d = c \/ called[d].st \notin {"waiting", "own"}
  PROVE  (NoStrandedCall /\ NothingBehind /\ OwnersOwn)'
<1>1. \A d \in Calls : d # c => calls'[d] = called[d]
  BY DEF SpliceAndWrite, ReturnEmpty, BeginJob, BeginFails
<1>2. Held(pendingAdds', pendingDeletes') = {}
  BY BatchOfOne DEF SpliceAndWrite, ReturnEmpty, BeginJob, BeginFails
<1>3. NothingBehind'
  BY <1>2 DEF NothingBehind
<1>4. CASE BeginJob(c, called, <<>>, adds, dels)
  <2> DEFINE j == Job(c, adds, dels)
  <2>1. txq' = <<j>> /\ calls'[c].st = "own"
    BY <1>4 DEF BeginJob, CallUpTo
  <2>2. j.owner = c
    BY DEF Job
  <2> HIDE DEF j
  <2>3. DOMAIN txq' = {1} /\ txq'[1].owner = c
    BY <2>1, <2>2
  <2> QED
    BY <1>1, <1>3, <2>1, <2>3 DEF NoStrandedCall, OwnersOwn
<1>5. CASE ReturnEmpty(c, called, <<>>, adds, dels) \/ BeginFails(c, called, <<>>, adds, dels)
  <2>1. txq' = <<>> /\ calls'[c].st \in {"ok", "err"}
    BY <1>5 DEF ReturnEmpty, BeginFails, CallUpTo
  <2> QED
    BY <1>1, <1>3, <2>1 DEF NoStrandedCall, OwnersOwn
<1> QED
  BY <1>4, <1>5 DEF SpliceAndWrite

\* A flush() call, after a push or not.
LEMMA StartFlushCalls ==
  ASSUME CallerInv, NEW c \in Calls, NEW adds, NEW dels, NEW m \in Nat,
         StartFlush(c, adds, dels, m),
         Held(adds, dels) \subseteq Held(pendingAdds, pendingDeletes) \cup {opCount + 1}
  PROVE  (NoStrandedCall /\ NothingBehind /\ OwnersOwn)'
<1>1. /\ txq \in Seq(JobUpTo(opCount)) /\ opCount \in Nat
      /\ calls \in [Calls -> CallUpTo(opCount)]
  BY TypeParts DEF CallerInv, IInv, FlowInv, FlowType
<1>2. calls[c].st \notin {"own", "waiting"}
  BY DEF StartFlush, Free
<1>3. CASE AwaitRunning(c, adds, dels, m)
  <2> DEFINE k == Len(txq)
             r == [txq[k] EXCEPT !.waiters = Append(@, c)]
  <2>1. txq # <<>>
    BY <1>3 DEF CallerInv, IInv, FlowInv, FlushInv, AwaitRunning
  <2>2. k \in DOMAIN txq /\ txq[k] \in JobUpTo(opCount)
    BY <1>1, <2>1
  <2>3. r.owner = txq[k].owner /\ r.waiters = Append(txq[k].waiters, c)
    BY <2>2 DEF JobUpTo
  <2>4. /\ txq' = [txq EXCEPT ![k] = r]
        /\ pendingAdds' = adds /\ pendingDeletes' = dels
        /\ calls' = [calls EXCEPT ![c] = [st |-> "waiting", upto |-> m, ops |-> {}]]
    BY <1>3 DEF AwaitRunning
  <2>5. txq[k].waiters \in Seq(Calls)
    BY <2>2 DEF JobUpTo
  <2> HIDE DEF k
  <2>6. Range(r.waiters) = Range(txq[k].waiters) \cup {c}
    <3>1. Range(Append(txq[k].waiters, c)) = Range(txq[k].waiters) \cup {c}
      BY <2>5, RangeOfAppend
    <3> HIDE DEF r
    <3> QED
      BY <2>3, <3>1
  <2> HIDE DEF r
  <2>7. /\ DOMAIN txq' = DOMAIN txq
        /\ \A j \in DOMAIN txq : /\ txq'[j].owner = txq[j].owner
                                 /\ Range(txq[j].waiters) \subseteq Range(txq'[j].waiters)
        /\ c \in Range(txq'[k].waiters)
    BY <2>2, <2>3, <2>4, <2>6
  <2>8. calls'[c].st = "waiting" /\ \A d \in Calls : d # c => calls'[d] = calls[d]
    BY <1>1, <2>4
  <2>9. NoStrandedCall'
    BY <2>2, <2>7, <2>8 DEF NoStrandedCall, CallerInv
  <2>10. OwnersOwn'
    <3> SUFFICES ASSUME NEW j \in DOMAIN txq
                 PROVE  calls'[txq[j].owner].st = "own"
      BY <2>7 DEF OwnersOwn
    <3>0. txq[j] \in JobUpTo(opCount)
      BY <1>1
    <3>1. txq[j].owner \in Calls /\ calls[txq[j].owner].st = "own"
      BY <3>0 DEF CallerInv, OwnersOwn, JobUpTo
    <3> QED
      BY <1>2, <2>8, <3>1
  <2>11. NothingBehind'
    <3> SUFFICES ASSUME NEW d \in Calls, d # c, calls[d].st \in {"ok", "own"},
                        NEW n \in Held(adds, dels)
                 PROVE  n > calls[d].upto
      BY <2>4, <2>8 DEF NothingBehind
    <3>1. calls[d].upto \in 0..opCount
      BY <1>1 DEF CallUpTo
    <3>2. CASE n = opCount + 1
      BY <1>1, <3>1, <3>2
    <3>3. CASE n \in Held(pendingAdds, pendingDeletes)
      BY <3>3 DEF CallerInv, NothingBehind
    <3> QED
      BY <3>2, <3>3
  <2> QED
    BY <2>9, <2>10, <2>11
<1>4. CASE /\ ~flushPromise
           /\ SpliceAndWrite(c, [calls EXCEPT ![c] = [IdleCall EXCEPT !.upto = m]],
                             txq, adds, dels)
  <2> DEFINE called == [calls EXCEPT ![c] = [IdleCall EXCEPT !.upto = m]]
  <2>1. txq = <<>>
    BY <1>4 DEF CallerInv, IInv, FlowInv, FlushInv
  <2>2. \A d \in Calls : calls[d].st \notin {"waiting", "own"}
    BY <2>1 DEF CallerInv, NoStrandedCall
  <2>3. \A d \in Calls : d # c => called[d] = calls[d]
    BY <1>1
  <2>4. called \in [Calls -> CallUpTo(opCount + m)]
    <3>1. [IdleCall EXCEPT !.upto = m] \in CallUpTo(opCount + m)
      BY <1>1 DEF IdleCall, CallUpTo
    <3>2. [Calls -> CallUpTo(opCount)] \subseteq [Calls -> CallUpTo(opCount + m)]
      BY <1>1, TypesGrow
    <3> QED
      BY <1>1, <3>1, <3>2
  <2> HIDE DEF called
  <2>5. SpliceAndWrite(c, called, <<>>, adds, dels)
    BY <1>4, <2>1 DEF called
  <2> QED
    BY <2>2, <2>3, <2>4, <2>5, SpliceCalls
<1> QED
  BY <1>3, <1>4 DEF StartFlush

\* When a job ends, every call that waited for it has its answer, and so has its owner.
LEMMA EndAnswersAll ==
  ASSUME CallerInv, txq # <<>>, NEW how \in {"ok", "err"}
  PROVE  /\ Returned(Head(txq), how) \in [Calls -> CallUpTo(opCount)]
         /\ \A c \in Calls : Returned(Head(txq), how)[c].st \notin {"waiting", "own"}
         /\ \A c \in Calls : Returned(Head(txq), how)[c].upto = calls[c].upto
<1>1. /\ opCount \in Nat /\ calls \in [Calls -> CallUpTo(opCount)]
      /\ DOMAIN txq = {1} /\ txq[1] = Head(txq)
  BY OneJob, TypeParts DEF CallerInv, IInv, FlowInv, FlowType
<1>2. Returned(Head(txq), how) \in [Calls -> CallUpTo(opCount)]
  BY <1>1, ReturnedType
<1>3. ASSUME NEW c \in Calls
      PROVE  Returned(Head(txq), how)[c].st \notin {"waiting", "own"}
  <2>1. calls[c] \in CallUpTo(opCount)
    BY <1>1
  <2>2. CASE c = Head(txq).owner \/ c \in Range(Head(txq).waiters)
    BY <2>1, <2>2 DEF Returned, CallUpTo
  <2>3. CASE ~(c = Head(txq).owner \/ c \in Range(Head(txq).waiters))
    BY <1>1, <2>3 DEF Returned, CallerInv, NoStrandedCall
  <2> QED
    BY <2>2, <2>3
<1>4. ASSUME NEW c \in Calls
      PROVE  Returned(Head(txq), how)[c].upto = calls[c].upto
  <2>1. calls[c] \in CallUpTo(opCount)
    BY <1>1
  <2> QED
    BY <2>1 DEF Returned, CallUpTo
<1> QED
  BY <1>2, <1>3, <1>4

\* A failed job leaves no caller behind.
LEMMA FailCalls ==
  ASSUME CallerInv, txq # <<>>, JobFails(Head(txq))
  PROVE  (NoStrandedCall /\ NothingBehind /\ OwnersOwn)'
<1> DEFINE h == Head(txq)
<1>1. /\ calls' = Returned(h, "err") /\ txq' = <<>>
      /\ UNCHANGED <<pendingAdds, pendingDeletes>>
  BY OneJob DEF CallerInv, JobFails, ResumeNone, buffer
<1>2. /\ \A c \in Calls : calls'[c].st \notin {"waiting", "own"}
      /\ \A c \in Calls : calls'[c].upto = calls[c].upto
  BY <1>1, EndAnswersAll
<1>3. \A c \in Calls : calls'[c].st = "ok" => calls[c].st = "ok"
  <2> SUFFICES ASSUME NEW c \in Calls, calls'[c].st = "ok" PROVE calls[c].st = "ok"
    OBVIOUS
  <2>1. calls[c] \in CallUpTo(opCount)
    BY TypeParts DEF CallerInv, IInv, FlowInv, FlowType
  <2> QED
    BY <1>1, <2>1 DEF Returned, CallUpTo
<1>4. NothingBehind'
  BY <1>1, <1>2, <1>3 DEF NothingBehind, CallerInv
<1> QED
  BY <1>1, <1>2, <1>4 DEF NoStrandedCall, OwnersOwn

\* A job that succeeds answers its owner, for whom the buffer was emptied, and the
\* calls that waited only when there is nothing left to write.
LEMMA SucceedCalls ==
  ASSUME CallerInv, txq # <<>>, JobSucceeds(Head(txq))
  PROVE  (NoStrandedCall /\ NothingBehind /\ OwnersOwn)'
<1> DEFINE h == Head(txq)
<1>1. /\ Tail(txq) = <<>> /\ h \in JobUpTo(opCount) /\ opCount \in Nat /\ txq[1] = h
      /\ DOMAIN txq = {1} /\ calls \in [Calls -> CallUpTo(opCount)]
      /\ pendingAdds \in Seq(OpUpTo(opCount)) /\ pendingDeletes \in Seq(OpUpTo(opCount))
  BY OneJob, TypeParts DEF CallerInv, IInv, FlowInv, FlowType
<1>2. /\ Returned(h, "ok") \in [Calls -> CallUpTo(opCount)]
      /\ \A c \in Calls : Returned(h, "ok")[c].st \notin {"waiting", "own"}
      /\ \A c \in Calls : Returned(h, "ok")[c].upto = calls[c].upto
  BY EndAnswersAll
<1>3. CASE /\ ResumeNone(h, "ok")
           /\ h.waiters = <<>> \/ pendingAdds \o pendingDeletes = <<>>
  <2>1. /\ calls' = Returned(h, "ok") /\ txq' = <<>>
        /\ UNCHANGED <<pendingAdds, pendingDeletes>>
    BY <1>1, <1>3 DEF ResumeNone, buffer
  <2>2. CASE pendingAdds \o pendingDeletes = <<>>
    <3>1. pendingAdds = <<>> /\ pendingDeletes = <<>>
      <4>1. Len(pendingAdds) + Len(pendingDeletes) = 0
        <5>1. Len(pendingAdds \o pendingDeletes) = Len(pendingAdds) + Len(pendingDeletes)
          BY <1>1
        <5>2. Len(<<>>) = 0
          OBVIOUS
        <5> QED
          BY <2>2, <5>1, <5>2
      <4>2. Len(pendingAdds) = 0 /\ Len(pendingDeletes) = 0
        BY <1>1, <4>1
      <4> QED
        BY <1>1, <4>2, EmptyWhenNoLength
    <3> QED
      BY <1>2, <2>1, <3>1, BatchOfOne DEF NoStrandedCall, NothingBehind, OwnersOwn
  <2>3. CASE h.waiters = <<>>
    <3>1. \A c \in Calls : calls'[c].st = "ok" => calls[c].st \in {"ok", "own"}
      <4> SUFFICES ASSUME NEW c \in Calls, calls'[c].st = "ok"
                   PROVE  calls[c].st \in {"ok", "own"}
        OBVIOUS
      <4>1. CASE c = h.owner
        BY <1>1, <4>1 DEF CallerInv, OwnersOwn
      <4>2. CASE c # h.owner
        <5>1. Range(h.waiters) = {}
          BY <2>3 DEF Range
        <5> QED
          BY <2>1, <4>2, <5>1 DEF Returned
      <4> QED
        BY <4>1, <4>2
    <3>2. NothingBehind'
      BY <1>2, <2>1, <3>1 DEF NothingBehind, CallerInv
    <3> QED
      BY <1>2, <2>1, <3>2 DEF NoStrandedCall, OwnersOwn
  <2> QED
    BY <1>3, <2>2, <2>3
<1>4. CASE /\ h.waiters # <<>>
           /\ SpliceAndWrite(Head(h.waiters), Returned(h, "ok"), Tail(txq),
                             pendingAdds, pendingDeletes)
  <2>1. Head(h.waiters) \in Calls
    <3>1. h.waiters \in Seq(Calls)
      BY <1>1 DEF JobUpTo
    <3> QED
      BY <1>4, <3>1, TailType
  <2> DEFINE called == Returned(h, "ok")
             c == Head(h.waiters)
  <2>2. SpliceAndWrite(c, called, <<>>, pendingAdds, pendingDeletes)
    BY <1>1, <1>4
  <2> HIDE DEF called, c, h
  <2>3. /\ called \in [Calls -> CallUpTo(opCount)] /\ c \in Calls
        /\ \A d \in Calls : called[d].st \notin {"waiting", "own"}
    BY <1>2, <2>1 DEF called, c
  <2> QED
    BY <2>2, <2>3, SpliceCalls
<1> QED
  BY <1>3, <1>4 DEF JobSucceeds

\* Every step of every actor keeps the promises to the callers.
LEMMA CallerPreserved ==
  ASSUME CallerInv, [Next]_vars
  PROVE  (NoStrandedCall /\ NothingBehind /\ OwnersOwn)'
<1>1. /\ opCount \in Nat /\ pendingAdds \in Seq(OpUpTo(opCount))
      /\ pendingDeletes \in Seq(OpUpTo(opCount))
      /\ calls \in [Calls -> CallUpTo(opCount)] /\ txq \in Seq(JobUpTo(opCount))
  BY TypeParts DEF CallerInv, IInv, FlowInv, FlowType
<1>2. ASSUME NEW adds, NEW dels, PushThenFlush(adds, dels),
             Held(adds, dels) = Held(pendingAdds, pendingDeletes) \cup {opCount + 1}
      PROVE  (NoStrandedCall /\ NothingBehind /\ OwnersOwn)'
  <2>1. CASE UNCHANGED <<txq, calls>> /\ pendingAdds' = adds /\ pendingDeletes' = dels
    <3>1. ASSUME NEW c \in Calls, calls[c].st \in {"ok", "own"}, NEW n \in Held(adds, dels)
          PROVE  n > calls[c].upto
      <4>1. calls[c].upto \in 0..opCount
        BY <1>1 DEF CallUpTo
      <4>2. CASE n = opCount + 1
        BY <1>1, <4>1, <4>2
      <4>3. CASE n \in Held(pendingAdds, pendingDeletes)
        BY <3>1, <4>3 DEF CallerInv, NothingBehind
      <4> QED
        BY <1>2, <4>2, <4>3
    <3>2. NothingBehind'
      BY <2>1, <3>1 DEF NothingBehind
    <3> QED
      BY <2>1, <3>2 DEF CallerInv, NoStrandedCall, OwnersOwn
  <2>2. ASSUME NEW c \in Calls, StartFlush(c, adds, dels, opCount + 1)
        PROVE  (NoStrandedCall /\ NothingBehind /\ OwnersOwn)'
    BY <1>1, <1>2, <2>2, StartFlushCalls
  <2> QED
    BY <1>2, <2>1, <2>2 DEF PushThenFlush
<1>3. ASSUME NEW q \in Quads, AddQuad(q) \/ DeleteQuad(q)
      PROVE  (NoStrandedCall /\ NothingBehind /\ OwnersOwn)'
  <2>1. /\ Held(Append(pendingAdds, [q |-> q, n |-> opCount + 1]), pendingDeletes)
             = Held(pendingAdds, pendingDeletes) \cup {opCount + 1}
        /\ Held(pendingAdds, Append(pendingDeletes, [q |-> q, n |-> opCount + 1]))
             = Held(pendingAdds, pendingDeletes) \cup {opCount + 1}
    BY <1>1, OpsOfAppend DEF Held
  <2> QED
    BY <1>2, <1>3, <2>1 DEF AddQuad, DeleteQuad
<1>4. ASSUME NEW c \in Calls, Flush(c)
      PROVE  (NoStrandedCall /\ NothingBehind /\ OwnersOwn)'
  BY <1>1, <1>4, StartFlushCalls DEF Flush
<1>5. ASSUME UNCHANGED <<pendingAdds, pendingDeletes, calls>>,
             DOMAIN txq' = DOMAIN txq,
             \A j \in DOMAIN txq : /\ txq'[j].owner = txq[j].owner
                                   /\ txq'[j].waiters = txq[j].waiters
      PROVE  (NoStrandedCall /\ NothingBehind /\ OwnersOwn)'
  BY <1>5 DEF CallerInv, NoStrandedCall, NothingBehind, OwnersOwn
<1>6. ASSUME txq # <<>>, NEW k, txq' = [txq EXCEPT ![1] = k],
             k.owner = Head(txq).owner, k.waiters = Head(txq).waiters
      PROVE  /\ DOMAIN txq' = DOMAIN txq
             /\ \A j \in DOMAIN txq : /\ txq'[j].owner = txq[j].owner
                                      /\ txq'[j].waiters = txq[j].waiters
  <2>1. DOMAIN txq = {1} /\ txq[1] = Head(txq)
    BY <1>6, OneJob DEF CallerInv
  <2> QED
    BY <1>6, <2>1
<1>7. CASE AddStep
  <2> DEFINE k == [Head(txq) EXCEPT !.na = Head(txq).na + 1]
  <2>1. /\ txq # <<>> /\ txq' = [txq EXCEPT ![1].na = Head(txq).na + 1]
        /\ UNCHANGED <<pendingAdds, pendingDeletes, calls>>
    BY <1>7 DEF AddStep, buffer
  <2>2. txq[1] = Head(txq) /\ Head(txq) \in JobUpTo(opCount)
    BY <2>1, OneJob DEF CallerInv
  <2>3. txq' = [txq EXCEPT ![1] = k]
    BY <2>1, <2>2
  <2>4. k.owner = Head(txq).owner /\ k.waiters = Head(txq).waiters
    BY <2>2 DEF JobUpTo
  <2> HIDE DEF k
  <2> QED
    BY <1>5, <1>6, <2>1, <2>3, <2>4
<1>8. CASE DeleteStep \/ SkipDelete
  <2> DEFINE k == [Head(txq) EXCEPT !.nd = @ + 1]
  <2>1. /\ txq # <<>> /\ AdvanceDelete /\ UNCHANGED <<pendingAdds, pendingDeletes, calls>>
    BY <1>8 DEF DeleteStep, SkipDelete, Deleting, buffer
  <2>2. txq[1] = Head(txq) /\ Head(txq) \in JobUpTo(opCount)
    BY <2>1, OneJob DEF CallerInv
  <2>3. txq' = [txq EXCEPT ![1] = k]
    BY <2>1, <2>2 DEF AdvanceDelete
  <2>4. k.owner = Head(txq).owner /\ k.waiters = Head(txq).waiters
    BY <2>2 DEF JobUpTo
  <2> HIDE DEF k
  <2> QED
    BY <1>5, <1>6, <2>1, <2>3, <2>4
<1>9. CASE AutoCommit
  <2> DEFINE k == [Head(txq) EXCEPT !.live = FALSE]
  <2>1. /\ txq # <<>> /\ txq' = [txq EXCEPT ![1].live = FALSE]
        /\ UNCHANGED <<pendingAdds, pendingDeletes, calls>>
    BY <1>9 DEF AutoCommit, Deleting, buffer
  <2>2. txq[1] = Head(txq) /\ Head(txq) \in JobUpTo(opCount)
    BY <2>1, OneJob DEF CallerInv
  <2>3. txq' = [txq EXCEPT ![1] = k]
    BY <2>1, <2>2
  <2>4. k.owner = Head(txq).owner /\ k.waiters = Head(txq).waiters
    BY <2>2 DEF JobUpTo
  <2> HIDE DEF k
  <2> QED
    BY <1>5, <1>6, <2>1, <2>3, <2>4
<1>10. CASE AddClashes \/ DeleteTooLate \/ Abort
  BY <1>10, FailCalls DEF AddClashes, DeleteTooLate, Abort, Deleting
<1>11. CASE Commit
  BY <1>11, SucceedCalls DEF Commit
<1>12. CASE Reopen \/ Crash
  <2>1. /\ pendingAdds' = <<>> /\ pendingDeletes' = <<>> /\ txq' = <<>>
        /\ calls' = [c \in Calls |-> IdleCall]
    BY <1>12 DEF Reopen, Crash, NewSession
  <2>2. \A c \in Calls : calls'[c].st = "idle"
    BY <2>1 DEF IdleCall
  <2> QED
    BY <2>1, <2>2 DEF NoStrandedCall, NothingBehind, OwnersOwn
<1>13. CASE Close \/ UNCHANGED vars
  BY <1>5, <1>13 DEF Close, vars, buffer
<1>14. ASSUME NEW t \in Terms, Lookup(t)
       PROVE  (NoStrandedCall /\ NothingBehind /\ OwnersOwn)'
  BY <1>5, <1>14 DEF Lookup, buffer
<1> QED
  BY <1>3, <1>4, <1>7, <1>8, <1>9, <1>10, <1>11, <1>12, <1>13, <1>14
     DEF Next, JobStep, Tick

\* The three promises hold in every reachable state.
LEMMA CallerInvariant == SafetySpec => []CallerInv
<1>1. Init => CallerInv
  <2> SUFFICES ASSUME Init PROVE CallerInv
    OBVIOUS
  <2>1. txq = <<>> /\ \A c \in Calls : calls[c].st = "idle"
    BY DEF Init, IdleCall
  <2> QED
    BY <2>1, InitIInv DEF CallerInv, NoStrandedCall, NothingBehind, OwnersOwn
<1>2. CallerInv /\ [Next]_vars => CallerInv'
  BY NextIInv, CallerPreserved DEF CallerInv
<1> QED
  BY <1>1, <1>2, PTL DEF SafetySpec

\* Every caller of flush() that has no answer yet is registered with the job that
\* will answer it, whichever way that job ends.
THEOREM NobodyIsStranded == SafetySpec => []NoStrandedCall
<1>1. CallerInv => NoStrandedCall
  BY DEF CallerInv
<1> QED
  BY <1>1, CallerInvariant, PTL

\* When flush() succeeds, what was queued before it was called has left the buffer,
\* although other calls, the timer and the threshold splice the same buffer.
THEOREM FlushEmptiesBuffer == SafetySpec => []NothingLeftBuffered
<1>1. CallerInv => NothingLeftBuffered
  BY DEF CallerInv, NothingBehind, NothingLeftBuffered, Held, Ops
<1> QED
  BY <1>1, CallerInvariant, PTL
==============================================================================
