------------------------------ MODULE RestProofs ------------------------------
(***************************************************************************)
(* Proofs about writes through the REST store, for any number of calls,    *)
(* retries and faults.                                                     *)
(***************************************************************************)
EXTENDS RestWrites, FiniteSetTheorems, TLAPS

-----------------------------------------------------------------------------
(***************************************************************************)
(* The inductive invariant.                                                *)
(***************************************************************************)
CallType ==
  [op : Ops, try : 0..Limit, st : {"open", "ok", "failed", "refused"}, loose : BOOLEAN,
   after : SUBSET Numbers, applied : Nat, seen : SUBSET Numbers]

AttemptType == {at \in (1..Len(calls)) \X (0..Limit) : at[2] <= calls[at[1]].try}

Types ==
  /\ doc \in Docs
  /\ calls \in Seq(CallType) /\ Len(calls) <= MaxCalls
  /\ requests \subseteq AttemptType
  /\ running \subseteq [at : AttemptType, saved : BOOLEAN, read : Numbers]
  /\ faults \in 0..MaxFaults

\* An attempt is in one place, and its call waits for it or has lost sight of one.
AttemptsInv ==
  /\ \A at \in requests : Waits(at) \/ calls[at[1]].loose
  /\ \A x \in running : Waits(x.at) \/ calls[x.at[1]].loose
  /\ \A x \in running : x.at \notin requests
  /\ \A x, y \in running : x.at = y.at => x = y

\* The attempts of n that may still take effect, and what their number bounds.
Pending(n) ==
  {t \in 0..Limit : \/ <<n, t>> \in requests
                    \/ \E x \in running : x.at = <<n, t>> /\ ~x.saved}

EffectsInv ==
  \A n \in DOMAIN calls :
    /\ calls[n].applied + Cardinality(Pending(n)) <= calls[n].try + 1
    /\ calls[n].loose => calls[n].try > 0 \/ calls[n].st = "failed"
    /\ calls[n].st = "ok" => calls[n].applied > 0

\* What an attempt has read was stored while its call could know of it, or is nothing.
ReadsInv ==
  /\ \A n \in DOMAIN calls : Open(n) \/ calls[n].loose => Rest(calls[n].op, doc) \in calls[n].seen
  /\ \A x \in running : IF x.saved THEN calls[x.at[1]].applied > 0
                        ELSE x.read \in calls[x.at[1]].seen \cup {Absent}

\* The document was written last by a call that had not returned when n was made, or
\* that has lost sight of an attempt.
Recent(n) == doc.by # 0 /\ (doc.by \notin calls[n].after \/ calls[doc.by].loose)

OrderInv ==
  /\ doc.by \in DOMAIN calls \/ doc = NoDoc
  /\ \A n \in DOMAIN calls : \A k \in calls[n].after : k \in DOMAIN calls /\ k # n /\ ~Open(k)
  /\ \A n \in DOMAIN calls : calls[n].applied > 0 => Recent(n)
  /\ \A x \in running : ~x.saved => x.read \in Found(calls[x.at[1]].op) \/ Recent(x.at[1])

IInv == Types /\ AttemptsInv /\ EffectsInv /\ ReadsInv /\ OrderInv
-----------------------------------------------------------------------------
(***************************************************************************)
(* Steps that settle an attempt: they leave the document alone, start no   *)
(* attempt but the next one of a call, and end no call that is waited for. *)
(***************************************************************************)
NoneLeft(n, sent) == (\A at \in sent : at[1] # n) /\ \A x \in running' : x.at[1] # n

Settling == UNCHANGED doc /\ running' \subseteq running /\ faults' \in 0..MaxFaults

Ignored == Settling /\ UNCHANGED calls /\ requests' \subseteq requests

Repeated(n, sent, loose) ==
  /\ Settling
  /\ n \in DOMAIN calls /\ Open(n) /\ calls[n].try < Limit
  /\ sent \subseteq requests
  /\ loose \/ NoneLeft(n, sent)
  /\ calls[n].loose => loose
  /\ calls' = [calls EXCEPT ![n] = [calls[n] EXCEPT !.try = calls[n].try + 1, !.loose = loose]]
  /\ requests' = sent \cup {<<n, calls[n].try + 1>>}

Ended(n, st, loose) ==
  /\ Settling
  /\ n \in DOMAIN calls /\ Open(n)
  /\ requests' \subseteq requests
  /\ loose \/ NoneLeft(n, requests')
  /\ calls[n].loose => loose
  /\ (loose /\ ~calls[n].loose) => st = "failed"
  /\ st \in {"ok", "failed", "refused"}
  /\ st = "ok" => calls[n].applied > 0
  /\ calls' = [calls EXCEPT ![n] = [calls[n] EXCEPT !.st = st, !.loose = loose,
                                    !.seen = IF loose THEN calls[n].seen ELSE {}]]

Settle ==
  \/ Ignored
  \/ \E n \in DOMAIN calls, sent \in SUBSET requests, loose \in BOOLEAN : Repeated(n, sent, loose)
  \/ \E n \in DOMAIN calls, st \in {"ok", "failed", "refused"}, loose \in BOOLEAN : Ended(n, st, loose)
-----------------------------------------------------------------------------
(***************************************************************************)
(* Facts about single steps.                                               *)
(***************************************************************************)
\* Replacing one call keeps the others.
LEMMA ReplaceCall ==
  ASSUME calls \in Seq(CallType), NEW n \in DOMAIN calls, NEW c \in CallType,
         calls' = [calls EXCEPT ![n] = c]
  PROVE  /\ calls' \in Seq(CallType) /\ Len(calls') = Len(calls)
         /\ DOMAIN calls = 1..Len(calls) /\ DOMAIN calls' = DOMAIN calls
         /\ calls'[n] = c
         /\ \A m \in DOMAIN calls \ {n} : calls'[m] = calls[m]
OBVIOUS

\* What is known of each call.
LEMMA TypedCall ==
  ASSUME Types, NEW n \in DOMAIN calls
  PROVE  /\ calls[n] \in CallType
         /\ calls[n].op \in Ops /\ calls[n].try \in 0..Limit /\ calls[n].try \in Nat
         /\ calls[n].st \in {"open", "ok", "failed", "refused"}
         /\ calls[n].loose \in BOOLEAN
         /\ calls[n].after \subseteq Numbers /\ calls[n].seen \subseteq Numbers
         /\ calls[n].applied \in Nat
         /\ DOMAIN calls = 1..Len(calls)
<1>1. calls \in Seq(CallType)
  BY DEF Types
<1>2. calls[n] \in CallType /\ DOMAIN calls = 1..Len(calls)
  BY <1>1
<1> QED
  BY <1>2, LimitAssumption DEF CallType

\* The pending attempts of a call are a finite set.
LEMMA PendingIsFinite ==
  ASSUME Types, NEW n
  PROVE  IsFiniteSet(Pending(n)) /\ Cardinality(Pending(n)) \in Nat
<1>1. IsFiniteSet(0..Limit)
  BY LimitAssumption, FS_Interval
<1>2. Pending(n) \in SUBSET (0..Limit)
  BY DEF Pending
<1> QED
  BY <1>1, <1>2, FS_Subset, FS_CardinalityType

LEMMA PendingIsFiniteAfter ==
  ASSUME Types', NEW n
  PROVE  IsFiniteSet(Pending(n)') /\ Cardinality(Pending(n)') \in Nat
<1>1. IsFiniteSet(0..Limit)
  BY LimitAssumption, FS_Interval
<1>2. Pending(n)' \in SUBSET (0..Limit)
  BY DEF Pending
<1> QED
  BY <1>1, <1>2, FS_Subset, FS_CardinalityType

\* Attempts that are only taken away leave no more of them pending.
LEMMA PendingShrinks ==
  ASSUME Types, NEW n, requests' \subseteq requests, running' \subseteq running
  PROVE  Cardinality(Pending(n)') <= Cardinality(Pending(n)) /\ Cardinality(Pending(n)') \in Nat
<1>1. Pending(n)' \in SUBSET Pending(n)
  BY DEF Pending
<1> QED
  BY <1>1, PendingIsFinite, FS_Subset, FS_CardinalityType
-----------------------------------------------------------------------------
(***************************************************************************)
(* Settling steps preserve the invariant.                                  *)
(***************************************************************************)
LEMMA IgnoredPreserves ==
  ASSUME IInv, Ignored
  PROVE  IInv'
<1>1. Types'
  BY DEF IInv, Types, Ignored, Settling, AttemptType
<1>2. AttemptsInv'
  BY DEF IInv, AttemptsInv, Ignored, Settling, Waits, Open, Latest
<1>3. EffectsInv'
  <2> SUFFICES ASSUME NEW n \in DOMAIN calls
               PROVE  /\ calls[n].applied + Cardinality(Pending(n)') <= calls[n].try + 1
                      /\ calls[n].loose => calls[n].try > 0 \/ calls[n].st = "failed"
                      /\ calls[n].st = "ok" => calls[n].applied > 0
    BY DEF EffectsInv, Ignored
  <2>1. Cardinality(Pending(n)') <= Cardinality(Pending(n)) /\ Cardinality(Pending(n)') \in Nat
    BY PendingShrinks DEF Ignored, Settling, IInv
  <2>2. Cardinality(Pending(n)) \in Nat
    BY PendingIsFinite DEF IInv
  <2>3. calls[n].applied \in Nat /\ calls[n].try \in Nat
    BY TypedCall DEF IInv
  <2>4. calls[n].applied + Cardinality(Pending(n)) <= calls[n].try + 1
    BY DEF IInv, EffectsInv
  <2>5. calls[n].applied + Cardinality(Pending(n)') <= calls[n].try + 1
    BY <2>1, <2>2, <2>3, <2>4
  <2> QED
    BY <2>5 DEF IInv, EffectsInv
<1>4. ReadsInv' /\ OrderInv'
  BY DEF IInv, ReadsInv, OrderInv, Found, Recent, Ignored, Settling, Open
<1> QED
  BY <1>1, <1>2, <1>3, <1>4 DEF IInv

LEMMA RepeatedPreserves ==
  ASSUME IInv, NEW n \in DOMAIN calls, NEW sent \in SUBSET requests, NEW loose \in BOOLEAN,
         Repeated(n, sent, loose)
  PROVE  IInv'
<1> DEFINE c == [calls[n] EXCEPT !.try = calls[n].try + 1, !.loose = loose]
<1>1. calls[n] \in CallType /\ calls[n].try \in 0..Limit /\ Limit \in Nat
  BY LimitAssumption, TypedCall DEF IInv
<1>2. /\ c \in CallType
      /\ c.try = calls[n].try + 1 /\ c.loose = loose /\ c.op = calls[n].op
      /\ c.st = calls[n].st /\ c.after = calls[n].after
      /\ c.applied = calls[n].applied /\ c.seen = calls[n].seen
  <2>1. calls[n].try + 1 \in 0..Limit
    BY <1>1 DEF Repeated
  <2> QED
    BY <1>1, <2>1 DEF CallType
<1>3. calls' = [calls EXCEPT ![n] = c]
  BY DEF Repeated
<1> HIDE DEF c
<1>4. /\ calls' \in Seq(CallType) /\ Len(calls') = Len(calls)
      /\ DOMAIN calls = 1..Len(calls) /\ DOMAIN calls' = DOMAIN calls
      /\ calls'[n] = c
      /\ \A m \in DOMAIN calls \ {n} : calls'[m] = calls[m]
  BY <1>2, <1>3, ReplaceCall DEF IInv, Types
<1>5. \A m \in DOMAIN calls :
        /\ calls'[m].op = calls[m].op /\ calls'[m].st = calls[m].st
        /\ calls'[m].after = calls[m].after /\ calls'[m].applied = calls[m].applied
        /\ calls'[m].seen = calls[m].seen
        /\ calls[m].loose => calls'[m].loose
        /\ calls[m].try <= calls'[m].try
        /\ calls'[m].loose => calls[m].loose \/ m = n
        /\ calls[m].try \in Nat /\ calls'[m].try \in Nat
  <2>1. \A m \in DOMAIN calls : calls[m] \in CallType
    BY <1>4 DEF IInv, Types
  <2> QED
    BY <1>1, <1>2, <1>4, <2>1 DEF Repeated, CallType
<1>6. /\ requests' = sent \cup {<<n, calls[n].try + 1>>} /\ sent \subseteq requests
      /\ running' \subseteq running /\ doc' = doc /\ faults' \in 0..MaxFaults
      /\ Open(n) /\ calls[n].try < Limit /\ (loose \/ NoneLeft(n, sent))
      /\ calls[n].loose => loose
  BY DEF Repeated, Settling
<1>7. AttemptType \subseteq AttemptType'
  BY <1>4, <1>5 DEF AttemptType
<1>8. <<n, calls[n].try + 1>> \in AttemptType'
  BY <1>1, <1>2, <1>4, <1>6 DEF AttemptType
<1>9. Types'
  <2>1. requests' \subseteq AttemptType'
    BY <1>6, <1>7, <1>8 DEF IInv, Types
  <2>2. running' \subseteq [at : AttemptType', saved : BOOLEAN, read : Numbers]
    BY <1>6, <1>7 DEF IInv, Types
  <2> QED
    BY <1>4, <1>6, <2>1, <2>2 DEF IInv, Types
<1>10. \A x \in running : x.at \in AttemptType
  BY DEF IInv, Types
<1>11. \A at \in AttemptType : at[2] <= calls[at[1]].try /\ at[1] \in DOMAIN calls
  BY <1>4 DEF AttemptType
<1>12. AttemptsInv'
  <2>1. ASSUME NEW at \in AttemptType, Waits(at) \/ calls[at[1]].loose, at[1] # n \/ loose
        PROVE  Waits(at)' \/ calls'[at[1]].loose
    BY <1>2, <1>4, <1>5, <1>11, <2>1 DEF Waits, Open, Latest
  <2>2. \A at \in requests' : Waits(at)' \/ calls'[at[1]].loose
    <3>1. \A at : at = <<n, calls[n].try + 1>> => Waits(at)'
      BY <1>2, <1>4, <1>6 DEF Waits, Open, Latest
    <3>2. \A at \in sent : Waits(at)' \/ calls'[at[1]].loose
      BY <1>6, <2>1 DEF NoneLeft, IInv, AttemptsInv, Types
    <3> QED
      BY <1>6, <3>1, <3>2
  <2>3. \A x \in running' : Waits(x.at)' \/ calls'[x.at[1]].loose
    BY <1>6, <1>10, <2>1 DEF NoneLeft, IInv, AttemptsInv
  <2>4. \A x \in running' : x.at \notin requests'
    <3>1. \A x \in running : x.at # <<n, calls[n].try + 1>>
      BY <1>1, <1>10, <1>11
    <3> QED
      BY <1>6, <3>1 DEF IInv, AttemptsInv
  <2> QED
    BY <1>6, <2>2, <2>3, <2>4 DEF IInv, AttemptsInv
<1>13. EffectsInv'
  <2> SUFFICES ASSUME NEW m \in DOMAIN calls
               PROVE  /\ calls[m].applied + Cardinality(Pending(m)') <= calls'[m].try + 1
                      /\ calls'[m].loose => calls'[m].try > 0 \/ calls[m].st = "failed"
                      /\ calls[m].st = "ok" => calls[m].applied > 0
    BY <1>4, <1>5 DEF EffectsInv
  <2>1. /\ calls[m].applied + Cardinality(Pending(m)) <= calls[m].try + 1
        /\ calls[m].loose => calls[m].try > 0 \/ calls[m].st = "failed"
        /\ calls[m].st = "ok" => calls[m].applied > 0
    BY DEF IInv, EffectsInv
  <2>2. IsFiniteSet(Pending(m)) /\ Cardinality(Pending(m)) \in Nat
    BY PendingIsFinite DEF IInv
  <2>3. calls[m].applied \in Nat /\ calls[m].try \in Nat
    BY TypedCall DEF IInv
  <2>4. Cardinality(Pending(m)') \in Nat
    BY <1>9, PendingIsFiniteAfter
  <2>5. CASE m = n
    <3>1. Pending(n)' \in SUBSET (Pending(n) \cup {calls[n].try + 1})
      BY <1>1, <1>6 DEF Pending
    <3>2. Cardinality(Pending(n)') <= Cardinality(Pending(n) \cup {calls[n].try + 1})
      BY <2>2, <2>5, <3>1, FS_AddElement, FS_Subset
    <3>3. Cardinality(Pending(n) \cup {calls[n].try + 1}) <= Cardinality(Pending(n)) + 1
      <4>1. IsFiniteSet(Pending(n)) /\ Cardinality(Pending(n)) \in Nat
        BY <2>2, <2>5
      <4>2. Cardinality(Pending(n) \cup {calls[n].try + 1}) =
              IF calls[n].try + 1 \in Pending(n) THEN Cardinality(Pending(n))
              ELSE Cardinality(Pending(n)) + 1
        BY <4>1, FS_AddElement, Zenon
      <4> QED
        BY <4>1, <4>2
    <3>4. Cardinality(Pending(n) \cup {calls[n].try + 1}) \in Nat
      BY <2>2, <2>5, FS_AddElement, FS_CardinalityType
    <3>5. calls'[n].try = calls[n].try + 1
      BY <1>2, <1>4
    <3> QED
      BY <2>1, <2>2, <2>3, <2>4, <2>5, <3>2, <3>3, <3>4, <3>5
  <2>6. CASE m # n
    <3>1. Pending(m)' \in SUBSET Pending(m)
      BY <1>6, <2>6 DEF Pending
    <3>2. Cardinality(Pending(m)') <= Cardinality(Pending(m))
      BY <2>2, <3>1, FS_Subset
    <3>3. calls'[m] = calls[m]
      BY <1>4, <2>6
    <3> QED
      BY <2>1, <2>2, <2>3, <2>4, <3>2, <3>3
  <2> QED
    BY <2>5, <2>6
<1>14. ReadsInv'
  <2>1. \A m \in DOMAIN calls : Open(m)' \/ calls'[m].loose => Rest(calls[m].op, doc) \in calls[m].seen
    BY <1>5, <1>6 DEF IInv, ReadsInv, Open
  <2>2. \A x \in running : x.at[1] \in DOMAIN calls
    BY <1>10, <1>11
  <2> QED
    BY <1>4, <1>5, <1>6, <2>1, <2>2 DEF IInv, ReadsInv
<1>15. OrderInv'
  <2>1. \A x \in running : x.at[1] \in DOMAIN calls
    BY <1>10, <1>11
  <2>2. doc = NoDoc => doc.by = 0
    BY DEF NoDoc
  <2>3. \A m \in DOMAIN calls : Recent(m) => Recent(m)'
    BY <1>4, <1>5, <1>6, <2>2 DEF Recent, IInv, OrderInv
  <2> QED
    BY <1>4, <1>5, <1>6, <2>1, <2>3 DEF IInv, OrderInv, Found, Open
<1> QED
  BY <1>9, <1>12, <1>13, <1>14, <1>15 DEF IInv

LEMMA EndedPreserves ==
  ASSUME IInv, NEW n \in DOMAIN calls, NEW st \in {"ok", "failed", "refused"},
         NEW loose \in BOOLEAN, Ended(n, st, loose)
  PROVE  IInv'
<1> DEFINE c == [calls[n] EXCEPT !.st = st, !.loose = loose,
                                 !.seen = IF loose THEN calls[n].seen ELSE {}]
<1>1. calls[n] \in CallType
  BY TypedCall DEF IInv
<1>2. /\ c \in CallType
      /\ c.try = calls[n].try /\ c.loose = loose /\ c.op = calls[n].op /\ c.st = st
      /\ c.after = calls[n].after /\ c.applied = calls[n].applied
      /\ c.seen = IF loose THEN calls[n].seen ELSE {}
  BY <1>1 DEF CallType
<1>3. calls' = [calls EXCEPT ![n] = c]
  BY DEF Ended
<1> HIDE DEF c
<1>4. /\ calls' \in Seq(CallType) /\ Len(calls') = Len(calls)
      /\ DOMAIN calls = 1..Len(calls) /\ DOMAIN calls' = DOMAIN calls
      /\ calls'[n] = c
      /\ \A m \in DOMAIN calls \ {n} : calls'[m] = calls[m]
  BY <1>2, <1>3, ReplaceCall DEF IInv, Types
<1>5. \A m \in DOMAIN calls :
        /\ calls'[m].op = calls[m].op /\ calls'[m].try = calls[m].try
        /\ calls'[m].after = calls[m].after /\ calls'[m].applied = calls[m].applied
        /\ calls[m].loose => calls'[m].loose /\ calls'[m].seen = calls[m].seen
        /\ m # n => calls'[m] = calls[m]
        /\ Open(m)' => Open(m) /\ m # n
  BY <1>2, <1>4 DEF Ended, Open
<1>6. /\ requests' \subseteq requests /\ running' \subseteq running
      /\ doc' = doc /\ faults' \in 0..MaxFaults
      /\ Open(n) /\ (loose \/ NoneLeft(n, requests'))
      /\ calls[n].loose => loose
      /\ (loose /\ ~calls[n].loose) => st = "failed"
      /\ st = "ok" => calls[n].applied > 0
  BY DEF Ended, Settling
<1>7. AttemptType' = AttemptType
  BY <1>4, <1>5 DEF AttemptType
<1>8. \A at \in AttemptType : at[1] \in DOMAIN calls
  BY <1>4 DEF AttemptType
<1>9. \A x \in running : x.at \in AttemptType
  BY DEF IInv, Types
<1>10. Types'
  BY <1>4, <1>6, <1>7 DEF IInv, Types
<1>11. AttemptsInv'
  <2>1. ASSUME NEW at \in AttemptType, Waits(at) \/ calls[at[1]].loose, at[1] # n \/ loose
        PROVE  Waits(at)' \/ calls'[at[1]].loose
    BY <1>2, <1>4, <1>5, <1>8, <2>1 DEF Waits, Open, Latest
  <2>2. \A at \in requests' : Waits(at)' \/ calls'[at[1]].loose
    BY <1>6, <2>1 DEF NoneLeft, IInv, AttemptsInv, Types
  <2>3. \A x \in running' : Waits(x.at)' \/ calls'[x.at[1]].loose
    BY <1>6, <1>9, <2>1 DEF NoneLeft, IInv, AttemptsInv
  <2> QED
    BY <1>6, <2>2, <2>3 DEF IInv, AttemptsInv
<1>12. EffectsInv'
  <2> SUFFICES ASSUME NEW m \in DOMAIN calls
               PROVE  /\ calls[m].applied + Cardinality(Pending(m)') <= calls[m].try + 1
                      /\ calls'[m].loose => calls[m].try > 0 \/ calls'[m].st = "failed"
                      /\ calls'[m].st = "ok" => calls[m].applied > 0
    BY <1>4, <1>5 DEF EffectsInv
  <2>1. /\ calls[m].applied + Cardinality(Pending(m)) <= calls[m].try + 1
        /\ calls[m].loose => calls[m].try > 0 \/ calls[m].st = "failed"
        /\ calls[m].st = "ok" => calls[m].applied > 0
    BY DEF IInv, EffectsInv
  <2>2. Cardinality(Pending(m)') <= Cardinality(Pending(m)) /\ Cardinality(Pending(m)') \in Nat
    BY <1>6, PendingShrinks DEF IInv
  <2>3. Cardinality(Pending(m)) \in Nat
    BY PendingIsFinite DEF IInv
  <2>4. calls[m].applied \in Nat /\ calls[m].try \in Nat
    BY TypedCall DEF IInv
  <2>5. calls[m].applied + Cardinality(Pending(m)') <= calls[m].try + 1
    BY <2>1, <2>2, <2>3, <2>4
  <2>6. /\ calls'[m].loose => calls[m].try > 0 \/ calls'[m].st = "failed"
        /\ calls'[m].st = "ok" => calls[m].applied > 0
    BY <1>2, <1>4, <1>5, <1>6, <2>1 DEF Open
  <2> QED
    BY <2>5, <2>6
<1>13. ReadsInv'
  <2>1. \A m \in DOMAIN calls : Open(m)' \/ calls'[m].loose => Rest(calls[m].op, doc) \in calls'[m].seen
    <3> SUFFICES ASSUME NEW m \in DOMAIN calls, Open(m)' \/ calls'[m].loose
                 PROVE  Rest(calls[m].op, doc) \in calls'[m].seen
      OBVIOUS
    <3>1. Open(m) \/ calls[m].loose
      BY <1>5, <1>6
    <3>2. Rest(calls[m].op, doc) \in calls[m].seen
      BY <3>1 DEF IInv, ReadsInv
    <3>3. calls'[m].seen = calls[m].seen
      BY <1>2, <1>4, <1>5
    <3> QED
      BY <3>2, <3>3
  <2>2. \A x \in running' : x.at[1] # n \/ loose
    BY <1>6 DEF NoneLeft
  <2>3. \A x \in running' : calls'[x.at[1]].seen = calls[x.at[1]].seen
    BY <1>2, <1>4, <1>5, <1>6, <1>8, <1>9, <2>2
  <2> QED
    BY <1>4, <1>5, <1>6, <1>8, <1>9, <2>1, <2>3 DEF IInv, ReadsInv
<1>14. OrderInv'
  <2>1. \A x \in running : x.at[1] \in DOMAIN calls
    BY <1>8, <1>9
  <2>2. doc = NoDoc => doc.by = 0
    BY DEF NoDoc
  <2>3. \A m \in DOMAIN calls : Recent(m) => Recent(m)'
    BY <1>4, <1>5, <1>6, <2>2 DEF Recent, IInv, OrderInv
  <2> QED
    BY <1>4, <1>5, <1>6, <2>1, <2>3 DEF IInv, OrderInv, Found
<1> QED
  BY <1>10, <1>11, <1>12, <1>13, <1>14 DEF IInv
-----------------------------------------------------------------------------
(***************************************************************************)
(* What an answer, a lost connection and a time-out come to.               *)
(***************************************************************************)
\* A call that returns: the fields that change.
LEMMA ReturnedCall ==
  ASSUME NEW call \in CallType, NEW st, NEW loose \in BOOLEAN
  PROVE  /\ Returned(call, st) = [call EXCEPT !.st = st, !.loose = call.loose,
                                              !.seen = IF call.loose THEN call.seen ELSE {}]
         /\ Returned([call EXCEPT !.loose = loose], st) =
              [call EXCEPT !.st = st, !.loose = loose, !.seen = IF loose THEN call.seen ELSE {}]
BY DEF Returned, CallType

LEMMA RetryOrFailForms ==
  ASSUME IInv, NEW n \in DOMAIN calls, NEW sent \in SUBSET requests, NEW loose \in BOOLEAN,
         Open(n), Settling, loose \/ NoneLeft(n, sent), calls[n].loose => loose,
         RetryOrFail(n, sent, loose)
  PROVE  Repeated(n, sent, loose) \/ Ended(n, "failed", loose)
<1>1. calls[n] \in CallType /\ calls[n].try \in 0..Limit
  BY TypedCall DEF IInv
<1>2. CASE calls[n].try < Limit /\ calls' = [calls EXCEPT ![n].try = @ + 1, ![n].loose = loose]
           /\ requests' = sent \cup {<<n, calls[n].try + 1>>}
  <2>1. calls' = [calls EXCEPT ![n] = [calls[n] EXCEPT !.try = calls[n].try + 1, !.loose = loose]]
    BY <1>1, <1>2 DEF CallType
  <2> QED
    BY <1>2, <2>1 DEF Repeated
<1>3. CASE /\ calls' = [calls EXCEPT ![n] = Returned([@ EXCEPT !.loose = loose], "failed")]
           /\ requests' = sent
  <2>1. calls' = [calls EXCEPT ![n] = [calls[n] EXCEPT !.st = "failed", !.loose = loose,
                                         !.seen = IF loose THEN calls[n].seen ELSE {}]]
    <3>1. calls' = [calls EXCEPT ![n] = Returned([calls[n] EXCEPT !.loose = loose], "failed")]
      BY <1>3
    <3>2. Returned([calls[n] EXCEPT !.loose = loose], "failed") =
            [calls[n] EXCEPT !.st = "failed", !.loose = loose,
                             !.seen = IF loose THEN calls[n].seen ELSE {}]
      BY <1>1 DEF Returned, CallType
    <3> QED
      BY <3>1, <3>2
  <2> QED
    BY <1>3, <2>1 DEF Ended
<1> QED
  BY <1>2, <1>3 DEF RetryOrFail

\* An attempt that has been neither refused nor carried out bounds the effects of its call.
LEMMA PendingBounds ==
  ASSUME IInv, NEW n \in DOMAIN calls, NEW t \in Pending(n)
  PROVE  calls[n].applied <= calls[n].try
<1>1. IsFiniteSet(Pending(n)) /\ Cardinality(Pending(n)) \in Nat
  BY PendingIsFinite DEF IInv
<1>2. Cardinality(Pending(n)) # 0
  BY <1>1, FS_EmptySet
<1>3. calls[n].applied + Cardinality(Pending(n)) <= calls[n].try + 1
  BY DEF IInv, EffectsInv
<1>4. calls[n].applied \in Nat /\ calls[n].try \in Nat
  BY TypedCall DEF IInv
<1> QED
  BY <1>1, <1>2, <1>3, <1>4

LEMMA AnsweredForms ==
  ASSUME IInv, NEW at \in AttemptType, NEW status \in {"ok", "refused", "again"},
         NEW sent \in SUBSET requests, Settling, Answered(at, status, sent),
         at \notin sent, \A x \in running' : x.at # at,
         status = "ok" => calls[at[1]].applied > 0
  PROVE  Settle
<1> DEFINE n == at[1]
<1>1. n \in DOMAIN calls /\ DOMAIN calls = 1..Len(calls)
  BY DEF IInv, Types, AttemptType
<1>2. calls[n] \in CallType /\ calls[n].loose \in BOOLEAN
  BY <1>1, TypedCall DEF IInv
<1>3. CASE ~Waits(at)
  BY <1>3 DEF Answered, Settle, Ignored
<1>4. CASE Waits(at)
  <2>1. Open(n) /\ at = Latest(n)
    BY <1>4 DEF Waits
  <2>2. calls[n].loose \/ NoneLeft(n, sent)
    <3> SUFFICES ASSUME ~calls[n].loose PROVE NoneLeft(n, sent)
      OBVIOUS
    <3>1. \A other \in sent : other[1] # n
      BY <2>1 DEF IInv, AttemptsInv, Waits
    <3>2. \A x \in running' : x.at[1] # n
      BY <2>1 DEF IInv, AttemptsInv, Waits, Settling
    <3> QED
      BY <3>1, <3>2 DEF NoneLeft
  <2>3. CASE status = "again"
    <3>1. RetryOrFail(n, sent, calls[n].loose)
      BY <1>4, <2>3 DEF Answered
    <3>2. Repeated(n, sent, calls[n].loose) \/ Ended(n, "failed", calls[n].loose)
      BY <1>1, <1>2, <2>1, <2>2, <3>1, RetryOrFailForms
    <3> QED
      BY <1>1, <1>2, <3>2 DEF Settle
  <2>4. CASE status # "again"
    <3>1. calls' = [calls EXCEPT ![n] = Returned(@, status)] /\ requests' = sent
      BY <1>4, <2>4 DEF Answered
    <3>2. calls' = [calls EXCEPT ![n] = [calls[n] EXCEPT !.st = status, !.loose = calls[n].loose,
                                           !.seen = IF calls[n].loose THEN calls[n].seen ELSE {}]]
      BY <1>1, <1>2, <3>1, ReturnedCall
    <3>4. Ended(n, status, calls[n].loose)
      BY <1>1, <2>1, <2>2, <2>4, <3>1, <3>2 DEF Ended
    <3> QED
      BY <1>1, <1>2, <2>4, <3>4 DEF Settle
  <2> QED
    BY <2>3, <2>4
<1> QED
  BY <1>3, <1>4

LEMMA AttemptIsPair ==
  ASSUME Types, NEW at \in AttemptType
  PROVE  /\ at = <<at[1], at[2]>> /\ at[1] \in DOMAIN calls /\ at[2] \in 0..Limit
         /\ at[2] <= calls[at[1]].try
BY DEF Types, AttemptType

LEMMA RefuseForms ==
  ASSUME IInv, NEW at, Refuse(at)
  PROVE  Settle
<1>1. at \in AttemptType /\ at \in requests
  BY DEF IInv, Types, Refuse
<1>2. Settling
  BY DEF Refuse, Settling, IInv, Types
<1>4. \A x \in running' : x.at # at
  BY <1>1 DEF Refuse, IInv, AttemptsInv
<1>5. Answered(at, "refused", requests \ {at})
  BY DEF Refuse
<1> QED
  BY <1>1, <1>2, <1>4, <1>5, AnsweredForms

LEMMA AnswerForms ==
  ASSUME IInv, NEW x \in running, Answer(x) \/ Fail(x)
  PROVE  Settle
<1>1. x.at \in AttemptType
  BY DEF IInv, Types
<1>2. faults' \in 0..MaxFaults
  BY BoundsAssumption DEF Answer, Fail, Fault, IInv, Types
<1>3. Settling
  BY <1>2 DEF Answer, Fail, Settling
<1>4. x.at \notin requests /\ \A y \in running' : y.at # x.at
  BY DEF Answer, Fail, IInv, AttemptsInv
<1>5. \/ Answered(x.at, "again", requests) \/ Answered(x.at, "refused", requests)
      \/ x.saved /\ Answered(x.at, "ok", requests)
  BY DEF Answer, Fail, Errors
<1>6. x.saved => calls[x.at[1]].applied > 0
  BY DEF IInv, ReadsInv
<1> QED
  BY <1>1, <1>3, <1>4, <1>5, <1>6, AnsweredForms

LEMMA BreakForms ==
  ASSUME IInv, NEW n \in DOMAIN calls, Break(n) \/ Timeout(n)
  PROVE  Settle
<1>1. calls[n] \in CallType
  BY TypedCall DEF IInv
<1>2. faults' \in 0..MaxFaults /\ UNCHANGED <<doc, running>> /\ Open(n)
  <2>1. Lost(n)
    BY Zenon DEF Break, Timeout
  <2>2. faults \in 0..MaxFaults
    BY DEF IInv, Types
  <2> QED
    BY <2>1, <2>2, BoundsAssumption DEF Lost, Fault
<1>3. Settling
  BY <1>2 DEF Settling
<1>4. CASE Break(n)
  <2>1. PICK sent \in SUBSET requests : RetryOrFail(n, sent, TRUE)
    BY <1>4 DEF Break
  <2>2. Repeated(n, sent, TRUE) \/ Ended(n, "failed", TRUE)
    BY <1>2, <1>3, <2>1, RetryOrFailForms
  <2> QED
    BY <2>2 DEF Settle
<1>5. CASE Timeout(n)
  <2>1. calls' = [calls EXCEPT ![n] = Returned([calls[n] EXCEPT !.loose = TRUE], "failed")]
    BY <1>5 DEF Timeout
  <2>2. Returned([calls[n] EXCEPT !.loose = TRUE], "failed") =
          [calls[n] EXCEPT !.st = "failed", !.loose = TRUE,
                           !.seen = IF TRUE THEN calls[n].seen ELSE {}]
    BY <1>1 DEF Returned, CallType
  <2>3. Ended(n, "failed", TRUE)
    BY <1>2, <1>3, <1>5, <2>1, <2>2 DEF Ended, Timeout
  <2> QED
    BY <2>3 DEF Settle
<1> QED
  BY <1>4, <1>5

LEMMA SettlePreserves == IInv /\ Settle => IInv'
BY IgnoredPreserves, RepeatedPreserves, EndedPreserves DEF Settle

\* Every step of the system is one of four kinds.
LEMMA StepForms ==
  ASSUME IInv, Next
  PROVE  \/ \E op \in Ops : Invoke(op)
         \/ \E at \in requests : Accept(at)
         \/ \E x \in running : Save(x)
         \/ Settle
<1>1. ASSUME NEW n \in DOMAIN calls, Serve(n)
      PROVE  \/ \E at \in requests : Accept(at)
             \/ \E x \in running : Save(x)
             \/ Settle
  BY <1>1, RefuseForms, AnswerForms DEF Serve, Accept
<1> QED
  BY <1>1, BreakForms DEF Next
-----------------------------------------------------------------------------
(***************************************************************************)
(* A new call.                                                             *)
(***************************************************************************)
LEMMA InvokePreserves ==
  ASSUME IInv, NEW op \in Ops, Invoke(op)
  PROVE  IInv'
<1> DEFINE N == Len(calls) + 1
           new == [op |-> op, try |-> 0, st |-> "open", loose |-> FALSE,
                   after |-> {m \in DOMAIN calls : ~Open(m)}, applied |-> 0,
                   seen |-> {Rest(op, doc)}]
<1>1. /\ calls \in Seq(CallType) /\ Len(calls) \in Nat /\ DOMAIN calls = 1..Len(calls)
      /\ Len(calls) < MaxCalls /\ MaxCalls \in Nat /\ Limit \in Nat
  BY LimitAssumption, BoundsAssumption DEF IInv, Types, Invoke
<1>2. Rest(op, doc) \in Numbers
  BY <1>1 DEF Rest, Ops, IInv, Types, Docs, Numbers, Absent
<1>3. new \in CallType
  BY <1>1, <1>2 DEF CallType, Numbers
<1>4. /\ new.op = op /\ new.try = 0 /\ new.st = "open" /\ new.loose = FALSE
      /\ new.after = {m \in DOMAIN calls : ~Open(m)} /\ new.applied = 0
      /\ new.seen = {Rest(op, doc)}
  OBVIOUS
<1>5. calls' = Append(calls, new)
  BY DEF Invoke
<1> HIDE DEF new
<1>6. /\ calls' \in Seq(CallType) /\ Len(calls') = N
      /\ DOMAIN calls' = 1..N /\ calls'[N] = new
      /\ \A m \in DOMAIN calls : calls'[m] = calls[m]
  BY <1>1, <1>3, <1>5
<1>7. /\ requests' = requests \cup {<<N, 0>>} /\ running' = running
      /\ doc' = doc /\ faults' = faults
  BY DEF Invoke
<1>8. \A at \in AttemptType : at \in AttemptType' /\ at[1] \in DOMAIN calls /\ at[1] # N
  BY <1>1, <1>6 DEF AttemptType
<1>9. \A x \in running : x.at \in AttemptType
  BY DEF IInv, Types
<1>10. Types'
  <2>1. <<N, 0>> \in AttemptType'
    BY <1>1, <1>4, <1>6 DEF AttemptType
  <2>2. requests' \subseteq AttemptType'
    BY <1>7, <1>8, <2>1 DEF IInv, Types
  <2>3. running' \subseteq [at : AttemptType', saved : BOOLEAN, read : Numbers]
    BY <1>7, <1>8 DEF IInv, Types
  <2> QED
    BY <1>1, <1>6, <1>7, <2>2, <2>3 DEF IInv, Types
<1>11. \A m \in DOMAIN calls' : m \in DOMAIN calls \/ m = N
  BY <1>1, <1>6
<1>12. AttemptsInv'
  <2>1. \A at \in AttemptType : Waits(at) => Waits(at)'
    BY <1>6, <1>8 DEF Waits, Open, Latest
  <2>2. \A at : at = <<N, 0>> => Waits(at)'
    BY <1>4, <1>6 DEF Waits, Open, Latest
  <2>3. \A at \in AttemptType : calls'[at[1]] = calls[at[1]]
    BY <1>6, <1>8
  <2>4. \A x \in running : x.at # <<N, 0>>
    BY <1>8, <1>9
  <2>5. \A at \in requests' : Waits(at)' \/ calls'[at[1]].loose
    BY <1>7, <2>1, <2>2, <2>3 DEF IInv, Types, AttemptsInv
  <2>6. \A x \in running' : Waits(x.at)' \/ calls'[x.at[1]].loose
    BY <1>7, <1>9, <2>1, <2>3 DEF IInv, AttemptsInv
  <2> QED
    BY <1>7, <2>4, <2>5, <2>6 DEF IInv, AttemptsInv
<1>13. EffectsInv'
  <2> SUFFICES ASSUME NEW m \in DOMAIN calls'
               PROVE  /\ calls'[m].applied + Cardinality(Pending(m)') <= calls'[m].try + 1
                      /\ calls'[m].loose => calls'[m].try > 0 \/ calls'[m].st = "failed"
                      /\ calls'[m].st = "ok" => calls'[m].applied > 0
    BY DEF EffectsInv
  <2>1. CASE m \in DOMAIN calls
    <3>1. m # N
      BY <1>1, <2>1
    <3>2. Pending(m)' = Pending(m)
      BY <1>7, <3>1 DEF Pending
    <3> QED
      BY <1>6, <2>1, <3>2 DEF IInv, EffectsInv
  <2>2. CASE m = N
    <3>1. Pending(m)' \in SUBSET {0}
      BY <1>7, <1>8, <1>9, <2>2 DEF Pending, IInv, Types
    <3>2. IsFiniteSet({0}) /\ Cardinality({0}) = 1
      BY FS_Singleton
    <3>3. Cardinality(Pending(m)') <= 1
      BY <3>1, <3>2, FS_Subset
    <3>4. Cardinality(Pending(m)') \in Nat
      BY <1>10, PendingIsFiniteAfter
    <3>5. calls'[m] = new
      BY <1>6, <2>2
    <3> QED
      BY <1>4, <3>3, <3>4, <3>5
  <2> QED
    BY <1>11, <2>1, <2>2
<1>14. ReadsInv'
  <2>1. \A m \in DOMAIN calls' : Open(m)' \/ calls'[m].loose => Rest(calls'[m].op, doc) \in calls'[m].seen
    BY <1>4, <1>6, <1>11 DEF IInv, ReadsInv, Open
  <2> QED
    BY <1>6, <1>7, <1>8, <1>9, <2>1 DEF IInv, ReadsInv
<1>15. OrderInv'
  <2>1. doc = NoDoc => doc.by = 0
    BY DEF NoDoc
  <2>2. \A m \in DOMAIN calls : Recent(m) => Recent(m)'
    BY <1>6, <1>7, <2>1 DEF Recent, IInv, OrderInv
  <2>3. \A m \in DOMAIN calls : Open(m)' = Open(m)
    BY <1>6 DEF Open
  <2>4. \A m \in DOMAIN calls' : \A k \in calls'[m].after : k \in DOMAIN calls /\ k # m /\ ~Open(k)
    BY <1>1, <1>4, <1>6, <1>11 DEF IInv, OrderInv
  <2>5. \A m \in DOMAIN calls' : calls'[m].applied > 0 => Recent(m)'
    BY <1>4, <1>6, <1>11, <2>2 DEF IInv, OrderInv
  <2>6. \A x \in running' : ~x.saved => x.read \in Found(calls[x.at[1]].op)' \/ Recent(x.at[1])'
    BY <1>6, <1>7, <1>8, <1>9, <2>2 DEF IInv, OrderInv, Found, Rest
  <2> QED
    BY <1>1, <1>6, <1>7, <2>3, <2>4, <2>5, <2>6 DEF IInv, OrderInv
<1> QED
  BY <1>10, <1>12, <1>13, <1>14, <1>15 DEF IInv
-----------------------------------------------------------------------------
(***************************************************************************)
(* The server starts an attempt.                                           *)
(***************************************************************************)
LEMMA AcceptPreserves ==
  ASSUME IInv, NEW at \in requests, Accept(at)
  PROVE  IInv'
<1> DEFINE n == at[1]
<1>11. PICK r \in Found(calls[n].op) : running' = running \cup {Started(at, r)}
  BY DEF Accept
<1> DEFINE new == Started(at, r)
<1>1. at \in AttemptType /\ at = <<n, at[2]>> /\ n \in DOMAIN calls /\ at[2] \in 0..Limit
  BY AttemptIsPair DEF IInv, Types
<1>2. r \in Numbers
  <2>1. calls[n].op \in Ops
    BY <1>1, TypedCall DEF IInv
  <2> QED
    BY <2>1, BoundsAssumption DEF Found, Rest, Ops, IInv, Types, Docs, Numbers, Absent
<1>3. /\ requests' = requests \ {at} /\ running' = running \cup {new}
      /\ doc' = doc /\ calls' = calls /\ faults' = faults
  BY <1>11 DEF Accept
<1>4. new.at = at /\ new.saved = FALSE /\ new.read = r
  BY DEF Started
<1>5. new \in [at : AttemptType, saved : BOOLEAN, read : Numbers]
  BY <1>1, <1>2 DEF Started
<1> HIDE DEF new
<1>6. Types'
  BY <1>3, <1>5 DEF IInv, Types, AttemptType
<1>7. AttemptsInv'
  <2>1. Waits(at) \/ calls[n].loose
    BY DEF IInv, AttemptsInv
  <2>2. \A x \in running : x.at # at
    BY DEF IInv, AttemptsInv
  <2>3. \A other : Waits(other)' = Waits(other)
    BY <1>3 DEF Waits, Open, Latest
  <2>4. \A x \in running' : Waits(x.at) \/ calls[x.at[1]].loose
    BY <1>3, <1>4, <2>1 DEF IInv, AttemptsInv
  <2>5. \A x \in running' : x.at \notin requests'
    BY <1>3, <1>4 DEF IInv, AttemptsInv
  <2>6. \A x, y \in running' : x.at = y.at => x = y
    BY <1>3, <1>4, <2>2 DEF IInv, AttemptsInv
  <2> QED
    BY <1>3, <2>3, <2>4, <2>5, <2>6 DEF IInv, AttemptsInv
<1>8. EffectsInv'
  <2>1. \A m : Pending(m)' = Pending(m)
    <3> SUFFICES ASSUME NEW m, NEW t \in 0..Limit
                 PROVE  (\/ <<m, t>> \in requests'
                         \/ \E x \in running' : x.at = <<m, t>> /\ ~x.saved)
                        <=> (\/ <<m, t>> \in requests
                             \/ \E x \in running : x.at = <<m, t>> /\ ~x.saved)
      BY DEF Pending
    <3>1. CASE at = <<m, t>>
      BY <1>3, <1>4, <3>1
    <3>2. CASE at # <<m, t>>
      BY <1>3, <1>4, <3>2
    <3> QED
      BY <3>1, <3>2
  <2> QED
    BY <1>3, <2>1 DEF IInv, EffectsInv
<1>9. ReadsInv'
  <2>1. Open(n) \/ calls[n].loose
    BY DEF IInv, AttemptsInv, Waits
  <2>2. new.read \in calls[n].seen \cup {Absent}
    BY <1>1, <1>4, <2>1 DEF IInv, ReadsInv, Found
  <2> QED
    BY <1>3, <1>4, <2>2 DEF IInv, ReadsInv, Open
<1>10. OrderInv'
  <2>1. new.read \in Found(calls[n].op)
    BY <1>4
  <2>2. \A m \in DOMAIN calls : Recent(m)' = Recent(m)
    BY <1>3 DEF Recent
  <2>3. \A x \in running : x.at[1] \in DOMAIN calls
    BY AttemptIsPair DEF IInv, Types
  <2> QED
    BY <1>1, <1>3, <1>4, <2>1, <2>2, <2>3 DEF IInv, OrderInv, Open, Found
<1> QED
  BY <1>6, <1>7, <1>8, <1>9, <1>10 DEF IInv
-----------------------------------------------------------------------------
(***************************************************************************)
(* The store writes.                                                       *)
(***************************************************************************)
\* Save, field by field.
LEMMA SaveForm ==
  ASSUME IInv, NEW x \in running, Save(x)
  PROVE  LET n == x.at[1] IN
         /\ x.at \in AttemptType /\ n \in DOMAIN calls /\ ~x.saved
         /\ Open(n) \/ calls[n].loose
         /\ doc' = Rewritten(n, x.read) /\ doc'.by = n /\ doc' \in Docs
         /\ calls' \in Seq(CallType) /\ Len(calls') = Len(calls) /\ DOMAIN calls' = DOMAIN calls
         /\ \A m \in DOMAIN calls :
              /\ calls'[m].op = calls[m].op /\ calls'[m].try = calls[m].try
              /\ calls'[m].st = calls[m].st /\ calls'[m].loose = calls[m].loose
              /\ calls'[m].after = calls[m].after
              /\ calls'[m].applied = IF m = n THEN calls[m].applied + 1 ELSE calls[m].applied
              /\ calls'[m].seen = IF Open(m) \/ calls[m].loose
                                  THEN calls[m].seen \cup {Rest(calls[m].op, doc')} ELSE {}
<1> DEFINE n == x.at[1]
<1>1. x.at \in AttemptType /\ n \in DOMAIN calls /\ x.read \in Numbers
  BY AttemptIsPair DEF IInv, Types
<1>2. ~x.saved /\ doc' = Rewritten(n, x.read)
  BY DEF Save
<1>3. Open(n) \/ calls[n].loose
  BY DEF IInv, AttemptsInv, Waits
<1>4. calls[n].op \in Ops /\ n \in Numbers
  <2>1. /\ calls[n].op \in Ops /\ DOMAIN calls = 1..Len(calls) /\ Len(calls) \in Nat
        /\ Len(calls) <= MaxCalls
    BY <1>1, TypedCall DEF IInv, Types
  <2> QED
    BY <1>1, <2>1, BoundsAssumption DEF Numbers
<1>5. doc' \in Docs /\ doc'.by = n
  <2>1. CASE calls[n].op = "put"
    BY <1>1, <1>2, <1>4, <2>1 DEF Rewritten, Docs
  <2>2. CASE calls[n].op = "statements"
    BY <1>1, <1>2, <1>4, <2>2 DEF Rewritten, Docs
  <2>3. CASE calls[n].op = "remove"
    BY <1>1, <1>2, <1>4, <2>3, BoundsAssumption DEF Rewritten, Docs, NoDoc, Absent, Numbers
  <2> QED
    BY <1>4, <2>1, <2>2, <2>3 DEF Ops
<1>6. /\ DOMAIN calls = 1..Len(calls) /\ Len(calls) \in Nat
      /\ \A m \in DOMAIN calls : calls[m] \in CallType
  BY TypedCall DEF IInv, Types
<1>7. \A m \in DOMAIN calls : Rest(calls[m].op, doc') \in Numbers
  <2> SUFFICES ASSUME NEW m \in DOMAIN calls PROVE Rest(calls[m].op, doc') \in Numbers
    OBVIOUS
  <2>1. calls[m].op \in Ops
    BY TypedCall DEF IInv
  <2> QED
    BY <1>5, <2>1, BoundsAssumption DEF Rest, Ops, Docs, Numbers, Absent
<1> DEFINE next(m) == [calls[m] EXCEPT !.applied = IF m = n THEN @ + 1 ELSE @,
                         !.seen = IF Open(m) \/ calls[m].loose
                                  THEN @ \cup {Rest(calls[m].op, doc')} ELSE {}]
<1>8. \A m \in DOMAIN calls :
        /\ next(m) \in CallType
        /\ next(m).op = calls[m].op /\ next(m).try = calls[m].try
        /\ next(m).st = calls[m].st /\ next(m).loose = calls[m].loose
        /\ next(m).after = calls[m].after
        /\ next(m).applied = IF m = n THEN calls[m].applied + 1 ELSE calls[m].applied
        /\ next(m).seen = IF Open(m) \/ calls[m].loose
                          THEN calls[m].seen \cup {Rest(calls[m].op, doc')} ELSE {}
  <2> SUFFICES ASSUME NEW m \in DOMAIN calls
               PROVE  /\ next(m) \in CallType
                      /\ next(m).op = calls[m].op /\ next(m).try = calls[m].try
                      /\ next(m).st = calls[m].st /\ next(m).loose = calls[m].loose
                      /\ next(m).after = calls[m].after
                      /\ next(m).applied = IF m = n THEN calls[m].applied + 1 ELSE calls[m].applied
                      /\ next(m).seen = IF Open(m) \/ calls[m].loose
                                        THEN calls[m].seen \cup {Rest(calls[m].op, doc')} ELSE {}
    OBVIOUS
  <2> DEFINE a == IF m = n THEN calls[m].applied + 1 ELSE calls[m].applied
             r == IF Open(m) \/ calls[m].loose
                  THEN calls[m].seen \cup {Rest(calls[m].op, doc')} ELSE {}
  <2>1. calls[m] \in CallType /\ a \in Nat /\ r \in SUBSET Numbers
    BY <1>7, TypedCall DEF IInv
  <2>2. next(m) = [calls[m] EXCEPT !.applied = a, !.seen = r]
    OBVIOUS
  <2> HIDE DEF a, r, next
  <2>3. /\ next(m) \in CallType
        /\ next(m).op = calls[m].op /\ next(m).try = calls[m].try
        /\ next(m).st = calls[m].st /\ next(m).loose = calls[m].loose
        /\ next(m).after = calls[m].after /\ next(m).applied = a /\ next(m).seen = r
    BY <2>1, <2>2 DEF CallType
  <2> QED
    BY <2>3 DEF a, r
<1>9. calls' = [m \in DOMAIN calls |-> next(m)]
  BY DEF Save
<1> HIDE DEF next
<1>10. calls' \in Seq(CallType) /\ Len(calls') = Len(calls) /\ DOMAIN calls' = DOMAIN calls
  <2>1. calls' \in [1..Len(calls) -> CallType]
    BY <1>6, <1>8, <1>9
  <2> QED
    BY <1>6, <2>1
<1> QED
  BY <1>1, <1>2, <1>3, <1>5, <1>8, <1>9, <1>10

LEMMA SavePreserves ==
  ASSUME IInv, NEW x \in running, Save(x)
  PROVE  IInv'
<1> DEFINE n == x.at[1]
           new == [x EXCEPT !.saved = TRUE, !.read = Absent]
<1>1. /\ x.at \in AttemptType /\ n \in DOMAIN calls /\ ~x.saved
      /\ Open(n) \/ calls[n].loose
      /\ doc' = Rewritten(n, x.read) /\ doc'.by = n /\ doc' \in Docs
      /\ calls' \in Seq(CallType) /\ Len(calls') = Len(calls) /\ DOMAIN calls' = DOMAIN calls
  BY SaveForm
<1>2. \A m \in DOMAIN calls :
        /\ calls'[m].op = calls[m].op /\ calls'[m].try = calls[m].try
        /\ calls'[m].st = calls[m].st /\ calls'[m].loose = calls[m].loose
        /\ calls'[m].after = calls[m].after
        /\ calls'[m].applied = IF m = n THEN calls[m].applied + 1 ELSE calls[m].applied
        /\ calls'[m].seen = IF Open(m) \/ calls[m].loose
                            THEN calls[m].seen \cup {Rest(calls[m].op, doc')} ELSE {}
  BY SaveForm
<1>3. /\ running' = (running \ {x}) \cup {new}
      /\ requests' = requests /\ faults' = faults
  BY DEF Save
<1>4. /\ new \in [at : AttemptType, saved : BOOLEAN, read : Numbers]
      /\ new.at = x.at /\ new.saved = TRUE
  <2>1. x \in [at : AttemptType, saved : BOOLEAN, read : Numbers]
    BY DEF IInv, Types
  <2>2. Absent \in Numbers
    BY BoundsAssumption DEF Absent, Numbers
  <2> QED
    BY <2>1, <2>2
<1> HIDE DEF new
<1>5. DOMAIN calls = 1..Len(calls)
  BY <1>1, TypedCall DEF IInv
<1>6. AttemptType' = AttemptType
  BY <1>1, <1>2, <1>5 DEF AttemptType
<1>7. \A at \in AttemptType : at[1] \in DOMAIN calls
  BY AttemptIsPair DEF IInv
<1>8. \A y \in running : y.at \in AttemptType /\ y.at[1] \in DOMAIN calls
  BY <1>7 DEF IInv, Types
<1>9. \A m \in DOMAIN calls : Open(m)' = Open(m)
  BY <1>2 DEF Open
<1>10. Types'
  BY <1>1, <1>3, <1>4, <1>6 DEF IInv, Types
<1>11. AttemptsInv'
  <2>1. \A at \in AttemptType : /\ Waits(at)' = Waits(at)
                                /\ calls'[at[1]].loose = calls[at[1]].loose
    BY <1>2, <1>7, <1>9 DEF Waits, Latest
  <2>2. \A at \in requests' : Waits(at)' \/ calls'[at[1]].loose
    BY <1>3, <2>1 DEF IInv, Types, AttemptsInv
  <2>3. \A y \in running' : Waits(y.at)' \/ calls'[y.at[1]].loose
    BY <1>3, <1>4, <1>8, <2>1 DEF IInv, AttemptsInv
  <2> QED
    BY <1>3, <1>4, <2>2, <2>3 DEF IInv, AttemptsInv
<1>12. EffectsInv'
  <2> SUFFICES ASSUME NEW m \in DOMAIN calls
               PROVE  /\ calls'[m].applied + Cardinality(Pending(m)') <= calls[m].try + 1
                      /\ calls[m].loose => calls[m].try > 0 \/ calls[m].st = "failed"
                      /\ calls[m].st = "ok" => calls'[m].applied > 0
    BY <1>1, <1>2 DEF EffectsInv
  <2>1. /\ calls[m].applied + Cardinality(Pending(m)) <= calls[m].try + 1
        /\ calls[m].loose => calls[m].try > 0 \/ calls[m].st = "failed"
        /\ calls[m].st = "ok" => calls[m].applied > 0
    BY DEF IInv, EffectsInv
  <2>2. IsFiniteSet(Pending(m)) /\ Cardinality(Pending(m)) \in Nat
    BY PendingIsFinite DEF IInv
  <2>3. calls[m].applied \in Nat /\ calls[m].try \in Nat
    BY TypedCall DEF IInv
  <2>4. CASE m = n
    <3>1. x.at = <<m, x.at[2]>> /\ x.at[2] \in 0..Limit
      BY <1>1, <2>4, AttemptIsPair DEF IInv
    <3>2. x.at[2] \in Pending(m)
      BY <1>1, <3>1 DEF Pending
    <3>3. \A t : x.at = <<m, t>> => t = x.at[2]
      OBVIOUS
    <3>4. x.at \notin requests /\ \A y \in running : y.at = x.at => y = x
      BY DEF IInv, AttemptsInv
    <3>5. Pending(m)' \in SUBSET (Pending(m) \ {x.at[2]})
      BY <1>3, <1>4, <3>1, <3>3, <3>4 DEF Pending
    <3>6. /\ IsFiniteSet(Pending(m) \ {x.at[2]})
          /\ Cardinality(Pending(m) \ {x.at[2]}) =
               IF x.at[2] \in Pending(m) THEN Cardinality(Pending(m)) - 1 ELSE Cardinality(Pending(m))
      BY <2>2, FS_RemoveElement, Zenon
    <3>7. Cardinality(Pending(m)') <= Cardinality(Pending(m) \ {x.at[2]})
      BY <3>5, <3>6, FS_Subset
    <3>8. Cardinality(Pending(m)') \in Nat
      BY <1>10, PendingIsFiniteAfter
    <3>9. calls'[m].applied = calls[m].applied + 1
      BY <1>2, <2>4
    <3> QED
      BY <2>1, <2>2, <2>3, <3>2, <3>6, <3>7, <3>8, <3>9
  <2>5. CASE m # n
    <3>1. Pending(m)' \in SUBSET Pending(m)
      BY <1>3, <1>4 DEF Pending
    <3>2. Cardinality(Pending(m)') <= Cardinality(Pending(m))
      BY <2>2, <3>1, FS_Subset
    <3>3. Cardinality(Pending(m)') \in Nat
      BY <1>10, PendingIsFiniteAfter
    <3>4. calls'[m].applied = calls[m].applied
      BY <1>2, <2>5
    <3> QED
      BY <2>1, <2>2, <2>3, <3>2, <3>3, <3>4
  <2> QED
    BY <2>4, <2>5
<1>13. ReadsInv'
  <2>1. \A m \in DOMAIN calls : Open(m)' \/ calls'[m].loose => Rest(calls'[m].op, doc') \in calls'[m].seen
    BY <1>2, <1>9
  <2>2. ASSUME NEW y \in running
        PROVE  IF y.saved THEN calls'[y.at[1]].applied > 0
               ELSE y.read \in calls'[y.at[1]].seen \cup {Absent}
    <3>1. IF y.saved THEN calls[y.at[1]].applied > 0 ELSE y.read \in calls[y.at[1]].seen \cup {Absent}
      BY DEF IInv, ReadsInv
    <3>2. Open(y.at[1]) \/ calls[y.at[1]].loose
      BY DEF IInv, AttemptsInv, Waits
    <3>3. y.at[1] \in DOMAIN calls /\ calls[y.at[1]].applied \in Nat
      BY <1>8, TypedCall DEF IInv
    <3>4. calls'[y.at[1]].applied \in {calls[y.at[1]].applied, calls[y.at[1]].applied + 1}
      BY <1>2, <3>3
    <3>5. calls[y.at[1]].seen \subseteq calls'[y.at[1]].seen
      BY <1>2, <3>2, <3>3
    <3> QED
      BY <3>1, <3>3, <3>4, <3>5
  <2>3. calls'[n].applied > 0
    <3>1. calls[n].applied \in Nat
      BY <1>1, TypedCall DEF IInv
    <3>2. calls'[n].applied = calls[n].applied + 1
      BY <1>1, <1>2
    <3> QED
      BY <3>1, <3>2
  <2> QED
    BY <1>1, <1>3, <1>4, <2>1, <2>2, <2>3 DEF ReadsInv
<1>14. OrderInv'
  <2>1. \A m \in DOMAIN calls : Recent(m)'
    <3> SUFFICES ASSUME NEW m \in DOMAIN calls
                 PROVE  n # 0 /\ (n \notin calls[m].after \/ calls[n].loose)
      BY <1>1, <1>2 DEF Recent
    <3> QED
      BY <1>1, <1>5 DEF IInv, OrderInv
  <2>2. \A m \in DOMAIN calls : \A k \in calls'[m].after : k \in DOMAIN calls' /\ k # m /\ ~Open(k)'
    BY <1>1, <1>2, <1>9 DEF IInv, OrderInv
  <2>3. \A y \in running' : y.at[1] \in DOMAIN calls
    BY <1>1, <1>3, <1>4, <1>8
  <2> QED
    BY <1>1, <2>1, <2>2, <2>3 DEF OrderInv
<1> QED
  BY <1>10, <1>11, <1>12, <1>13, <1>14 DEF IInv
-----------------------------------------------------------------------------
(***************************************************************************)
(* The theorems.                                                           *)
(***************************************************************************)
LEMMA InitIInv == Init => IInv
<1> SUFFICES ASSUME Init PROVE IInv
  OBVIOUS
<1>1. calls = <<>> /\ requests = {} /\ running = {} /\ doc = NoDoc /\ faults = 0
  BY DEF Init
<1>2. calls \in Seq(CallType) /\ Len(calls) = 0 /\ DOMAIN calls = {}
  BY <1>1
<1>3. Types
  BY <1>1, <1>2, BoundsAssumption DEF Types, Docs, NoDoc, Absent, Numbers
<1> QED
  BY <1>1, <1>2, <1>3 DEF IInv, AttemptsInv, EffectsInv, ReadsInv, OrderInv

LEMMA NextIInv == IInv /\ [Next]_vars => IInv'
<1> SUFFICES ASSUME IInv, [Next]_vars PROVE IInv'
  OBVIOUS
<1>1. CASE Next
  BY <1>1, StepForms, InvokePreserves, AcceptPreserves, SavePreserves, SettlePreserves
<1>2. CASE UNCHANGED vars
  <2>1. UNCHANGED <<doc, calls, requests, running, faults>>
    BY <1>2 DEF vars
  <2>2. Ignored
    BY <2>1 DEF Ignored, Settling, IInv, Types
  <2> QED
    BY <2>2, IgnoredPreserves
<1> QED
  BY <1>1, <1>2

\* The invariant of the REST tier: attempts, effects, reads and the order of calls.
THEOREM RestInvariant == Spec => []IInv
BY InitIInv, NextIInv, PTL DEF Spec

\* Every state is well typed; in particular no call makes more attempts than the
\* retry policy allows.
THEOREM RestTypeCorrect == Spec => []TypeOK
<1>1. IInv => TypeOK
  <2> SUFFICES ASSUME IInv PROVE TypeOK
    OBVIOUS
  <2>1. \A n \in DOMAIN calls : calls[n] \in CallType
    BY TypedCall DEF IInv
  <2>2. AttemptType \subseteq UNION {TriesOf(n) : n \in DOMAIN calls}
    <3> SUFFICES ASSUME NEW at \in AttemptType
                 PROVE  \E n \in DOMAIN calls : at \in TriesOf(n)
      OBVIOUS
    <3>1. at = <<at[1], at[2]>> /\ at[1] \in DOMAIN calls /\ at[2] \in 0..Limit
      BY AttemptIsPair DEF IInv
    <3> QED
      BY <3>1 DEF TriesOf
  <2>3. \A x \in running : x \in [at : AttemptType, saved : BOOLEAN, read : Numbers]
    BY DEF IInv, Types
  <2>4. running \subseteq [at : UNION {TriesOf(n) : n \in DOMAIN calls}, saved : BOOLEAN, read : Numbers]
    BY <2>2, <2>3
  <2> QED
    BY <2>1, <2>2, <2>4 DEF IInv, Types, TypeOK, CallType
<1> QED
  BY <1>1, RestInvariant, PTL

\* A client that got its answer may rely on it: only a call that has lost sight of an
\* attempt can still overwrite it from before.
THEOREM LatestWriteAlwaysStands == Spec => []LatestWriteStands
<1>1. IInv => LatestWriteStands
  BY DEF IInv, EffectsInv, OrderInv, Recent, LatestWriteStands
<1> QED
  BY <1>1, RestInvariant, PTL

\* The document's data and its statements change by a first effect or a repeated one;
\* the part a call has read is at most dropped, or undoes a write the call overlaps.
THEOREM RepeatsAloneBringBack == Spec => OnlyRepeatsBringBack
<1> DEFINE Brings ==
             LET m == doc'.by
                 firstOrRepeat == calls[m].applied = 0 \/ calls[m].try > 0
                 overlaps == doc.by \notin calls[m].after \/ calls[doc.by].loose
             IN  /\ doc'.body # doc.body =>
                      IF calls[m].op = "statements" THEN doc'.body = Absent \/ overlaps
                      ELSE firstOrRepeat
                 /\ doc'.stmts # doc.stmts =>
                      IF calls[m].op = "put" THEN doc'.stmts = Absent \/ overlaps
                      ELSE firstOrRepeat
<1>1. IInv /\ [Next]_vars => [Brings]_vars
  <2> SUFFICES ASSUME IInv, Next, doc' # doc PROVE Brings
    BY DEF vars
  <2>1. PICK x \in running : Save(x)
    BY StepForms DEF Settle, Ignored, Repeated, Ended, Settling, Invoke, Accept
  <2> DEFINE n == x.at[1]
  <2>2. /\ x.at \in AttemptType /\ n \in DOMAIN calls /\ ~x.saved
        /\ doc' = Rewritten(n, x.read) /\ doc'.by = n
    BY <2>1, SaveForm
  <2>3. calls[n].applied = 0 \/ calls[n].try > 0
    <3>1. x.at[2] \in Pending(n)
      BY <2>1, <2>2, AttemptIsPair DEF Pending, IInv
    <3>2. calls[n].applied <= calls[n].try
      BY <2>2, <3>1, PendingBounds
    <3>3. calls[n].applied \in Nat /\ calls[n].try \in Nat
      BY <2>2, TypedCall DEF IInv
    <3> QED
      BY <3>2, <3>3
  <2>4. \/ x.read \in {Rest(calls[n].op, doc), Absent}
        \/ doc.by \notin calls[n].after \/ calls[doc.by].loose
    BY <2>2 DEF IInv, OrderInv, Found, Recent
  <2>5. /\ calls[n].op = "statements" => doc'.body = x.read /\ Rest(calls[n].op, doc) = doc.body
        /\ calls[n].op = "put" => doc'.stmts = x.read /\ Rest(calls[n].op, doc) = doc.stmts
    BY <2>2 DEF Rewritten, Rest
  <2> QED
    BY <2>2, <2>3, <2>4, <2>5
<1> QED
  BY <1>1, RestInvariant, PTL DEF Spec, OnlyRepeatsBringBack
-----------------------------------------------------------------------------
(***************************************************************************)
(* The refinement.                                                         *)
(***************************************************************************)
PromiseType ==
  [op : Ops, st : {"open", "ok", "failed", "refused"}, applied : Nat,
   seen : SUBSET Numbers, loose : BOOLEAN]

\* The mapped calls, entry by entry.
LEMMA PromisedCalls ==
  ASSUME Types
  PROVE  /\ Promised \in Seq(PromiseType) /\ Len(Promised) = Len(calls)
         /\ DOMAIN Promised = DOMAIN calls /\ DOMAIN calls = 1..Len(calls) /\ Len(calls) \in Nat
         /\ \A n \in DOMAIN calls :
              /\ Promised[n] \in PromiseType
              /\ Promised[n].op = calls[n].op /\ Promised[n].st = calls[n].st
              /\ Promised[n].applied = calls[n].applied
              /\ Promised[n].seen = calls[n].seen /\ Promised[n].loose = calls[n].loose
<1>1. calls \in Seq(CallType) /\ DOMAIN calls = 1..Len(calls) /\ Len(calls) \in Nat
  BY DEF Types
<1>2. Promised \in [1..Len(calls) -> PromiseType]
  BY <1>1, TypedCall DEF Promised, PromiseType
<1>3. Promised \in Seq(PromiseType) /\ Len(Promised) = Len(calls)
  BY <1>1, <1>2
<1> QED
  BY <1>1, <1>2, <1>3 DEF Promised

LEMMA PromisedCallsAfter ==
  ASSUME Types'
  PROVE  /\ Promised' \in Seq(PromiseType) /\ Len(Promised') = Len(calls')
         /\ DOMAIN Promised' = DOMAIN calls' /\ DOMAIN calls' = 1..Len(calls') /\ Len(calls') \in Nat
         /\ \A n \in DOMAIN calls' :
              /\ Promised'[n] \in PromiseType
              /\ Promised'[n].op = calls'[n].op /\ Promised'[n].st = calls'[n].st
              /\ Promised'[n].applied = calls'[n].applied
              /\ Promised'[n].seen = calls'[n].seen /\ Promised'[n].loose = calls'[n].loose
<1>1. calls' \in Seq(CallType)
  BY DEF Types
<1>2. /\ DOMAIN calls' = 1..Len(calls') /\ Len(calls') \in Nat
      /\ \A n \in DOMAIN calls' : calls'[n] \in CallType
  BY <1>1
<1>3. Promised' \in [1..Len(calls') -> PromiseType]
  BY <1>2 DEF Promised, PromiseType, CallType
<1>4. Promised' \in Seq(PromiseType) /\ Len(Promised') = Len(calls')
  BY <1>2, <1>3
<1> QED
  BY <1>2, <1>3, <1>4 DEF Promised

\* Two promises with the same fields are the same.
LEMMA SamePromise ==
  ASSUME NEW p \in PromiseType, NEW q \in PromiseType,
         p.op = q.op, p.st = q.st, p.applied = q.applied, p.seen = q.seen, p.loose = q.loose
  PROVE  p = q
BY DEF PromiseType

LEMMA InitRefines == Init => Remote!Init
<1> SUFFICES ASSUME Init PROVE Remote!Init
  OBVIOUS
<1>1. calls = <<>> /\ doc = NoDoc
  BY DEF Init
<1>2. Promised = <<>>
  BY <1>1 DEF Promised
<1> QED
  BY <1>1, <1>2 DEF Remote!Init, NoDoc, Absent

\* Calls with the same fields make the same promises.
LEMMA UnchangedPromises ==
  ASSUME Types, Types', DOMAIN calls' = DOMAIN calls,
         \A m \in DOMAIN calls :
           /\ calls'[m].op = calls[m].op /\ calls'[m].st = calls[m].st
           /\ calls'[m].applied = calls[m].applied /\ calls'[m].seen = calls[m].seen
           /\ calls'[m].loose = calls[m].loose
  PROVE  Promised' = Promised
<1>1. \A m \in DOMAIN calls : Promised'[m] = Promised[m]
  BY PromisedCalls, PromisedCallsAfter, SamePromise
<1> QED
  BY <1>1, PromisedCalls, PromisedCallsAfter

LEMMA InvokeRefines ==
  ASSUME IInv, IInv', NEW op \in Ops, Invoke(op)
  PROVE  Remote!Invoke(op)
<1> DEFINE new == [op |-> op, st |-> "open", applied |-> 0, seen |-> {Rest(op, doc)}, loose |-> FALSE]
<1>1. /\ Promised \in Seq(PromiseType) /\ DOMAIN Promised = DOMAIN calls
      /\ DOMAIN calls = 1..Len(calls) /\ Len(calls) \in Nat /\ Len(Promised) = Len(calls)
  BY PromisedCalls DEF IInv
<1>2. /\ Promised' \in Seq(PromiseType) /\ DOMAIN Promised' = DOMAIN calls'
      /\ DOMAIN calls' = 1..Len(calls') /\ Len(Promised') = Len(calls')
  BY PromisedCallsAfter DEF IInv
<1>3. PICK c : /\ calls' = Append(calls, c)
               /\ c.op = op /\ c.st = "open" /\ c.applied = 0 /\ c.seen = {Rest(op, doc)}
               /\ c.loose = FALSE
  BY DEF Invoke
<1>4. calls \in Seq(CallType)
  BY DEF IInv, Types
<1>5. /\ Len(calls') = Len(calls) + 1 /\ calls'[Len(calls) + 1] = c
      /\ \A m \in DOMAIN calls : calls'[m] = calls[m]
  BY <1>1, <1>3, <1>4
<1>6. new \in PromiseType
  <2>1. Rest(op, doc) \in Numbers
    BY BoundsAssumption DEF Rest, Ops, IInv, Types, Docs, Numbers, Absent
  <2> QED
    BY <2>1 DEF PromiseType
<1>7. \A m \in DOMAIN calls : Promised'[m] = Promised[m]
  BY <1>1, <1>2, <1>5, PromisedCalls, PromisedCallsAfter, SamePromise DEF IInv
<1>8. Promised'[Len(calls) + 1] = new
  <2>1. Len(calls) + 1 \in DOMAIN calls'
    BY <1>1, <1>2, <1>5
  <2>2. /\ Promised'[Len(calls) + 1] \in PromiseType
        /\ Promised'[Len(calls) + 1].op = op /\ Promised'[Len(calls) + 1].st = "open"
        /\ Promised'[Len(calls) + 1].applied = 0
        /\ Promised'[Len(calls) + 1].seen = {Rest(op, doc)}
        /\ Promised'[Len(calls) + 1].loose = FALSE
    BY <1>3, <1>5, <2>1, PromisedCallsAfter DEF IInv
  <2> QED
    BY <1>6, <2>2, SamePromise
<1> HIDE DEF new
<1>9. Promised' = Append(Promised, new)
  BY <1>1, <1>2, <1>5, <1>6, <1>7, <1>8
<1>10. doc' = doc
  BY DEF Invoke
<1> QED
  BY <1>9, <1>10 DEF Remote!Invoke, Remote!Rest, Rest, Absent, new

LEMMA SaveRefines ==
  ASSUME IInv, IInv', NEW x \in running, Save(x)
  PROVE  x.at[1] \in DOMAIN Promised /\ Remote!Apply(x.at[1])
<1> DEFINE n == x.at[1]
<1>1. /\ x.at \in AttemptType /\ n \in DOMAIN calls /\ ~x.saved
      /\ Open(n) \/ calls[n].loose
      /\ doc' = Rewritten(n, x.read) /\ doc' \in Docs
      /\ DOMAIN calls' = DOMAIN calls
      /\ \A m \in DOMAIN calls :
           /\ calls'[m].op = calls[m].op /\ calls'[m].st = calls[m].st
           /\ calls'[m].loose = calls[m].loose
           /\ calls'[m].applied = IF m = n THEN calls[m].applied + 1 ELSE calls[m].applied
           /\ calls'[m].seen = IF Open(m) \/ calls[m].loose
                               THEN calls[m].seen \cup {Rest(calls[m].op, doc')} ELSE {}
  BY SaveForm
<1>2. calls[n].applied < Limit + 1
  <2>1. x.at[2] \in Pending(n)
    BY <1>1, AttemptIsPair DEF Pending, IInv
  <2>2. calls[n].applied <= calls[n].try
    BY <1>1, <2>1, PendingBounds
  <2>3. calls[n].applied \in Nat /\ calls[n].try \in 0..Limit
    BY <1>1, TypedCall DEF IInv
  <2> QED
    BY <2>2, <2>3, LimitAssumption
<1>3. x.read \in calls[n].seen \cup {0}
  BY <1>1 DEF IInv, ReadsInv, Absent
<1>4. /\ DOMAIN Promised = DOMAIN calls /\ DOMAIN Promised' = DOMAIN calls
      /\ DOMAIN calls = 1..Len(calls)
      /\ Promised' \in Seq(PromiseType) /\ Promised \in Seq(PromiseType)
  BY <1>1, PromisedCalls, PromisedCallsAfter DEF IInv
<1>5. doc' = Remote!Effect(n, x.read)
  <2>1. Promised[n].op = calls[n].op /\ calls[n].op \in Ops
    BY <1>1, PromisedCalls, TypedCall DEF IInv
  <2>2. CASE calls[n].op = "put"
    BY <1>1, <2>1, <2>2 DEF Rewritten, Remote!Effect
  <2>3. CASE calls[n].op = "statements"
    BY <1>1, <2>1, <2>3 DEF Rewritten, Remote!Effect
  <2>4. CASE calls[n].op = "remove"
    BY <1>1, <2>1, <2>4 DEF Rewritten, Remote!Effect, NoDoc, Absent
  <2> QED
    BY <2>1, <2>2, <2>3, <2>4 DEF Ops
<1>9. ASSUME NEW m \in DOMAIN calls
      PROVE  /\ Promised'[m].op = Promised[m].op /\ Promised'[m].st = Promised[m].st
             /\ Promised'[m].loose = Promised[m].loose
  <2>1. calls'[m].op = calls[m].op /\ calls'[m].st = calls[m].st /\ calls'[m].loose = calls[m].loose
    BY <1>1
  <2>2. m \in DOMAIN calls'
    BY <1>1
  <2>3. /\ Promised[m].op = calls[m].op /\ Promised[m].st = calls[m].st
        /\ Promised[m].loose = calls[m].loose
    BY PromisedCalls DEF IInv
  <2>4. /\ Promised'[m].op = calls'[m].op /\ Promised'[m].st = calls'[m].st
        /\ Promised'[m].loose = calls'[m].loose
    BY <2>2, PromisedCallsAfter DEF IInv
  <2> QED
    BY <2>1, <2>3, <2>4
<1> DEFINE next(m) == [Promised[m] EXCEPT
                         !.applied = IF m = n THEN @ + 1 ELSE @,
                         !.seen = IF Promised[m].st = "open" \/ Promised[m].loose
                                  THEN @ \cup {Remote!Rest(Promised[m].op, doc')} ELSE {}]
<1>6. ASSUME NEW m \in DOMAIN calls
      PROVE  Promised'[m] = next(m)
  <2> DEFINE a == IF m = n THEN Promised[m].applied + 1 ELSE Promised[m].applied
             r == IF Promised[m].st = "open" \/ Promised[m].loose
                  THEN Promised[m].seen \cup {Remote!Rest(Promised[m].op, doc')} ELSE {}
  <2>1. /\ Promised[m] \in PromiseType
        /\ Promised[m].op = calls[m].op /\ Promised[m].st = calls[m].st
        /\ Promised[m].applied = calls[m].applied
        /\ Promised[m].seen = calls[m].seen /\ Promised[m].loose = calls[m].loose
    BY PromisedCalls DEF IInv
  <2>2. /\ Promised'[m] \in PromiseType
        /\ Promised'[m].op = calls'[m].op /\ Promised'[m].st = calls'[m].st
        /\ Promised'[m].applied = calls'[m].applied
        /\ Promised'[m].seen = calls'[m].seen /\ Promised'[m].loose = calls'[m].loose
    BY <1>1, PromisedCallsAfter DEF IInv
  <2>3. Remote!Rest(calls[m].op, doc') = Rest(calls[m].op, doc')
    BY DEF Remote!Rest, Rest, Absent
  <2>4. Promised'[m].applied = a /\ Promised'[m].seen = r
    BY <1>1, <2>1, <2>2, <2>3 DEF Open
  <2>5. a \in Nat /\ r \in SUBSET Numbers
    BY <2>2, <2>4 DEF PromiseType
  <2>6. next(m) = [Promised[m] EXCEPT !.applied = a, !.seen = r]
    OBVIOUS
  <2>7. Promised'[m].op = Promised[m].op /\ Promised'[m].st = Promised[m].st
        /\ Promised'[m].loose = Promised[m].loose
    BY <1>9
  <2> HIDE DEF a, r, next
  <2>8. /\ next(m) \in PromiseType
        /\ next(m).op = Promised[m].op /\ next(m).st = Promised[m].st
        /\ next(m).applied = a /\ next(m).seen = r /\ next(m).loose = Promised[m].loose
    BY <2>1, <2>5, <2>6 DEF PromiseType
  <2> QED
    BY <2>2, <2>4, <2>7, <2>8, SamePromise
<1> HIDE DEF next
<1>7. Promised' = [m \in DOMAIN Promised |-> next(m)]
  BY <1>4, <1>6
<1>8. /\ Promised[n].st = "open" \/ Promised[n].loose
      /\ Promised[n].applied < Limit + 1 /\ x.read \in Promised[n].seen \cup {0}
  BY <1>1, <1>2, <1>3, PromisedCalls DEF IInv, Open
<1> QED
  BY <1>1, <1>4, <1>5, <1>7, <1>8 DEF Remote!Apply, next

\* An attempt that is repeated is nothing to the caller, or something lost.
LEMMA RepeatedRefines ==
  ASSUME IInv, IInv', NEW n \in DOMAIN calls, NEW sent \in SUBSET requests, NEW loose \in BOOLEAN,
         Repeated(n, sent, loose)
  PROVE  Remote!Lose(n) \/ UNCHANGED Remote!vars
<1>1. /\ calls[n] \in CallType /\ calls[n].loose \in BOOLEAN /\ calls[n].st = "open"
      /\ calls[n].loose => loose
      /\ doc' = doc
  BY TypedCall DEF IInv, Repeated, Open, Settling
<1>2. calls' = [calls EXCEPT ![n] = [calls[n] EXCEPT !.try = calls[n].try + 1, !.loose = loose]]
  BY DEF Repeated
<1>3. /\ DOMAIN calls' = DOMAIN calls
      /\ \A m \in DOMAIN calls \ {n} : calls'[m] = calls[m]
      /\ calls'[n] = [calls[n] EXCEPT !.try = calls[n].try + 1, !.loose = loose]
  BY <1>2
<1>4. /\ calls'[n].op = calls[n].op /\ calls'[n].st = calls[n].st
      /\ calls'[n].applied = calls[n].applied /\ calls'[n].seen = calls[n].seen
      /\ calls'[n].loose = loose
  BY <1>1, <1>3 DEF CallType
<1>5. CASE loose = calls[n].loose
  <2>1. Promised' = Promised
    BY <1>3, <1>4, <1>5, UnchangedPromises DEF IInv
  <2> QED
    BY <1>1, <2>1 DEF Remote!vars
<1>6. CASE loose /\ ~calls[n].loose
  <2>1. /\ DOMAIN Promised = DOMAIN calls /\ DOMAIN Promised' = DOMAIN calls
        /\ Promised' \in Seq(PromiseType) /\ Promised \in Seq(PromiseType)
    BY <1>3, PromisedCalls, PromisedCallsAfter DEF IInv
  <2>2. \A m \in DOMAIN calls \ {n} : Promised'[m] = Promised[m]
    BY <1>3, PromisedCalls, PromisedCallsAfter, SamePromise DEF IInv
  <2>3. Promised'[n] = [Promised[n] EXCEPT !.loose = TRUE, !.st = "open"]
    <3>1. /\ Promised[n] \in PromiseType /\ Promised'[n] \in PromiseType
          /\ Promised'[n].op = Promised[n].op /\ Promised'[n].st = "open"
          /\ Promised'[n].applied = Promised[n].applied
          /\ Promised'[n].seen = Promised[n].seen /\ Promised'[n].loose = TRUE
      BY <1>1, <1>3, <1>4, <1>6, PromisedCalls, PromisedCallsAfter DEF IInv
    <3> QED
      BY <3>1 DEF PromiseType
  <2>4. Promised' = [Promised EXCEPT ![n].loose = TRUE, ![n].st = "open"]
    <3> DEFINE r == [Promised[n] EXCEPT !.loose = TRUE, !.st = "open"]
    <3>1. Promised'[n] = r
      BY <2>3
    <3>2. [Promised EXCEPT ![n].loose = TRUE, ![n].st = "open"] = [Promised EXCEPT ![n] = r]
      OBVIOUS
    <3> HIDE DEF r
    <3>3. Promised' = [Promised EXCEPT ![n] = r]
      BY <2>1, <2>2, <3>1
    <3> QED
      BY <3>2, <3>3
  <2>5. Promised[n].st = "open"
    BY <1>1, PromisedCalls DEF IInv
  <2> QED
    BY <1>1, <2>4, <2>5 DEF Remote!Lose
<1> QED
  BY <1>1, <1>5, <1>6

\* A call that returns has an answer, or has failed while an attempt was lost.
LEMMA EndedRefines ==
  ASSUME IInv, IInv', NEW n \in DOMAIN calls, NEW st \in {"ok", "failed", "refused"},
         NEW loose \in BOOLEAN, Ended(n, st, loose)
  PROVE  Remote!Lose(n) \/ Remote!Return(n)
<1>1. /\ calls[n] \in CallType /\ calls[n].loose \in BOOLEAN /\ calls[n].st = "open"
      /\ calls[n].loose => loose
      /\ (loose /\ ~calls[n].loose) => st = "failed"
      /\ st = "ok" => calls[n].applied > 0
      /\ doc' = doc
  BY TypedCall DEF IInv, Ended, Open, Settling
<1>2. calls' = [calls EXCEPT ![n] = [calls[n] EXCEPT !.st = st, !.loose = loose,
                                       !.seen = IF loose THEN calls[n].seen ELSE {}]]
  BY DEF Ended
<1>3. /\ DOMAIN calls' = DOMAIN calls
      /\ \A m \in DOMAIN calls \ {n} : calls'[m] = calls[m]
      /\ calls'[n] = [calls[n] EXCEPT !.st = st, !.loose = loose,
                                      !.seen = IF loose THEN calls[n].seen ELSE {}]
  BY <1>2
<1>4. /\ calls'[n].op = calls[n].op /\ calls'[n].st = st
      /\ calls'[n].applied = calls[n].applied /\ calls'[n].loose = loose
      /\ calls'[n].seen = IF loose THEN calls[n].seen ELSE {}
  BY <1>1, <1>3 DEF CallType
<1>5. /\ DOMAIN Promised = DOMAIN calls /\ DOMAIN Promised' = DOMAIN calls
      /\ Promised' \in Seq(PromiseType) /\ Promised \in Seq(PromiseType)
  BY <1>3, PromisedCalls, PromisedCallsAfter DEF IInv
<1>6. \A m \in DOMAIN calls \ {n} : Promised'[m] = Promised[m]
  BY <1>3, PromisedCalls, PromisedCallsAfter, SamePromise DEF IInv
<1>7. /\ Promised[n] \in PromiseType /\ Promised'[n] \in PromiseType
      /\ Promised[n].st = "open" /\ Promised[n].loose = calls[n].loose
      /\ Promised[n].applied = calls[n].applied
      /\ Promised'[n].op = Promised[n].op /\ Promised'[n].st = st
      /\ Promised'[n].applied = Promised[n].applied /\ Promised'[n].loose = loose
      /\ Promised'[n].seen = IF loose THEN Promised[n].seen ELSE {}
  BY <1>1, <1>3, <1>4, PromisedCalls, PromisedCallsAfter DEF IInv
<1>8. CASE loose /\ ~calls[n].loose
  <2>1. Promised'[n] = [Promised[n] EXCEPT !.loose = TRUE, !.st = "failed"]
    BY <1>1, <1>7, <1>8 DEF PromiseType
  <2>2. Promised' = [Promised EXCEPT ![n].loose = TRUE, ![n].st = "failed"]
    <3> DEFINE r == [Promised[n] EXCEPT !.loose = TRUE, !.st = "failed"]
    <3>1. Promised'[n] = r
      BY <2>1
    <3>2. [Promised EXCEPT ![n].loose = TRUE, ![n].st = "failed"] = [Promised EXCEPT ![n] = r]
      OBVIOUS
    <3> HIDE DEF r
    <3>3. Promised' = [Promised EXCEPT ![n] = r]
      BY <1>5, <1>6, <3>1
    <3> QED
      BY <3>2, <3>3
  <2> QED
    BY <1>1, <1>7, <2>2 DEF Remote!Lose
<1>9. CASE loose = calls[n].loose
  <2>1. Promised'[n] = [Promised[n] EXCEPT !.st = st,
                          !.seen = IF Promised[n].loose THEN Promised[n].seen ELSE {}]
    BY <1>1, <1>7, <1>9 DEF PromiseType
  <2>2. Promised' = [Promised EXCEPT ![n].st = st,
                       ![n].seen = IF Promised[n].loose THEN @ ELSE {}]
    <3> DEFINE r == [Promised[n] EXCEPT !.st = st,
                       !.seen = IF Promised[n].loose THEN Promised[n].seen ELSE {}]
    <3>1. Promised'[n] = r
      BY <2>1
    <3>2. [Promised EXCEPT ![n].st = st, ![n].seen = IF Promised[n].loose THEN @ ELSE {}]
            = [Promised EXCEPT ![n] = r]
      OBVIOUS
    <3> HIDE DEF r
    <3>3. Promised' = [Promised EXCEPT ![n] = r]
      BY <1>5, <1>6, <3>1
    <3> QED
      BY <3>2, <3>3
  <2> QED
    BY <1>1, <1>7, <2>2 DEF Remote!Return
<1> QED
  BY <1>1, <1>8, <1>9

LEMMA NextRefines ==
  ASSUME IInv, IInv', [Next]_vars
  PROVE  [Remote!Next]_(Remote!vars)
<1>1. DOMAIN Promised = DOMAIN calls
  BY PromisedCalls DEF IInv
<1>2. ASSUME UNCHANGED <<doc, calls>> PROVE UNCHANGED Remote!vars
  BY <1>2 DEF Remote!vars, Promised
<1>3. ASSUME NEW op \in Ops, Invoke(op) PROVE Remote!Next
  BY <1>3, InvokeRefines DEF Remote!Next
<1>4. ASSUME NEW x \in running, Save(x) PROVE Remote!Next
  BY <1>4, SaveRefines DEF Remote!Next
<1>5. ASSUME Settle PROVE [Remote!Next]_(Remote!vars)
  BY <1>1, <1>2, <1>5, RepeatedRefines, EndedRefines DEF Settle, Ignored, Settling, Remote!Next
<1>6. ASSUME NEW at \in requests, Accept(at) PROVE UNCHANGED Remote!vars
  BY <1>2, <1>6 DEF Accept
<1>7. CASE UNCHANGED vars
  BY <1>2, <1>7 DEF vars
<1> QED
  BY <1>3, <1>4, <1>5, <1>6, <1>7, StepForms

\* The REST tier, with its attempts, messages, losses and retries, does no more than a
\* remote store that applies each call at least once for a success.
THEOREM RestImplementsRemoteStore == Spec => ImplementsRemoteStore
<1>1. IInv /\ IInv' /\ [Next]_vars => [Remote!Next]_(Remote!vars)
  BY NextRefines
<1> QED
  BY <1>1, InitRefines, RestInvariant, PTL DEF Spec, ImplementsRemoteStore, Remote!Spec
===============================================================================
