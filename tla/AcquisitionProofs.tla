--------------------------- MODULE AcquisitionProofs ---------------------------
(***************************************************************************)
(* Theorems about Acquisition, for any number of overlapping calls, any    *)
(* sources and policies, any number of pages and attempts.                 *)
(***************************************************************************)
EXTENDS Acquisition, FiniteSetTheorems, TLAPS

Stages   == {"idle", "acquire", "window", "interval", "request", "backoff", "ok", "failed"}
CallType == [pc : Stages, wake : Nat, slots : 0..2, pages : 0..(MaxPages - 1),
             try : 0..Attempts, overtaken : BOOLEAN, hit : BOOLEAN,
             items : 0..MaxPages \cup {Misread}]

Types ==
  /\ source \in Sources /\ policy \in Policies
  /\ cache = {} \/ \E n \in 0..MaxPages : cache = {n}
  /\ call \in [Calls -> CallType]
  /\ gap \in 0..policy.min /\ age \in 0..policy.window /\ count \in Nat
  /\ sent \in [since : 0..policy.min, retry : BOOLEAN]
  /\ lost \in BOOLEAN

\* A request is one of the attempts, and one that is repeated is not the last.
AttemptsInv ==
  \A c \in Calls :
    /\ call[c].pc = "request" => call[c].try > 0
    /\ call[c].pc = "backoff" => call[c].try > 0 /\ call[c].try < Attempts

\* A call that is not over has not all the pages, or does not know that it has.
PagesInv ==
  \A c \in Calls : call[c].pc \notin {"ok", "failed"} =>
    /\ call[c].pages <= All
    /\ call[c].pages = All => source.kind = "page-number" /\ ~source.short

\* What is cached, or has been answered, is complete unless a page was left out.
Incomplete == source.kind = "page-number" /\ lost
ResultsInv ==
  /\ \A n \in cache : n = All \/ Incomplete
  /\ AnswersAreComplete

\* A request is as old as the last time the limiter let a call pass, unless it was a
\* retry, and a call that sleeps for the interval and was not overtaken will find, when
\* it wakes up, that the interval is over and that the window has room for it.
LimitsInv ==
  /\ sent.retry \/ sent.since >= gap
  /\ \A c \in Calls : (call[c].pc = "interval" /\ ~call[c].overtaken) =>
       /\ gap + call[c].wake >= policy.min
       /\ policy.max > 0 => count < policy.max

IInv == Types /\ AttemptsInv /\ PagesInv /\ ResultsInv /\ LimitsInv
-----------------------------------------------------------------------------
(* The parameters, and numbers.                                            *)

LEMMA SourceAndPolicy ==
  ASSUME Types
  PROVE  /\ source.kind \in {"none", "next-link", "page-number"}
         /\ source.pages \in Nat \ {0}
         /\ source.short \in BOOLEAN /\ source.cyclic \in BOOLEAN /\ source.cached \in BOOLEAN
         /\ source.cyclic => source.kind = "next-link"
         /\ policy.min \in Nat /\ policy.max \in Nat /\ policy.window \in Nat
BY SourcesAssumption, PoliciesAssumption DEF Types

LEMMA AllPages ==
  ASSUME Types
  PROVE  All \in 1..MaxPages /\ MaxPages \in Nat \ {0} /\ All <= MaxPages
BY SourceAndPolicy, AttemptsAssumption DEF All, Paginated

\* The power is the number of subsets of a set of that size.
LEMMA PowerIsNatural == ASSUME NEW n \in Nat PROVE 2 ^ n \in Nat
<1>1. IsFiniteSet(1..n) /\ Cardinality(1..n) = n
  BY FS_Interval
<1>2. IsFiniteSet(SUBSET (1..n)) /\ Cardinality(SUBSET (1..n)) = 2 ^ n
  BY <1>1, FS_SUBSET
<1> QED
  BY <1>2, FS_CardinalityType

LEMMA CallFields ==
  ASSUME Types, NEW c \in Calls
  PROVE  /\ call[c] \in CallType /\ call[c].pc \in Stages /\ call[c].wake \in Nat
         /\ call[c].slots \in 0..2 /\ call[c].pages \in 0..(MaxPages - 1)
         /\ call[c].try \in 0..Attempts /\ call[c].overtaken \in BOOLEAN
         /\ call[c].hit \in BOOLEAN /\ call[c].items \in 0..MaxPages \cup {Misread}
BY DEF Types, CallType

LEMMA IdleIsCall == Idle \in CallType
BY AttemptsAssumption DEF Idle, CallType, Stages
-----------------------------------------------------------------------------
(***************************************************************************)
(* A step of one call, which leaves the other calls and the limiter alone. *)
(***************************************************************************)
\* The call r may take the place of an earlier state of the same call.
Fit(r) ==
  /\ r \in CallType
  /\ r.pc = "request" => r.try > 0
  /\ r.pc = "backoff" => r.try > 0 /\ r.try < Attempts
  /\ r.pc \notin {"ok", "failed"} =>
       /\ r.pages <= All
       /\ r.pages = All => source.kind = "page-number" /\ ~source.short
  /\ r.pc # "interval"

Completed(r, left) ==
  r.pc = "ok" => \/ r.items = All
                 \/ source.kind = "page-number" /\ left
                 \/ r.hit /\ Reprojected

LEMMA OneCall ==
  ASSUME IInv, NEW c \in Calls, NEW r, Fit(r), Completed(r, lost'), lost' \in BOOLEAN,
         lost => lost',
         call' = [call EXCEPT ![c] = r], UNCHANGED <<source, policy, bucket>>,
         UNCHANGED cache \/ (\E n \in 0..MaxPages : cache' = {n} /\ (n = All \/ Incomplete')),
         sent' \in [since : 0..policy.min, retry : BOOLEAN],
         sent'.retry \/ sent'.since >= gap
  PROVE  IInv'
<1>1. /\ call'[c] = r
      /\ \A d \in Calls \ {c} : call'[d] = call[d]
      /\ call' \in [Calls -> CallType]
  BY DEF IInv, Types, Fit
<1>2. All' = All /\ Reprojected' = Reprojected
  BY DEF All, Paginated, Reprojected
<1>3. Types'
  BY <1>1 DEF IInv, Types, bucket
<1>4. AttemptsInv'
  BY <1>1 DEF IInv, AttemptsInv, Fit
<1>5. PagesInv'
  BY <1>1, <1>2 DEF IInv, PagesInv, Fit
<1>6. ResultsInv'
  <2>1. \A n \in cache' : n = All' \/ Incomplete'
    BY <1>2 DEF IInv, ResultsInv, Incomplete
  <2>2. AnswersAreComplete'
    BY <1>1, <1>2 DEF IInv, ResultsInv, AnswersAreComplete, Completed
  <2> QED
    BY <2>1, <2>2 DEF ResultsInv
<1>7. LimitsInv'
  BY <1>1 DEF IInv, LimitsInv, Fit, bucket
<1> QED
  BY <1>3, <1>4, <1>5, <1>6, <1>7 DEF IInv
-----------------------------------------------------------------------------
(* The cache.                                                              *)

LEMMA LookupKeeps == ASSUME IInv, NEW c \in Calls, Lookup(c) PROVE IInv'
<1>1. /\ Types /\ call[c] \in CallType /\ call[c].pc = "idle"
      /\ UNCHANGED <<source, policy, cache, bucket, sent, lost>>
      /\ lost \in BOOLEAN /\ sent \in [since : 0..policy.min, retry : BOOLEAN]
      /\ sent.retry \/ sent.since >= gap
  BY CallFields DEF IInv, Lookup, Types, LimitsInv
<1>2. /\ MaxPages \in Nat \ {0} /\ All \in 1..MaxPages
  BY <1>1, AllPages
<1>3. CASE Hit(c)
  <2>1. PICK n \in cache : call' = [call EXCEPT ![c] = [Idle EXCEPT !.pc = "ok", !.hit = TRUE,
                              !.items = IF Reprojected THEN Misread ELSE n]]
    BY <1>3 DEF Hit
  <2>2. n \in 0..MaxPages /\ (n = All \/ Incomplete)
    BY <1>1, <2>1 DEF IInv, ResultsInv, Types
  <2> DEFINE found == IF Reprojected THEN Misread ELSE n
             r == [Idle EXCEPT !.pc = "ok", !.hit = TRUE, !.items = found]
  <2>3. found \in 0..MaxPages \cup {Misread} /\ (found = n \/ Reprojected)
    BY <2>2
  <2> HIDE DEF found
  <2>4. r \in CallType /\ r.pc = "ok" /\ r.hit = TRUE /\ r.items = found
    BY <2>3, IdleIsCall DEF Idle, CallType, Stages
  <2>5. call' = [call EXCEPT ![c] = r]
    BY <2>1 DEF found
  <2> HIDE DEF r
  <2>6. Fit(r)
    BY <2>4 DEF Fit
  <2>7. Completed(r, lost)
    BY <2>2, <2>3, <2>4 DEF Completed, Incomplete
  <2>8. Completed(r, lost')
    BY <1>1, <2>7
  <2> QED
    BY <1>1, <2>5, <2>6, <2>8, OneCall DEF IInv
<1>4. CASE Miss(c)
  <2> DEFINE slots == IF Paginated THEN 2 ELSE 1
             r == [call[c] EXCEPT !.pc = "acquire", !.slots = slots]
  <2>1. call' = [call EXCEPT ![c] = r]
    BY <1>4 DEF Miss
  <2>2. slots \in 0..2
    OBVIOUS
  <2> HIDE DEF slots
  <2>3. /\ r \in CallType /\ r.pc = "acquire" /\ r.pages = call[c].pages /\ r.try = call[c].try
    BY <1>1, <2>2 DEF CallType, Stages
  <2> HIDE DEF r
  <2>4. Fit(r)
    BY <1>1, <2>3 DEF Fit, IInv, PagesInv
  <2>5. Completed(r, lost')
    BY <2>3 DEF Completed
  <2> QED
    BY <1>1, <2>1, <2>4, <2>5, OneCall DEF IInv
<1> QED
  BY <1>3, <1>4 DEF Lookup
-----------------------------------------------------------------------------
(* Requests and pages.                                                     *)

LEMMA FinishKeeps ==
  ASSUME IInv, NEW c \in Calls, NEW n \in 0..MaxPages, Finish(c, n), lost' \in BOOLEAN, lost => lost',
         n = All \/ Incomplete', UNCHANGED <<source, policy, bucket, sent>>
  PROVE  IInv'
<1> DEFINE r == [Idle EXCEPT !.pc = "ok", !.items = n]
<1>1. r \in CallType /\ r.pc = "ok" /\ r.items = n
  BY IdleIsCall DEF Idle, CallType, Stages
<1>2. call' = [call EXCEPT ![c] = r]
  BY DEF Finish
<1> HIDE DEF r
<1>3. Fit(r)
  BY <1>1 DEF Fit
<1>4. Completed(r, lost')
  BY <1>1 DEF Completed, Incomplete
<1>5. UNCHANGED cache \/ cache' = {n}
  BY DEF Finish
<1>6. sent' \in [since : 0..policy.min, retry : BOOLEAN] /\ (sent'.retry \/ sent'.since >= gap)
  BY DEF IInv, Types, LimitsInv
<1> QED
  BY <1>2, <1>3, <1>4, <1>5, <1>6, OneCall

LEMMA GiveUpKeeps ==
  ASSUME IInv, NEW c \in Calls, GiveUp(c), UNCHANGED <<source, policy, bucket, sent, lost>>
  PROVE  IInv'
<1> DEFINE r == [Idle EXCEPT !.pc = "failed"]
<1>1. r \in CallType /\ r.pc = "failed"
  BY IdleIsCall DEF Idle, CallType, Stages
<1>2. call' = [call EXCEPT ![c] = r] /\ UNCHANGED cache
  BY DEF GiveUp
<1> HIDE DEF r
<1>3. Fit(r)
  BY <1>1 DEF Fit
<1>4. Completed(r, lost')
  BY <1>1 DEF Completed
<1>5. /\ sent' \in [since : 0..policy.min, retry : BOOLEAN] /\ (sent'.retry \/ sent'.since >= gap)
      /\ lost' \in BOOLEAN /\ (lost => lost')
  BY DEF IInv, Types, LimitsInv
<1> QED
  BY <1>2, <1>3, <1>4, <1>5, OneCall

LEMMA NextPageKeeps ==
  ASSUME IInv, NEW c \in Calls, NEW n \in 0..(MaxPages - 1), NextPage(c, n), n <= All,
         n = All => source.kind = "page-number" /\ ~source.short,
         UNCHANGED <<source, policy, bucket, sent, lost>>
  PROVE  IInv'
<1> DEFINE r == [Idle EXCEPT !.pc = "acquire", !.slots = 1, !.pages = n]
<1>1. r \in CallType /\ r.pc = "acquire" /\ r.pages = n
  <2>1. Idle \in CallType /\ n \in 0..(MaxPages - 1) /\ 1 \in 0..2 /\ "acquire" \in Stages
    BY IdleIsCall DEF Stages
  <2>2. r = [Idle EXCEPT !.pc = "acquire", !.slots = 1, !.pages = n]
    OBVIOUS
  <2> QED
    BY <2>1 DEF CallType
<1>2. call' = [call EXCEPT ![c] = r] /\ UNCHANGED cache
  BY DEF NextPage
<1> HIDE DEF r
<1>3. Fit(r)
  BY <1>1 DEF Fit
<1>4. Completed(r, lost')
  BY <1>1 DEF Completed
<1>5. /\ sent' \in [since : 0..policy.min, retry : BOOLEAN] /\ (sent'.retry \/ sent'.since >= gap)
      /\ lost' \in BOOLEAN /\ (lost => lost')
  BY DEF IInv, Types, LimitsInv
<1> QED
  BY <1>2, <1>3, <1>4, <1>5, OneCall

\* After the last page the call is over, and it takes all the pages to get there.
LEMMA LastPage ==
  ASSUME IInv, NEW c \in Calls, call[c].pc = "request"
  PROVE  LET n == call[c].pages + 1
         IN  /\ n \in 1..MaxPages
             /\ (source.kind = "page-number" /\ n > source.pages) => n - 1 = All
             /\ ~(source.kind = "page-number" /\ n > source.pages) =>
                  /\ ~More(n) => n = All
                  /\ More(n) => /\ n < MaxPages /\ n <= All
                                /\ n = All => source.kind = "page-number" /\ ~source.short
<1>1. /\ Types /\ MaxPages \in Nat \ {0} /\ All \in 1..MaxPages
      /\ call[c].pages \in 0..(MaxPages - 1) /\ call[c].pages <= All
      /\ call[c].pages = All => source.kind = "page-number" /\ ~source.short
  BY AllPages, CallFields DEF IInv, PagesInv
<1> QED
  BY <1>1, SourceAndPolicy DEF All, More, Paginated

LEMMA ResponseKeeps == ASSUME IInv, NEW c \in Calls, Response(c) PROVE IInv'
<1> DEFINE n == call[c].pages + 1
<1>1. /\ call[c].pc = "request" /\ UNCHANGED <<source, policy, bucket>>
      /\ call[c] \in CallType /\ lost \in BOOLEAN /\ MaxPages \in Nat \ {0}
      /\ call[c].pages \in 0..(MaxPages - 1)
  BY CallFields, AllPages DEF Response, IInv, Types
<1>2. /\ n \in 1..MaxPages
      /\ (source.kind = "page-number" /\ n > source.pages) => n - 1 = All
      /\ ~(source.kind = "page-number" /\ n > source.pages) =>
           /\ ~More(n) => n = All
           /\ More(n) => /\ n < MaxPages /\ n <= All
                         /\ n = All => source.kind = "page-number" /\ ~source.short
  BY <1>1, LastPage
<1>3. CASE Arrived(c)
  <2> HIDE DEF n
  <2>1. /\ UNCHANGED <<sent, lost>>
        /\ \/ source.kind = "page-number" /\ n > source.pages /\ Finish(c, n - 1)
           \/ ~(source.kind = "page-number" /\ n > source.pages) /\ More(n) /\ NextPage(c, n)
           \/ ~(source.kind = "page-number" /\ n > source.pages) /\ ~More(n) /\ Finish(c, n)
    BY <1>3 DEF Arrived, n
  <2>2. n - 1 \in 0..MaxPages /\ n \in 0..MaxPages /\ (n < MaxPages => n \in 0..(MaxPages - 1))
    BY <1>1, <1>2
  <2> QED
    BY <1>1, <1>2, <2>1, <2>2, FinishKeeps, NextPageKeeps
<1>4. CASE Failed(c)
  <2>1. CASE source.kind # "page-number"
    BY <1>1, <1>4, <2>1, GiveUpKeeps DEF Failed
  <2>2. CASE source.kind = "page-number"
    <3>1. Finish(c, call[c].pages) /\ lost' = TRUE /\ UNCHANGED sent /\ Incomplete'
      BY <1>1, <1>4, <2>2 DEF Failed, Incomplete
    <3>2. call[c].pages \in 0..MaxPages
      BY <1>1
    <3> QED
      BY <1>1, <3>1, <3>2, FinishKeeps
  <2> QED
    BY <2>1, <2>2
<1>5. CASE Unreadable(c)
  BY <1>1, <1>5, GiveUpKeeps DEF Unreadable
<1>6. CASE Backoff(c)
  <2>1. PICK time \in {2 ^ (call[c].try - 1), RetryAfter} :
          call' = [call EXCEPT ![c].pc = "backoff", ![c].wake = time]
    BY <1>6 DEF Backoff
  <2>2. /\ call[c].try \in Nat /\ call[c].try > 0 /\ call[c].try < Attempts
        /\ UNCHANGED <<cache, sent, lost>>
    BY <1>1, <1>6, CallFields DEF Backoff, IInv, AttemptsInv
  <2>3. time \in Nat
    <3>1. call[c].try - 1 \in Nat
      BY <2>2
    <3> QED
      BY <3>1, PowerIsNatural, AttemptsAssumption
  <2> DEFINE r == [call[c] EXCEPT !.pc = "backoff", !.wake = time]
  <2>4. call' = [call EXCEPT ![c] = r]
    BY <2>1
  <2>5. r \in CallType /\ r.pc = "backoff" /\ r.pages = call[c].pages /\ r.try = call[c].try
    BY <1>1, <2>3 DEF CallType, Stages
  <2> HIDE DEF r
  <2>6. Fit(r)
    BY <1>1, <2>2, <2>5 DEF Fit, IInv, PagesInv
  <2>7. Completed(r, lost')
    BY <2>5 DEF Completed
  <2>8. sent' \in [since : 0..policy.min, retry : BOOLEAN] /\ (sent'.retry \/ sent'.since >= gap)
    BY <2>2 DEF IInv, Types, LimitsInv
  <2> QED
    BY <1>1, <2>2, <2>4, <2>6, <2>7, <2>8, OneCall
<1> QED
  BY <1>3, <1>4, <1>5, <1>6 DEF Response

LEMMA RetryKeeps == ASSUME IInv, NEW c \in Calls, Retry(c) PROVE IInv'
<1>1. /\ Types /\ call[c] \in CallType /\ call[c].pc = "backoff"
      /\ call[c].try \in Nat /\ call[c].try > 0 /\ call[c].try < Attempts /\ Attempts \in Nat
      /\ UNCHANGED <<source, policy, cache, bucket, lost>> /\ lost \in BOOLEAN
  BY CallFields, AttemptsAssumption DEF IInv, AttemptsInv, Retry, Types
<1> DEFINE try == call[c].try + 1
           r == [call[c] EXCEPT !.pc = "request", !.try = try]
<1>2. call' = [call EXCEPT ![c] = r]
  BY DEF Retry
<1>8. try \in 0..Attempts /\ try > 0
  BY <1>1
<1> HIDE DEF try
<1>3. r \in CallType /\ r.pc = "request" /\ r.pages = call[c].pages /\ r.try = try
  BY <1>1, <1>8 DEF CallType, Stages
<1> HIDE DEF r
<1>4. Fit(r)
  BY <1>1, <1>3, <1>8 DEF Fit, IInv, PagesInv
<1>5. Completed(r, lost')
  BY <1>3 DEF Completed
<1>6. sent' \in [since : 0..policy.min, retry : BOOLEAN] /\ sent'.retry
  BY <1>1, SourceAndPolicy DEF Retry
<1>7. lost' \in BOOLEAN /\ (lost => lost') /\ UNCHANGED cache /\ UNCHANGED <<source, policy, bucket>>
  BY <1>1
<1> QED
  BY <1>2, <1>4, <1>5, <1>6, <1>7, OneCall
-----------------------------------------------------------------------------
(***************************************************************************)
(* The limiter.                                                            *)
(***************************************************************************)
Waiting == {"acquire", "window", "interval"}

\* A step of the limiter gives c the state r; the others stay, or are overtaken.
LimiterStep(c, r) ==
  /\ r \in CallType /\ r.pc \in Waiting \cup {"request"} /\ r.pages = call[c].pages
  /\ r.pc = "request" => r.try > 0
  /\ call' \in [Calls -> CallType] /\ call'[c] = r
  /\ \A d \in Calls \ {c} : /\ call'[d].pc = call[d].pc /\ call'[d].try = call[d].try
                            /\ call'[d].pages = call[d].pages /\ call'[d].items = call[d].items
                            /\ call'[d].hit = call[d].hit

LEMMA LimiterKeeps ==
  ASSUME IInv, NEW c \in Calls, call[c].pc \in Waiting, NEW r, LimiterStep(c, r),
         UNCHANGED <<source, policy, cache, lost>>,
         gap' \in 0..policy.min, age' \in 0..policy.window, count' \in Nat,
         sent' \in [since : 0..policy.min, retry : BOOLEAN]
  PROVE  Types' /\ AttemptsInv' /\ PagesInv' /\ ResultsInv'
<1>1. All' = All /\ Reprojected' = Reprojected /\ Incomplete' = Incomplete
  BY DEF All, Paginated, Reprojected, Incomplete
<1>2. Types'
  BY DEF IInv, Types, LimiterStep
<1>3. AttemptsInv'
  BY DEF IInv, AttemptsInv, LimiterStep, Waiting
<1>4. PagesInv'
  <2>1. /\ call[c].pages <= All
        /\ call[c].pages = All => source.kind = "page-number" /\ ~source.short
    BY DEF IInv, PagesInv, Waiting
  <2> QED
    BY <1>1, <2>1 DEF IInv, PagesInv, LimiterStep
<1>5. ResultsInv'
  <2>1. \A n \in cache' : n = All' \/ Incomplete'
    BY <1>1 DEF IInv, ResultsInv
  <2>2. AnswersAreComplete'
    BY <1>1 DEF IInv, ResultsInv, AnswersAreComplete, LimiterStep, Waiting
  <2> QED
    BY <2>1, <2>2 DEF ResultsInv
<1> QED
  BY <1>2, <1>3, <1>4, <1>5

LEMMA SleepKeeps ==
  ASSUME IInv, NEW c \in Calls, call[c].pc \in {"acquire", "window"},
         NEW pc \in {"window", "interval"}, NEW time \in Nat, Sleep(c, pc, time),
         UNCHANGED <<source, policy, cache, lost>>, age' \in 0..policy.window,
         count' \in Nat, count' = count \/ count' = 0,
         pc = "interval" => /\ time = policy.min - gap
                            /\ policy.max > 0 => count' < policy.max
  PROVE  IInv'
<1> DEFINE r == [call[c] EXCEPT !.pc = pc, !.wake = time]
<1>1. /\ Types /\ call[c] \in CallType /\ call \in [Calls -> CallType]
      /\ gap \in 0..policy.min /\ policy.min \in Nat /\ policy.max \in Nat /\ count \in Nat
      /\ sent \in [since : 0..policy.min, retry : BOOLEAN] /\ UNCHANGED <<gap, sent>>
  BY CallFields, SourceAndPolicy DEF IInv, Types, Sleep
<1>2. call' = [call EXCEPT ![c] = r]
  BY DEF Sleep
<1>3. /\ r \in CallType /\ r.pc = pc /\ r.pages = call[c].pages /\ r.wake = time
  BY <1>1 DEF CallType, Stages
<1> HIDE DEF r
<1>4. LimiterStep(c, r)
  BY <1>1, <1>2, <1>3 DEF LimiterStep, Waiting
<1>5. Types' /\ AttemptsInv' /\ PagesInv' /\ ResultsInv'
  BY <1>1, <1>4, LimiterKeeps DEF Waiting
<1>6. call'[c] = r /\ \A d \in Calls \ {c} : call'[d] = call[d]
  BY <1>1, <1>2
<1>7. ASSUME NEW d \in Calls, call'[d].pc = "interval", ~call'[d].overtaken
      PROVE  /\ gap' + call'[d].wake >= policy'.min
             /\ policy'.max > 0 => count' < policy'.max
  <2>1. CASE d = c
    BY <1>1, <1>3, <1>6, <1>7, <2>1
  <2>2. CASE d # c
    BY <1>1, <1>6, <1>7, <2>2 DEF IInv, LimitsInv
  <2> QED
    BY <2>1, <2>2
<1>8. LimitsInv'
  BY <1>1, <1>7 DEF IInv, LimitsInv
<1> QED
  BY <1>5, <1>8 DEF IInv

LEMMA GrantKeeps ==
  ASSUME IInv, NEW c \in Calls, call[c].pc \in Waiting, NEW n \in Nat, Grant(c, n),
         UNCHANGED <<source, policy, cache, lost>>, age' \in 0..policy.window
  PROVE  IInv'
<1> DEFINE again == call[c].slots = 2
           r == IF again THEN [call[c] EXCEPT !.pc = "acquire", !.slots = 1, !.overtaken = FALSE]
                ELSE [call[c] EXCEPT !.pc = "request", !.try = 1, !.overtaken = FALSE]
           other(d) == IF call[d].pc \in {"window", "interval"}
                       THEN [call[d] EXCEPT !.overtaken = TRUE] ELSE call[d]
<1>1. /\ Types /\ call[c] \in CallType /\ call \in [Calls -> CallType]
      /\ policy.min \in Nat /\ Attempts \in Nat \ {0}
      /\ sent \in [since : 0..policy.min, retry : BOOLEAN]
  BY CallFields, SourceAndPolicy, AttemptsAssumption DEF IInv, Types
<1>2. call' = [d \in Calls |-> IF d = c THEN r ELSE other(d)]
  BY DEF Grant
<1>3. /\ r \in CallType /\ r.pc \in {"acquire", "request"} /\ r.pages = call[c].pages
      /\ r.pc = "request" => r.try > 0
  <2>1. CASE again
    <3>1. r = [call[c] EXCEPT !.pc = "acquire", !.slots = 1, !.overtaken = FALSE]
      BY <2>1
    <3>2. 1 \in 0..2 /\ 1 \in 0..Attempts /\ "acquire" \in Stages /\ FALSE \in BOOLEAN
      BY <1>1 DEF Stages
    <3>3. [call[c] EXCEPT !.pc = "acquire", !.slots = 1, !.overtaken = FALSE] \in CallType
      BY <1>1, <3>2 DEF CallType
    <3>4. /\ [call[c] EXCEPT !.pc = "acquire", !.slots = 1, !.overtaken = FALSE].pc = "acquire"
          /\ [call[c] EXCEPT !.pc = "acquire", !.slots = 1, !.overtaken = FALSE].pages = call[c].pages
      BY <1>1 DEF CallType
    <3> HIDE DEF r
    <3> QED
      BY <3>1, <3>3, <3>4
  <2>2. CASE ~again
    <3>1. r = [call[c] EXCEPT !.pc = "request", !.try = 1, !.overtaken = FALSE]
      BY <2>2
    <3>2. 1 \in 0..2 /\ 1 \in 0..Attempts /\ "request" \in Stages /\ FALSE \in BOOLEAN
      BY <1>1 DEF Stages
    <3>3. [call[c] EXCEPT !.pc = "request", !.try = 1, !.overtaken = FALSE] \in CallType
      BY <1>1, <3>2 DEF CallType
    <3>4. /\ [call[c] EXCEPT !.pc = "request", !.try = 1, !.overtaken = FALSE].pc = "request"
          /\ [call[c] EXCEPT !.pc = "request", !.try = 1, !.overtaken = FALSE].pages = call[c].pages
          /\ [call[c] EXCEPT !.pc = "request", !.try = 1, !.overtaken = FALSE].try = 1
      BY <1>1 DEF CallType
    <3> HIDE DEF r
    <3> QED
      BY <3>1, <3>3, <3>4
  <2> QED
    BY <2>1, <2>2
<1>4. ASSUME NEW d \in Calls
      PROVE  /\ other(d) \in CallType
             /\ other(d).pc = call[d].pc /\ other(d).try = call[d].try
             /\ other(d).pages = call[d].pages /\ other(d).items = call[d].items
             /\ other(d).hit = call[d].hit
             /\ other(d).pc = "interval" => other(d).overtaken = TRUE
  <2>1. call[d] \in CallType
    BY <1>1
  <2> QED
    BY <2>1 DEF CallType
<1> HIDE DEF r, other
<1>5. /\ call' \in [Calls -> CallType] /\ call'[c] = r
      /\ \A d \in Calls \ {c} : call'[d] = other(d)
  BY <1>2, <1>3, <1>4
<1>6. LimiterStep(c, r)
  BY <1>3, <1>4, <1>5 DEF LimiterStep, Waiting
<1>7. /\ gap' = 0 /\ count' \in Nat
      /\ sent' \in [since : 0..policy.min, retry : BOOLEAN] /\ sent'.since >= 0
  BY <1>1 DEF Grant
<1>8. gap' \in 0..policy.min
  BY <1>1, <1>7
<1>9. Types' /\ AttemptsInv' /\ PagesInv' /\ ResultsInv'
  BY <1>6, <1>7, <1>8, LimiterKeeps
<1>10. LimitsInv'
  <2>1. \A d \in Calls : call'[d].pc = "interval" => call'[d].overtaken = TRUE
    BY <1>3, <1>4, <1>5
  <2> QED
    BY <1>7, <2>1 DEF LimitsInv
<1> QED
  BY <1>9, <1>10 DEF IInv

LEMMA IntervalKeeps ==
  ASSUME IInv, NEW c \in Calls, call[c].pc \in {"acquire", "window"}, NEW n \in Nat,
         n = count \/ n = 0, policy.max > 0 => n < policy.max, Interval(c, n),
         UNCHANGED <<source, policy, cache, lost>>, age' \in 0..policy.window
  PROVE  IInv'
<1>1. policy.min \in Nat /\ gap \in 0..policy.min
  BY SourceAndPolicy DEF IInv, Types
<1>2. CASE Grant(c, n)
  BY <1>2, GrantKeeps DEF Waiting
<1>3. CASE gap < policy.min /\ count' = n /\ Sleep(c, "interval", policy.min - gap)
  <2>1. policy.min - gap \in Nat
    BY <1>1, <1>3
  <2> QED
    BY <1>3, <2>1, SleepKeeps
<1> QED
  BY <1>2, <1>3 DEF Interval

LEMMA AcquireKeeps == ASSUME IInv, NEW c \in Calls, Acquire(c) PROVE IInv'
<1> DEFINE expired == age = policy.window
           n == IF policy.max > 0 /\ expired THEN 0 ELSE count
<1>1. /\ policy.max \in Nat /\ policy.window \in Nat /\ age \in 0..policy.window /\ count \in Nat
      /\ call[c].pc = "acquire" /\ UNCHANGED <<source, policy, cache, lost>>
      /\ age' = IF policy.max > 0 /\ expired THEN 0 ELSE age
  BY SourceAndPolicy DEF IInv, Types, Acquire
<1>2. n \in Nat /\ (n = count \/ n = 0) /\ age' \in 0..policy.window /\ policy.window - age \in Nat
  BY <1>1
<1>3. \/ policy.max > 0 /\ n >= policy.max /\ count' = n /\ Sleep(c, "window", policy.window - age)
      \/ ~(policy.max > 0 /\ n >= policy.max) /\ Interval(c, n)
  BY DEF Acquire
<1> HIDE DEF n
<1>4. CASE policy.max > 0 /\ n >= policy.max /\ count' = n /\ Sleep(c, "window", policy.window - age)
  <2>1. PICK time \in Nat : time = policy.window - age
    BY <1>2
  <2> QED
    BY <1>1, <1>2, <1>4, <2>1, SleepKeeps
<1>5. CASE ~(policy.max > 0 /\ n >= policy.max) /\ Interval(c, n)
  BY <1>1, <1>2, <1>5, IntervalKeeps
<1> QED
  BY <1>3, <1>4, <1>5

LEMMA WakeWindowKeeps == ASSUME IInv, NEW c \in Calls, WakeWindow(c) PROVE IInv'
<1>1. /\ policy.window \in Nat /\ policy.max \in Nat /\ age' = 0
  BY SourceAndPolicy DEF IInv, WakeWindow
<1>2. age' \in 0..policy.window
  BY <1>1
<1> QED
  BY <1>1, <1>2, IntervalKeeps DEF WakeWindow

LEMMA WakeIntervalKeeps == ASSUME IInv, NEW c \in Calls, WakeInterval(c) PROVE IInv'
<1>1. count \in Nat /\ age' \in 0..policy.window
  BY DEF IInv, Types, WakeInterval
<1> QED
  BY <1>1, GrantKeeps DEF WakeInterval, Waiting

LEMMA TickKeeps == ASSUME IInv, Tick PROVE IInv'
<1> DEFINE less(w) == IF w > 0 THEN w - 1 ELSE 0
<1>1. /\ Types /\ call \in [Calls -> CallType] /\ policy.min \in Nat /\ policy.window \in Nat
      /\ gap \in 0..policy.min /\ age \in 0..policy.window
      /\ sent \in [since : 0..policy.min, retry : BOOLEAN]
      /\ UNCHANGED <<source, policy, cache, count, lost>>
  BY SourceAndPolicy DEF IInv, Types, Tick
<1>2. call' = [c \in Calls |-> [call[c] EXCEPT !.wake = less(call[c].wake)]]
  BY DEF Tick
<1>3. \A w \in Nat : less(w) \in Nat /\ (less(w) = w - 1 \/ (w = 0 /\ less(w) = 0))
  OBVIOUS
<1> HIDE DEF less
<1>4. ASSUME NEW c \in Calls
      PROVE  /\ call'[c] \in CallType /\ call'[c].wake = less(call[c].wake)
             /\ call'[c].pc = call[c].pc /\ call'[c].try = call[c].try
             /\ call'[c].pages = call[c].pages /\ call'[c].items = call[c].items
             /\ call'[c].hit = call[c].hit /\ call'[c].overtaken = call[c].overtaken
  <2>1. call[c] \in CallType /\ less(call[c].wake) \in Nat
    BY <1>1, <1>3, CallFields
  <2>2. call'[c] = [call[c] EXCEPT !.wake = less(call[c].wake)]
    BY <1>2
  <2> QED
    BY <2>1, <2>2 DEF CallType
<1>5. /\ gap' \in 0..policy.min /\ age' \in 0..policy.window
      /\ gap' = gap + 1 \/ gap' = policy.min
      /\ sent' \in [since : 0..policy.min, retry : BOOLEAN]
      /\ sent'.retry = sent.retry /\ sent'.since = UpTo(sent.since, policy.min)
  BY <1>1 DEF Tick, UpTo
<1>6. All' = All /\ Reprojected' = Reprojected /\ Incomplete' = Incomplete
  BY <1>1 DEF All, Paginated, Reprojected, Incomplete
<1>7. Types'
  <2>1. call' \in [Calls -> CallType]
    BY <1>2, <1>4
  <2> QED
    BY <1>1, <1>5, <2>1 DEF Types
<1>8. AttemptsInv'
  BY <1>4 DEF IInv, AttemptsInv
<1>9. PagesInv'
  BY <1>1, <1>4, <1>6 DEF IInv, PagesInv
<1>10. ResultsInv'
  BY <1>1, <1>4, <1>6 DEF IInv, ResultsInv, AnswersAreComplete
<1>11. LimitsInv'
  <2>1. sent'.retry \/ sent'.since >= gap'
    BY <1>1, <1>5 DEF IInv, LimitsInv, Tick, UpTo
  <2>2. ASSUME NEW c \in Calls, call'[c].pc = "interval", ~call'[c].overtaken
        PROVE  /\ gap' + call'[c].wake >= policy'.min
               /\ policy'.max > 0 => count' < policy'.max
    <3>1. /\ gap + call[c].wake >= policy.min /\ (policy.max > 0 => count < policy.max)
          /\ call[c].wake \in Nat
      BY <1>1, <1>4, <2>2, CallFields DEF IInv, LimitsInv
    <3>2. gap' + less(call[c].wake) >= policy.min
      BY <1>1, <1>3, <1>5, <3>1
    <3> QED
      BY <1>1, <1>4, <3>1, <3>2
  <2> QED
    BY <2>1, <2>2 DEF LimitsInv
<1> QED
  BY <1>7, <1>8, <1>9, <1>10, <1>11 DEF IInv
-----------------------------------------------------------------------------
(***************************************************************************)
(* The theorems.                                                           *)
(***************************************************************************)
LEMMA InitInvariant == Init => IInv
<1> SUFFICES ASSUME Init PROVE IInv
  OBVIOUS
<1>1. /\ source \in Sources /\ policy \in Policies /\ cache = {}
      /\ call = [c \in Calls |-> Idle] /\ gap = policy.min /\ age = policy.window /\ count = 0
      /\ sent = [since |-> policy.min, retry |-> FALSE] /\ lost = FALSE
  BY DEF Init
<1>2. policy.min \in Nat /\ policy.max \in Nat /\ policy.window \in Nat
  BY <1>1, PoliciesAssumption
<1>3. /\ Idle \in CallType /\ Idle.pc = "idle" /\ Idle.pages = 0
  BY IdleIsCall DEF Idle
<1>4. Types
  <2>1. gap \in 0..policy.min /\ age \in 0..policy.window /\ count \in Nat
    BY <1>1, <1>2
  <2>2. sent \in [since : 0..policy.min, retry : BOOLEAN]
    BY <1>1, <1>2
  <2>3. call \in [Calls -> CallType]
    BY <1>1, <1>3
  <2> QED
    BY <1>1, <2>1, <2>2, <2>3 DEF Types
<1>5. \A c \in Calls : call[c] = Idle
  BY <1>1
<1>6. AttemptsInv /\ PagesInv
  BY <1>3, <1>4, <1>5, AllPages DEF AttemptsInv, PagesInv
<1>7. ResultsInv
  BY <1>1, <1>3, <1>5 DEF ResultsInv, AnswersAreComplete
<1>8. LimitsInv
  BY <1>1, <1>2, <1>3, <1>5 DEF LimitsInv
<1> QED
  BY <1>4, <1>6, <1>7, <1>8 DEF IInv

LEMMA NextInvariant == IInv /\ [Next]_vars => IInv'
<1> SUFFICES ASSUME IInv, [Next]_vars PROVE IInv'
  OBVIOUS
<1>1. CASE Tick
  BY <1>1, TickKeeps
<1>2. CASE \E c \in Calls : Lookup(c)
  BY <1>2, LookupKeeps
<1>3. CASE \E c \in Calls : Step(c)
  BY <1>3, AcquireKeeps, WakeWindowKeeps, WakeIntervalKeeps, ResponseKeeps, RetryKeeps DEF Step
<1>4. CASE UNCHANGED vars
  BY <1>4 DEF vars, bucket, IInv, Types, AttemptsInv, PagesInv, ResultsInv, LimitsInv,
              AnswersAreComplete, Incomplete, All, Paginated, Reprojected
<1> QED
  BY <1>1, <1>2, <1>3, <1>4 DEF Next

\* The strengthened invariant holds of every reachable state of the overlapping requests.
THEOREM AcquisitionInvariant == Spec => []IInv
BY InitInvariant, NextInvariant, PTL DEF Spec

\* Every reachable state is well typed; in particular no call asks for more pages or
\* makes more attempts than it may.
THEOREM AcquisitionTypeCorrect == Spec => []TypeOK
<1>1. IInv => TypeOK
  <2> SUFFICES ASSUME IInv PROVE TypeOK
    OBVIOUS
  <2>1. cache \subseteq 0..MaxPages /\ Cardinality(cache) <= 1
    <3>1. cache = {} \/ \E n \in 0..MaxPages : cache = {n}
      BY DEF IInv, Types
    <3>2. CASE cache = {}
      BY <3>2, FS_EmptySet
    <3>3. CASE \E n \in 0..MaxPages : cache = {n}
      <4>1. PICK n \in 0..MaxPages : cache = {n}
        BY <3>3
      <4>2. Cardinality({n}) = 1
        BY FS_Singleton
      <4> QED
        BY <4>1, <4>2
    <3> QED
      BY <3>1, <3>2, <3>3
  <2> QED
    BY <2>1, CallFields DEF IInv, Types, TypeOK, Stages
<1> QED
  BY <1>1, AcquisitionInvariant, PTL

\* What is reported as a success is complete, except after a failed numbered page and
\* when cached pages are searched as a single one, although calls overlap, requests
\* fail and are repeated, and the cache is shared.
THEOREM SuccessIsComplete == Spec => []AnswersAreComplete
<1>1. IInv => AnswersAreComplete
  BY DEF IInv, ResultsInv
<1> QED
  BY <1>1, AcquisitionInvariant, PTL

LEMMA GrantWithinLimits ==
  ASSUME IInv, NEW c \in Calls, NEW n \in Nat, Grant(c, n), gap = policy.min,
         policy.max > 0 => n < policy.max, UNCHANGED policy,
         NEW d \in Calls, call[d].pc \in Waiting, call'[d].pc = "request"
  PROVE  /\ sent.since = policy.min \/ sent.retry
         /\ policy.max > 0 => count' <= policy.max
<1>1. policy.min \in Nat /\ policy.max \in Nat /\ sent.since \in 0..policy.min
  BY SourceAndPolicy DEF IInv, Types
<1>2. sent.retry \/ sent.since >= policy.min
  BY DEF IInv, LimitsInv
<1>3. count' = n + 1
  BY DEF Grant
<1> QED
  BY <1>1, <1>2, <1>3

\* The limiter keeps the policy of its host for any number of callers, except where one
\* is released while another sleeps, and except for repeated attempts.
THEOREM LimiterKeepsLimits == Spec => LimitsKept
<1> DEFINE Released(d) == call[d].pc \in Waiting /\ call'[d].pc = "request"
           Within(d) == \/ call[d].overtaken
                        \/ /\ sent.since = policy.min \/ sent.retry
                           /\ policy.max > 0 => count' <= policy.max
<1>1. ASSUME IInv, [Next]_vars, NEW d \in Calls, Released(d)
      PROVE  Within(d)
  <2>1. /\ policy.min \in Nat /\ policy.max \in Nat /\ count \in Nat
        /\ call \in [Calls -> CallType] /\ gap \in 0..policy.min
    BY <1>1, SourceAndPolicy DEF IInv, Types
  <2>2. CASE Tick
    <3>1. call'[d].pc = call[d].pc
      BY <1>1, <2>1, <2>2 DEF Tick, CallType
    <3> QED
      BY <1>1, <3>1 DEF Waiting
  <2>3. CASE UNCHANGED vars
    BY <1>1, <2>3 DEF vars, Waiting
  <2>4. ASSUME NEW c \in Calls, Lookup(c) PROVE FALSE
    BY <1>1, <2>1, <2>4 DEF Lookup, Hit, Miss, Waiting
  <2>5. ASSUME NEW c \in Calls, Response(c) \/ Retry(c) PROVE FALSE
    BY <1>1, <2>1, <2>5 DEF Response, Arrived, Failed, Unreadable, Backoff, Retry, Finish, GiveUp,
                            NextPage, Waiting
  <2>6. ASSUME NEW c \in Calls, NEW pc \in {"window", "interval"}, NEW time, Sleep(c, pc, time)
        PROVE  FALSE
    BY <1>1, <2>1, <2>6 DEF Sleep, Waiting
  <2>7. ASSUME NEW c \in Calls, NEW n \in Nat, policy.max > 0 => n < policy.max, Interval(c, n),
               UNCHANGED policy
        PROVE  Within(d)
    BY <1>1, <2>6, <2>7, GrantWithinLimits DEF Interval
  <2>8. ASSUME NEW c \in Calls, Acquire(c) PROVE Within(d)
    <3> DEFINE n == IF policy.max > 0 /\ age = policy.window THEN 0 ELSE count
    <3>1. /\ n \in Nat /\ UNCHANGED policy
          /\ \/ Sleep(c, "window", policy.window - age)
             \/ ~(policy.max > 0 /\ n >= policy.max) /\ Interval(c, n)
      BY <2>1, <2>8 DEF Acquire
    <3> HIDE DEF n
    <3> QED
      BY <2>1, <2>6, <2>7, <3>1
  <2>9. ASSUME NEW c \in Calls, WakeWindow(c) PROVE Within(d)
    BY <2>1, <2>7, <2>9 DEF WakeWindow
  <2>10. ASSUME NEW c \in Calls, WakeInterval(c) PROVE Within(d)
    <3>1. /\ Grant(c, count) /\ UNCHANGED policy
          /\ call[c].pc = "interval" /\ call[c].wake = 0
      BY <2>10 DEF WakeInterval
    <3>2. d = c
      BY <1>1, <2>1, <3>1 DEF Grant, Waiting
    <3>3. CASE ~call[c].overtaken
      <4>1. gap = policy.min /\ (policy.max > 0 => count < policy.max)
        BY <1>1, <2>1, <3>1, <3>3 DEF IInv, LimitsInv
      <4> QED
        BY <1>1, <2>1, <3>1, <3>2, <4>1, GrantWithinLimits
    <3> QED
      BY <3>2, <3>3
  <2> QED
    BY <1>1, <2>2, <2>3, <2>4, <2>5, <2>8, <2>9, <2>10 DEF Next, Step
<1>2. IInv /\ [Next]_vars =>
        [\A c \in Calls :
           (call[c].pc \in {"acquire", "window", "interval"} /\ call'[c].pc = "request") =>
             \/ call[c].overtaken
             \/ /\ sent.since = policy.min \/ sent.retry
                /\ policy.max > 0 => count' <= policy.max]_vars
  BY <1>1 DEF Waiting
<1> QED
  BY <1>2, AcquisitionInvariant, PTL DEF Spec, LimitsKept
=============================================================================
