------------------------------ MODULE RestWrites ------------------------------
(***************************************************************************)
(* Writes to one document through the REST store: RESTClientStore sends    *)
(* PUT, DELETE and PUT .../_statements through ky, which repeats an        *)
(* attempt after a network error or a 5xx answer (rest-store-client);      *)
(* createStoreRestHandler runs the command on the server's Store           *)
(* (rest-store-server), whose upsert and writeStatements read the document *)
(* before they rewrite it (sparql-db-impl), and rewrite it without its     *)
(* rest when they have not found it.                                       *)
(*                                                                         *)
(* A call is its number, and so is the Idempotency-Key its attempts share; *)
(* the server does not look at the key.  An attempt is <<call, try>>.  A   *)
(* body or a set of statements is the number of the call that sent it.     *)
(***************************************************************************)
EXTENDS Naturals, Sequences

CONSTANTS
  Limit,      \* retries per call
  MaxCalls,   \* bound: calls
  MaxFaults   \* bound: broken connections, time-outs, errors after a write

ASSUME LimitAssumption == Limit \in Nat
ASSUME BoundsAssumption == MaxCalls \in Nat /\ MaxFaults \in Nat

VARIABLES
  doc,       \* the document on the server, and the last call that wrote it
  calls,     \* the clients' calls, in the order they were made
  requests,  \* attempts on their way to the server
  running,   \* attempts the server executes, with the document they have read
  faults

vars == <<doc, calls, requests, running, faults>>
-----------------------------------------------------------------------------
Ops    == {"put", "remove", "statements"}
Absent == 0
NoDoc  == [body |-> Absent, stmts |-> Absent, by |-> 0]

\* upsert reads the stored statements, writeStatements the rest of the document.
Rest(op, d) ==
  CASE op = "put" -> d.stmts [] op = "statements" -> d.body [] op = "remove" -> Absent

Open(n)   == calls[n].st = "open"
Latest(n) == <<n, calls[n].try>>
Waits(at) == Open(at[1]) /\ at = Latest(at[1])

Fault == faults < MaxFaults /\ faults' = faults + 1

Init ==
  /\ doc = NoDoc
  /\ calls = <<>>
  /\ requests = {} /\ running = {}
  /\ faults = 0
-----------------------------------------------------------------------------
(* The client.                                                             *)

\* upsert, remove or writeStatements: the first attempt.
Invoke(op) ==
  /\ Len(calls) < MaxCalls
  /\ calls' = Append(calls,
       [op |-> op, try |-> 0, st |-> "open", loose |-> FALSE,
        after |-> {m \in DOMAIN calls : ~Open(m)}, applied |-> 0, seen |-> {Rest(op, doc)}])
  /\ requests' = requests \cup {<<Len(calls) + 1, 0>>}
  /\ UNCHANGED <<doc, running, faults>>

\* A call that lost sight of no attempt is over when it returns.
Returned(call, st) == [call EXCEPT !.st = st, !.seen = IF call.loose THEN @ ELSE {}]

\* Mutant of RetryOrFail: after the last retry nothing reports the failure.
RetryOrHang(n, sent, loose) ==
  /\ calls' = [calls EXCEPT ![n].try = IF @ < Limit THEN @ + 1 ELSE @, ![n].loose = loose]
  /\ requests' = IF calls[n].try < Limit THEN sent \cup {<<n, calls[n].try + 1>>} ELSE sent

\* Mutant of RetryOrFail: one retry too many.
RetryOnceMore(n, sent, loose) ==
  /\ calls' = [calls EXCEPT ![n].try = @ + 1, ![n].loose = loose,
                            ![n].st = IF calls[n].try <= Limit THEN @ ELSE "failed"]
  /\ requests' = IF calls[n].try <= Limit THEN sent \cup {<<n, calls[n].try + 1>>} ELSE sent

\* The current attempt of n failed in a way that is repeated: a network error or
\* a status of defaultRestTransportRetry.
RetryOrFail(n, sent, loose) ==
  \/ /\ calls[n].try < Limit
     /\ calls' = [calls EXCEPT ![n].try = @ + 1, ![n].loose = loose]
     /\ requests' = sent \cup {<<n, calls[n].try + 1>>}
  \/ /\ calls[n].try = Limit
     /\ calls' = [calls EXCEPT ![n] = Returned([@ EXCEPT !.loose = loose], "failed")]
     /\ requests' = sent

\* The answer to an attempt, if its client still waits for it.  How long the
\* answer travels is part of how long the server takes.
Answered(at, status, sent) ==
  \/ /\ ~Waits(at)
     /\ requests' = sent /\ UNCHANGED calls
  \/ /\ Waits(at) /\ status # "again"
     /\ calls' = [calls EXCEPT ![at[1]] = Returned(@, status)]
     /\ requests' = sent
  \/ /\ Waits(at) /\ status = "again"
     /\ RetryOrFail(at[1], sent, calls[at[1]].loose)

\* The connection of the current attempt breaks, before or after its request
\* was handed over.  A gateway's 502 or 504 is the same thing to the client.
Lost(n) ==
  /\ Open(n)
  /\ Fault
  /\ UNCHANGED <<doc, running>>

Break(n) ==
  /\ Lost(n)
  /\ \E sent \in {requests, requests \ {Latest(n)}} : RetryOrFail(n, sent, TRUE)

\* ky's TimeoutError is not repeated; the request is not taken back.
Timeout(n) ==
  /\ Lost(n)
  /\ calls' = [calls EXCEPT ![n] = Returned([@ EXCEPT !.loose = TRUE], "failed")]
  /\ UNCHANGED requests
-----------------------------------------------------------------------------
(* The server.                                                             *)

\* verifyAuth, an invalid command, a missing capability: a 4xx or 501, which is
\* not repeated.
Refuse(at) ==
  /\ at \in requests
  /\ Answered(at, "refused", requests \ {at})
  /\ UNCHANGED <<doc, running, faults>>

\* The Store's load finds the rest of the document, or nothing of it: upsert swallows
\* the error of its load, and a document without a required property loads as its
\* "@id" alone.  Which documents are complete is left open.
Found(op) == {Rest(op, doc), Absent}

Started(at, r) == [at |-> at, saved |-> FALSE, read |-> r]

\* Mutant of Accept: the command is executed, and executed again.
AcceptTwice(at) ==
  /\ at \in requests
  /\ requests' \in {requests, requests \ {at}}
  /\ \E r \in Found(calls[at[1]].op) : running' = running \cup {Started(at, r)}
  /\ UNCHANGED <<doc, calls, faults>>

\* The handler passes the command to the Store, whatever its Idempotency-Key.
\* There upsert and writeStatements first read.
Accept(at) ==
  /\ at \in requests
  /\ requests' = requests \ {at}
  /\ \E r \in Found(calls[at[1]].op) : running' = running \cup {Started(at, r)}
  /\ UNCHANGED <<doc, calls, faults>>

\* Mutant of Rewritten: a statement write stores the document its client holds.
RewrittenWhole(n, r) ==
  CASE calls[n].op = "put"        -> [body |-> n, stmts |-> r, by |-> n]
    [] calls[n].op = "statements" -> [body |-> n, stmts |-> n, by |-> n]
    [] calls[n].op = "remove"     -> [NoDoc EXCEPT !.by = n]

\* What upsert, writeStatements and remove store, having read r.
Rewritten(n, r) ==
  CASE calls[n].op = "put"        -> [body |-> n, stmts |-> r, by |-> n]
    [] calls[n].op = "statements" -> [body |-> r, stmts |-> n, by |-> n]
    [] calls[n].op = "remove"     -> [NoDoc EXCEPT !.by = n]

Save(x) ==
  LET n == x.at[1] IN
  /\ x \in running /\ ~x.saved
  /\ doc' = Rewritten(n, x.read)
  /\ calls' = [m \in DOMAIN calls |->
                 [calls[m] EXCEPT !.applied = IF m = n THEN @ + 1 ELSE @,
                                  !.seen = IF Open(m) \/ calls[m].loose
                                           THEN @ \cup {Rest(calls[m].op, doc')} ELSE {}]]
  /\ running' = (running \ {x}) \cup {[x EXCEPT !.saved = TRUE, !.read = Absent]}
  /\ UNCHANGED <<requests, faults>>

\* Mutant of Answer: the answer does not wait for the Store.
AnswerAtOnce(x) ==
  /\ x \in running
  /\ running' = IF x.saved THEN running \ {x} ELSE running
  /\ Answered(x.at, "ok", requests)
  /\ UNCHANGED <<doc, faults>>

\* How an error of the Store is answered: 400 or 501 if it is an InvalidIriError or
\* carries that status, 500 by the adapter otherwise.  (A 413, 429 or 503 in front of
\* the handler is a 500 to the client.)
Errors == {"refused", "again"}

\* 200; or the answer to an error of a later step of the Store's operation, as
\* of the inverse sync, which checks the linked IRIs.
Answer(x) ==
  /\ x \in running /\ x.saved
  /\ running' = running \ {x}
  /\ \/ Answered(x.at, "ok", requests) /\ UNCHANGED faults
     \/ Fault /\ \E status \in Errors : Answered(x.at, status, requests)
  /\ UNCHANGED doc

\* The Store's operation throws before it has written.
Fail(x) ==
  /\ x \in running /\ ~x.saved
  /\ running' = running \ {x}
  /\ \E status \in Errors : Answered(x.at, status, requests)
  /\ UNCHANGED <<doc, faults>>
-----------------------------------------------------------------------------
TriesOf(n) == {n} \X (0..Limit)

Serve(n) ==
  \/ \E at \in TriesOf(n) : Refuse(at) \/ Accept(at)
  \/ \E x \in running : x.at[1] = n /\ (Save(x) \/ Answer(x) \/ Fail(x))

Next ==
  \/ \E op \in Ops : Invoke(op)
  \/ \E n \in DOMAIN calls : Break(n) \/ Timeout(n) \/ Serve(n)

\* A connection that does not break carries the request and the answer, and the
\* server executes what it has accepted.
Fairness == WF_vars(\E n \in 1..MaxCalls : Serve(n))

Spec == Init /\ [][Next]_vars /\ Fairness
-----------------------------------------------------------------------------
(***************************************************************************)
(* Properties                                                              *)
(***************************************************************************)
Numbers == 0..MaxCalls
Docs    == [body : Numbers, stmts : Numbers, by : Numbers]

TypeOK ==
  /\ doc \in Docs
  /\ \A n \in DOMAIN calls :
       calls[n] \in [op : Ops, try : 0..Limit,
                     st : {"open", "ok", "failed", "refused"}, loose : BOOLEAN,
                     after : SUBSET Numbers, applied : Nat, seen : SUBSET Numbers]
  /\ requests \subseteq UNION {TriesOf(n) : n \in DOMAIN calls}
  /\ running \subseteq [at : UNION {TriesOf(n) : n \in DOMAIN calls}, saved : BOOLEAN, read : Numbers]
  /\ faults \in 0..MaxFaults

\* A client that got its answer may rely on it: no call that had returned before the
\* successful write m was made is the last to have written, unless it had lost
\* sight of one of its attempts.
LatestWriteStands ==
  \A m \in DOMAIN calls : calls[m].st = "ok" =>
    \/ doc.by # 0 /\ doc.by \notin calls[m].after
    \/ doc.by # 0 /\ calls[doc.by].loose

\* The data changes when a put or a removal takes effect for the first time, or by a
\* repeated attempt, which may bring an overwritten version back; a statement write
\* changes it only by undoing a write it overlaps, or by dropping it where its load
\* found nothing.  Likewise for the statements, which a put may undo or drop.
OnlyRepeatsBringBack ==
  [][LET m == doc'.by
         firstOrRepeat == calls[m].applied = 0 \/ calls[m].try > 0
         overlaps == doc.by \notin calls[m].after \/ calls[doc.by].loose
     IN  /\ doc'.body # doc.body =>
              IF calls[m].op = "statements" THEN doc'.body = Absent \/ overlaps ELSE firstOrRepeat
         /\ doc'.stmts # doc.stmts =>
              IF calls[m].op = "put" THEN doc'.stmts = Absent \/ overlaps ELSE firstOrRepeat]_vars

\* ky gives up at last: every call is answered or fails.
EveryCallReturns ==
  \A n \in 1..MaxCalls : n \in DOMAIN calls ~> n \in DOMAIN calls /\ ~Open(n)

\* RestWrites implements RemoteStore.
Promised ==
  [n \in DOMAIN calls |-> [op |-> calls[n].op, st |-> calls[n].st, applied |-> calls[n].applied,
                           seen |-> calls[n].seen, loose |-> calls[n].loose]]
Remote == INSTANCE RemoteStore WITH calls <- Promised, Tries <- Limit + 1
ImplementsRemoteStore == Remote!Spec
=============================================================================
