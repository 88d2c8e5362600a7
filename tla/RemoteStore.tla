----------------------------- MODULE RemoteStore -----------------------------
(***************************************************************************)
(* What a caller of the REST store (rest-store-client) may rely on for the *)
(* writes to one document, without attempts, messages or a server.         *)
(*                                                                         *)
(* A call takes effect once per attempt at most, and at least once when it *)
(* reports success.  It takes effect while it is open; a call that lost    *)
(* sight of one of its attempts may do so after it has returned as well.   *)
(* What a call does not set itself it takes from a document stored since   *)
(* it was made, or drops.                                                  *)
(***************************************************************************)
EXTENDS Naturals, Sequences

CONSTANTS Ops, Tries

VARIABLES
  doc,    \* [body, stmts, by]: the calls that set its data and its statements, the last call
  calls   \* [op, st, applied, seen, loose]

vars == <<doc, calls>>

Init ==
  /\ doc = [body |-> 0, stmts |-> 0, by |-> 0]
  /\ calls = <<>>

\* The part of a document that a call does not set.
Rest(op, d) ==
  CASE op = "put" -> d.stmts [] op = "statements" -> d.body [] op = "remove" -> 0

\* The document call n leaves behind, with the rest r.
Effect(n, r) ==
  CASE calls[n].op = "put"        -> [body |-> n, stmts |-> r, by |-> n]
    [] calls[n].op = "statements" -> [body |-> r, stmts |-> n, by |-> n]
    [] calls[n].op = "remove"     -> [body |-> 0, stmts |-> 0, by |-> n]

Invoke(op) ==
  /\ calls' = Append(calls, [op |-> op, st |-> "open", applied |-> 0,
                             seen |-> {Rest(op, doc)}, loose |-> FALSE])
  /\ UNCHANGED doc

Apply(n) ==
  /\ calls[n].st = "open" \/ calls[n].loose
  /\ calls[n].applied < Tries
  /\ \E r \in calls[n].seen \cup {0} : doc' = Effect(n, r)
  /\ calls' = [m \in DOMAIN calls |->
                 [calls[m] EXCEPT !.applied = IF m = n THEN @ + 1 ELSE @,
                                  !.seen = IF calls[m].st = "open" \/ calls[m].loose
                                           THEN @ \cup {Rest(calls[m].op, doc')} ELSE {}]]

Lose(n) ==
  /\ calls[n].st = "open"
  /\ \E st \in {"open", "failed"} :
       calls' = [calls EXCEPT ![n].loose = TRUE, ![n].st = st]
  /\ UNCHANGED doc

Return(n) ==
  /\ calls[n].st = "open"
  /\ \E st \in {"ok", "failed", "refused"} :
       /\ st = "ok" => calls[n].applied > 0
       /\ calls' = [calls EXCEPT ![n].st = st,
                                 ![n].seen = IF calls[n].loose THEN @ ELSE {}]
  /\ UNCHANGED doc

Next ==
  \/ \E op \in Ops : Invoke(op)
  \/ \E n \in DOMAIN calls : Apply(n) \/ Lose(n) \/ Return(n)

Spec == Init /\ [][Next]_vars
==============================================================================
