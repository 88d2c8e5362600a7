-------------------------- MODULE CalcInvalidation --------------------------
(***************************************************************************)
(* The calc tier: createCalcWorker warms every root once and then          *)
(* subscribes to the store's change events (subscribeCalcInvalidation);    *)
(* warm() evaluates the formulas of the affected roots and writes the      *)
(* results back with writeStatements, which loads the document, merges the *)
(* statements and persists it; each such write emits an event again.       *)
(* Users save and remove roots and the entities they refer to.             *)
(*                                                                         *)
(* An input is the number of the write that set it.  A result is           *)
(* identified with its input fingerprint: the inputs it was computed from. *)
(***************************************************************************)
EXTENDS Naturals, Sequences, FiniteSets

CONSTANTS
  Roots,       \* entities of the root type, which carry the calculated slots
  Children,    \* entities of the type the roots refer to
  Edge,        \* the child a root's formulas read
  Clients,     \* slots for concurrent user writes
  MaxWrites,        \* bound: user writes
  MaxDisturbances   \* bound: failed requests and warmNow() calls

ASSUME EdgeAssumption == Edge \in [Roots -> Children]
ASSUME BoundsAssumption == MaxWrites \in Nat \ {0} /\ MaxDisturbances \in Nat

VARIABLES
  docs,       \* stored roots: [in: input, mat: fingerprint of the stored result]
  childIn,    \* stored input of each child
  users,      \* user writes in flight
  warms,      \* running warm() calls
  running,    \* subscribeCalcInvalidation's `running` # null
  queued,     \* its `queued`
  climbs,     \* climbAffectedRoots calls in flight, by child
  phase,      \* "starting", "live" (subscribed) or "stopped"
  excused,    \* roots for which a change went unnoticed or a warm failed
  writes, faults, warmNows

vars == <<docs, childIn, users, warms, running, queued, climbs, phase, excused,
          writes, faults, warmNows>>
store    == <<docs, childIn>>
schedule == <<warms, running, queued, climbs>>
bounds   == <<faults, warmNows>>
-----------------------------------------------------------------------------
Absent  == 0
NoMat   == <<>>
NoUser  == [st |-> "idle"]
NoTask  == [all |-> FALSE, roots |-> {}]
All     == [all |-> TRUE, roots |-> {}]
Only(S) == [all |-> FALSE, roots |-> S]

Present == {r \in Roots : docs[r] # [in |-> Absent, mat |-> NoMat]}
Fingerprint(r) == <<docs[r].in, childIn[Edge[r]]>>
RootsOf(k) == {r \in Present : Edge[r] = k}

\* A warm() call: `todo` is still to be loaded, `seen` holds the fingerprints of
\* the loaded roots, `at` is the root whose statements are being written.
NoRoot == "none"
ASSUME NamesAssumption == Roots \cap Children = {} /\ NoRoot \notin Roots
Run(by, task) ==
  [by |-> by, todo |-> IF task.all THEN Present ELSE task.roots,
   seen |-> [r \in Roots |-> NoMat], at |-> NoRoot, cur |-> Absent, st |-> "run"]

Fault == faults + warmNows < MaxDisturbances /\ faults' = faults + 1

Init ==
  /\ docs = [r \in Roots |-> [in |-> 1, mat |-> NoMat]]
  /\ childIn = [k \in Children |-> 1]
  /\ users = [c \in Clients |-> NoUser]
  /\ warms = <<[by |-> "now", todo |-> Roots, seen |-> [r \in Roots |-> NoMat],
                at |-> NoRoot, cur |-> Absent, st |-> "run"]>>
  /\ running = FALSE /\ queued = NoTask
  /\ climbs = [k \in Children |-> 0]
  /\ phase = "starting"
  /\ excused = {}
  /\ writes = 1 /\ faults = 0 /\ warmNows = 0
-----------------------------------------------------------------------------
(* The subscription.                                                       *)

\* Mutant of Merge: the queued task is replaced.
LastTask(q, t) == t

\* Mutant of Merge: the targets are kept beside a full sweep.
KeepTargets(q, t) == [all |-> q.all \/ t.all, roots |-> q.roots \cup t.roots]

\* A full sweep subsumes a targeted run; targeted runs are united.
Merge(q, t) ==
  IF q.all \/ t.all THEN All ELSE Only(q.roots \cup t.roots)

\* Mutant of RunOrQueue: every trigger starts a warm().
RunAtOnce(t, ws, active) ==
  /\ warms' = Append(ws, Run("sub", t))
  /\ running' = TRUE
  /\ UNCHANGED queued

\* runOrQueue(t), with the other warm() calls ws and `running` = active.
RunOrQueue(t, ws, active) ==
  \/ /\ active
     /\ queued' = Merge(queued, t)
     /\ warms' = ws /\ running' = TRUE
  \/ /\ ~active
     /\ warms' = Append(ws, Run("sub", t))
     /\ running' = TRUE
     /\ UNCHANGED queued

\* The listener, for an event about the roots S; nobody listens unless live.
Heard(S) == IF phase = "live" THEN excused ELSE excused \cup S

OnRootEvent(t, ws) ==
  /\ IF phase = "live" THEN RunOrQueue(t, ws, running)
     ELSE warms' = ws /\ UNCHANGED <<running, queued>>
  /\ UNCHANGED climbs

\* A child changed: climb to its roots first.
OnChildEvent(k) ==
  /\ climbs' = IF phase = "live" THEN [climbs EXCEPT ![k] = @ + 1] ELSE climbs
  /\ UNCHANGED <<warms, running, queued>>

\* The climb ends: no root found means a full sweep.
ClimbEnds(k) ==
  /\ climbs[k] > 0
  /\ climbs' = [climbs EXCEPT ![k] = @ - 1]
  /\ RunOrQueue(IF RootsOf(k) = {} THEN All ELSE Only(RootsOf(k)), warms, running)
  /\ UNCHANGED <<store, users, phase, excused, writes, bounds>>

ClimbFails(k) ==
  /\ climbs[k] > 0
  /\ Fault
  /\ climbs' = [climbs EXCEPT ![k] = @ - 1]
  /\ excused' = excused \cup {r \in Roots : Edge[r] = k}
  /\ UNCHANGED <<store, users, warms, running, queued, phase, writes, warmNows>>

\* createCalcWorker: subscribe once the first sweep is done.
Subscribe ==
  /\ phase = "starting" /\ warms = <<>>
  /\ phase' = "live"
  /\ UNCHANGED <<store, users, schedule, excused, writes, bounds>>

\* stop(): what is queued still runs, and climbs under way still report.
Stop ==
  /\ phase = "live"
  /\ phase' = "stopped"
  /\ UNCHANGED <<store, users, schedule, excused, writes, bounds>>
-----------------------------------------------------------------------------
(* User writes.                                                            *)

\* upsert of a root: persistDocument loads the stored statements first.
SaveRoot(c, r) ==
  /\ users[c] = NoUser
  /\ writes < MaxWrites
  /\ writes' = writes + 1
  /\ users' = [users EXCEPT ![c] = [st |-> "save", e |-> r, mat |-> docs[r].mat,
                                    in |-> writes + 1]]
  /\ UNCHANGED <<store, schedule, phase, excused, bounds>>

\* ... and then rewrites the entity with them.
RootSaved(c) ==
  /\ users[c].st = "save"
  /\ docs' = [docs EXCEPT ![users[c].e] = [in |-> users[c].in, mat |-> users[c].mat]]
  /\ users' = [users EXCEPT ![c] = [st |-> "saved", e |-> users[c].e]]
  /\ UNCHANGED <<childIn, schedule, phase, excused, writes, bounds>>

RemoveRoot(c, r) ==
  /\ users[c] = NoUser
  /\ writes < MaxWrites
  /\ writes' = writes + 1
  /\ docs' = [docs EXCEPT ![r] = [in |-> Absent, mat |-> NoMat]]
  /\ users' = [users EXCEPT ![c] = [st |-> "removed", e |-> r]]
  /\ UNCHANGED <<childIn, schedule, phase, excused, bounds>>

SaveChild(c, k) ==
  /\ users[c] = NoUser
  /\ writes < MaxWrites
  /\ writes' = writes + 1
  /\ childIn' = [childIn EXCEPT ![k] = writes + 1]
  /\ users' = [users EXCEPT ![c] = [st |-> "savedChild", e |-> k]]
  /\ UNCHANGED <<docs, schedule, phase, excused, bounds>>

\* The answer arrives and the store emits the event.
UserEmits(c) ==
  /\ LET e == users[c].e IN
     \/ /\ users[c].st = "saved"
        /\ OnRootEvent(Only({e}), warms) /\ excused' = Heard({e})
     \/ /\ users[c].st = "removed"
        /\ OnRootEvent(All, warms) /\ excused' = Heard({e})
     \/ /\ users[c].st = "savedChild"
        /\ OnChildEvent(e) /\ excused' = Heard({r \in Roots : Edge[r] = e})
  /\ users' = [users EXCEPT ![c] = NoUser]
  /\ UNCHANGED <<store, phase, writes, bounds>>
-----------------------------------------------------------------------------
(* warm().                                                                 *)

Without(i) == SubSeq(warms, 1, i - 1) \o SubSeq(warms, i + 1, Len(warms))

\* warmNow(): outside of `running` and `queued`.
WarmNow ==
  /\ phase # "starting"
  /\ faults + warmNows < MaxDisturbances
  /\ warmNows' = warmNows + 1
  /\ warms' = Append(warms, Run("now", All))
  /\ UNCHANGED <<store, users, running, queued, climbs, phase, excused, writes, faults>>

\* evaluateForRoots: loadOne for the next root; a root that is gone is loaded as its bare
\* IRI, from which no value can be calculated, so there is nothing to write for it.
Load(i, r) ==
  /\ r \in warms[i].todo
  /\ warms' = [warms EXCEPT ![i].todo = @ \ {r},
                 ![i].seen[r] = IF r \in Present THEN Fingerprint(r) ELSE NoMat]
  /\ UNCHANGED <<store, users, running, queued, climbs, phase, excused, writes, bounds>>

\* warmNow() passes skipFresh: false; an event's run and the first sweep, true.
Skips(i) == warms[i].by = "sub" \/ phase = "starting"

\* Mutant of Fresh: every run writes every root.
NeverFresh(i, r) == FALSE

Fresh(i, r) == Skips(i) /\ docs[r].mat = warms[i].seen[r]

\* A root whose result is stored with this fingerprint, or that lacks an input.
SkipTarget(i, r) ==
  /\ warms[i].todo = {} /\ warms[i].at = NoRoot
  /\ warms[i].seen[r] # NoMat
  /\ Fresh(i, r) \/ warms[i].seen[r][1] = Absent
  /\ warms' = [warms EXCEPT ![i].seen[r] = NoMat]
  /\ UNCHANGED <<store, users, running, queued, climbs, phase, excused, writes, bounds>>

\* writeStatements: loadDocument.
WriteTarget(i, r) ==
  /\ warms[i].todo = {} /\ warms[i].at = NoRoot
  /\ warms[i].seen[r] # NoMat
  /\ ~Fresh(i, r) /\ warms[i].seen[r][1] # Absent
  /\ warms' = [warms EXCEPT ![i].at = r, ![i].cur = docs[r].in, ![i].st = "loaded"]
  /\ UNCHANGED <<store, users, running, queued, climbs, phase, excused, writes, bounds>>

\* ... persistDocument, with everything that was loaded.
Persist(i) ==
  /\ warms[i].st = "loaded"
  /\ docs' = [docs EXCEPT ![warms[i].at] = [in |-> warms[i].cur,
                                            mat |-> warms[i].seen[warms[i].at]]]
  /\ warms' = [warms EXCEPT ![i].st = "persisted"]
  /\ UNCHANGED <<childIn, users, running, queued, climbs, phase, excused, writes, bounds>>

\* ... and the event of this write, which the own subscription hears too.  Unheard,
\* a warmNow() may leave an old result in the place of a newer one; the first
\* sweep cannot: nothing else has computed results before it ends.
WarmEmits(i) ==
  /\ warms[i].st = "persisted"
  /\ LET r == warms[i].at IN
     /\ OnRootEvent(Only({r}), [warms EXCEPT ![i].seen[r] = NoMat, ![i].at = NoRoot,
                                             ![i].cur = Absent, ![i].st = "run"])
     /\ excused' = IF phase = "stopped" THEN excused \cup {r} ELSE excused
  /\ UNCHANGED <<store, users, phase, writes, bounds>>

\* The `finally` block: clear `running`, start what is queued.
Finish(i) ==
  \/ /\ warms[i].by = "sub" /\ queued # NoTask
     /\ warms' = Append(Without(i), Run("sub", queued))
     /\ running' = TRUE /\ queued' = NoTask
  \/ /\ warms[i].by = "sub" /\ queued = NoTask
     /\ warms' = Without(i)
     /\ running' = FALSE /\ UNCHANGED queued
  \/ /\ warms[i].by = "now"
     /\ warms' = Without(i)
     /\ UNCHANGED <<running, queued>>

WarmEnds(i) ==
  /\ warms[i].todo = {} /\ warms[i].at = NoRoot
  /\ \A r \in Roots : warms[i].seen[r] = NoMat
  /\ Finish(i)
  /\ UNCHANGED <<store, users, climbs, phase, excused, writes, bounds>>

\* A request fails: the rest of the run is given up; a failed first sweep keeps
\* the worker from being created.
WarmFails(i) ==
  /\ Fault
  /\ excused' = excused \cup warms[i].todo \cup {r \in Roots : warms[i].seen[r] # NoMat}
  /\ Finish(i)
  /\ phase' = IF phase = "starting" THEN "stopped" ELSE phase
  /\ UNCHANGED <<store, users, climbs, writes, warmNows>>
-----------------------------------------------------------------------------
WarmStep(i) ==
  \/ \E r \in Roots : Load(i, r) \/ SkipTarget(i, r) \/ WriteTarget(i, r)
  \/ Persist(i) \/ WarmEmits(i) \/ WarmEnds(i) \/ WarmFails(i)

SystemStep ==
  \/ \E i \in DOMAIN warms : WarmStep(i)
  \/ \E k \in Children : ClimbEnds(k) \/ ClimbFails(k)
  \/ Subscribe
UserStep(c) == RootSaved(c) \/ UserEmits(c)

Next ==
  \/ \E c \in Clients :
       \/ \E r \in Roots : SaveRoot(c, r) \/ RemoveRoot(c, r)
       \/ \E k \in Children : SaveChild(c, k)
       \/ UserStep(c)
  \/ SystemStep
  \/ Stop \/ WarmNow

\* Requests are answered and promise callbacks run.
Fairness == WF_vars(SystemStep) /\ \A c \in Clients : WF_vars(UserStep(c))

Spec == Init /\ [][Next]_vars /\ Fairness
-----------------------------------------------------------------------------
(***************************************************************************)
(* Properties                                                              *)
(***************************************************************************)
Inputs == 0..MaxWrites
Mats   == {NoMat} \cup (Inputs \X Inputs)
Tasks  == [all : BOOLEAN, roots : SUBSET Roots]

TypeOK ==
  /\ docs \in [Roots -> [in : Inputs, mat : Mats]]
  /\ childIn \in [Children -> Inputs]
  /\ \A c \in Clients : users[c].st \in {"idle", "save", "saved", "removed", "savedChild"}
  /\ \A i \in DOMAIN warms :
       warms[i] \in [by : {"sub", "now"}, todo : SUBSET Roots, seen : [Roots -> Mats],
                     at : Roots \cup {NoRoot}, cur : Inputs,
                     st : {"run", "loaded", "persisted"}]
  /\ running \in BOOLEAN
  /\ queued \in Tasks /\ (queued.all => queued.roots = {})
  /\ climbs \in [Children -> Nat]
  /\ phase \in {"starting", "live", "stopped"}
  /\ excused \subseteq Roots

\* The subscription never runs two warm() calls at once, although its own writes
\* trigger it, and it knows when one is running.
SingleWarm ==
  LET own == {i \in DOMAIN warms : warms[i].by = "sub"}
  IN  Cardinality(own) <= 1 /\ (running <=> own # {})

\* Something is still to come that reads or writes r's result again: an event not
\* yet heard, a climb, a queued task, or a run that has not loaded r, holds its
\* current fingerprint, or is just writing it.
Pending(r) ==
  \/ \E c \in Clients : users[c].st # "idle" /\ users[c].e \in {r, Edge[r]}
  \/ climbs[Edge[r]] > 0
  \/ queued.all \/ r \in queued.roots
  \/ \E i \in DOMAIN warms : \/ r \in warms[i].todo
                             \/ warms[i].seen[r] = Fingerprint(r)
                             \/ warms[i].at = r

\* No change is forgotten by coalescing, by the echoes of the worker's own writes
\* or by a warmNow() that races with it: a root whose stored result does not match
\* its inputs will be looked at again.
StaleIsPending ==
  \A r \in Roots \ excused :
    (docs[r].in # Absent /\ docs[r].mat # Fingerprint(r)) => Pending(r)

\* The worker's writes trigger the worker, but the loop dies out (delta.ts:176-178).
WarmingEnds == <>[](warms = <<>> /\ queued = NoTask)

\* A root that is no longer changed ends up with the result of its inputs.
EventuallyFresh ==
  <>[](\A r \in Roots \ excused : docs[r].in # Absent => docs[r].mat = Fingerprint(r))
=============================================================================
