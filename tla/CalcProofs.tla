------------------------------ MODULE CalcProofs ------------------------------
(***************************************************************************)
(* Theorems about CalcInvalidation, for any roots and children, and any    *)
(* number of user writes, faults and warmNow() calls.                      *)
(***************************************************************************)
EXTENDS CalcInvalidation, SequenceTheorems, FiniteSetTheorems, TLAPS

Docs     == [in : Inputs, mat : Mats]
WarmType == [by : {"sub", "now"}, todo : SUBSET Roots, seen : [Roots -> Mats],
             at : Roots \cup {NoRoot}, cur : Inputs, st : {"run", "loaded", "persisted"}]
SaveType == [st : {"save"}, e : Roots, mat : Mats, in : Inputs]
RootType == [st : {"saved", "removed"}, e : Roots]
KidType  == [st : {"savedChild"}, e : Children]
UserType == {NoUser} \cup SaveType \cup RootType \cup KidType

Types ==
  /\ docs \in [Roots -> Docs] /\ childIn \in [Children -> Inputs]
  /\ users \in [Clients -> UserType]
  /\ warms \in Seq(WarmType)
  /\ running \in BOOLEAN
  /\ queued \in Tasks /\ (queued.all => queued.roots = {})
  /\ climbs \in [Children -> Nat]
  /\ phase \in {"starting", "live", "stopped"}
  /\ excused \in SUBSET Roots
  /\ writes \in Inputs /\ faults \in Nat /\ warmNows \in Nat

\* `running` tells whether there is a run of the subscription, and there is one at most.
OwnInv ==
  /\ \A i, j \in DOMAIN warms : warms[i].by = "sub" /\ warms[j].by = "sub" => i = j
  /\ running <=> \E i \in DOMAIN warms : warms[i].by = "sub"

\* A root is written after all have been loaded, and has been seen.
WriteInv ==
  \A i \in DOMAIN warms :
    /\ warms[i].at = NoRoot <=> warms[i].st = "run"
    /\ warms[i].at # NoRoot => warms[i].todo = {} /\ warms[i].seen[warms[i].at] # NoMat

\* A user's write on r, or on what r reads, is under way.
Busy(r) == \E c \in Clients : users[c].st # "idle" /\ users[c].e \in {r, Edge[r]}

\* As long as nobody listens, a root that was not changed is what the sweep has seen.
FirstSweepInv == phase = "starting" =>
  \A r \in Roots \ excused : ~Busy(r) =>
    \A i \in DOMAIN warms :
      /\ warms[i].seen[r] \in {NoMat, Fingerprint(r)}
      /\ warms[i].at = r => /\ warms[i].cur = docs[r].in
                            /\ warms[i].st = "persisted" => docs[r].mat = warms[i].seen[r]

IInv == Types /\ OwnInv /\ WriteInv /\ FirstSweepInv /\ StaleIsPending
-----------------------------------------------------------------------------
(* The fields of the state.                                                *)

LEMMA InputsAreNumbers ==
  /\ Inputs \subseteq Nat /\ 0 \in Inputs /\ 1 \in Inputs
  /\ \A w \in Inputs : w < MaxWrites => w + 1 \in Inputs
BY BoundsAssumption DEF Inputs

LEMMA WarmFields ==
  ASSUME Types, NEW i \in DOMAIN warms
  PROVE  /\ warms[i] \in WarmType /\ warms[i].by \in {"sub", "now"}
         /\ warms[i].todo \in SUBSET Roots /\ warms[i].seen \in [Roots -> Mats]
         /\ warms[i].at \in Roots \cup {NoRoot} /\ warms[i].cur \in Inputs
         /\ warms[i].st \in {"run", "loaded", "persisted"}
<1>1. warms[i] \in WarmType
  BY ElementOfSeq, LenProperties DEF Types
<1> QED
  BY <1>1 DEF WarmType

LEMMA UserFields ==
  ASSUME Types, NEW c \in Clients
  PROVE  /\ users[c].st \in {"idle", "save", "saved", "removed", "savedChild"}
         /\ users[c] = NoUser <=> users[c].st = "idle"
         /\ users[c].st = "save" => /\ users[c].e \in Roots /\ users[c].mat \in Mats
                                    /\ users[c].in \in Inputs
         /\ users[c].st \in {"saved", "removed"} => users[c].e \in Roots
         /\ users[c].st = "savedChild" => users[c].e \in Children
<1>1. users[c] \in UserType
  BY DEF Types
<1>2. NoUser.st = "idle"
  BY DEF NoUser
<1>3. CASE users[c] = NoUser
  BY <1>2, <1>3
<1>4. CASE users[c] \in SaveType
  BY <1>2, <1>4 DEF SaveType
<1>5. CASE users[c] \in RootType
  BY <1>2, <1>5 DEF RootType
<1>6. CASE users[c] \in KidType
  BY <1>2, <1>6 DEF KidType
<1> QED
  BY <1>1, <1>3, <1>4, <1>5, <1>6 DEF UserType

LEMMA RootFields ==
  ASSUME Types, NEW r \in Roots
  PROVE  /\ docs[r] \in Docs /\ docs[r].in \in Inputs /\ docs[r].mat \in Mats
         /\ Edge[r] \in Children /\ childIn[Edge[r]] \in Inputs
         /\ Fingerprint(r) \in Mats /\ Fingerprint(r) # NoMat
         /\ Fingerprint(r)[1] = docs[r].in
         /\ docs[r].in # Absent => r \in Present
<1>1. /\ docs[r] \in Docs /\ docs[r].in \in Inputs /\ docs[r].mat \in Mats
      /\ Edge[r] \in Children /\ childIn[Edge[r]] \in Inputs
  BY EdgeAssumption DEF Types, Docs
<1>2. Fingerprint(r) \in Inputs \X Inputs /\ Fingerprint(r)[1] = docs[r].in
  BY <1>1 DEF Fingerprint
<1>3. Fingerprint(r) # NoMat
  BY DEF Fingerprint, NoMat
<1>4. docs[r].in # Absent => r \in Present
  BY DEF Present
<1> QED
  BY <1>1, <1>2, <1>3, <1>4 DEF Mats

\* A run that begins has seen nothing.
Begun(w) == w.at = NoRoot /\ w.st = "run" /\ \A r \in Roots : w.seen[r] = NoMat

LEMMA RunIsWarm ==
  ASSUME NEW by \in {"sub", "now"}, NEW t \in Tasks
  PROVE  /\ Run(by, t) \in WarmType /\ Run(by, t).by = by /\ Begun(Run(by, t))
         /\ Run(by, t).todo = IF t.all THEN Present ELSE t.roots
<1>1. (IF t.all THEN Present ELSE t.roots) \in SUBSET Roots
  BY DEF Tasks, Present
<1>2. [r \in Roots |-> NoMat] \in [Roots -> Mats]
  BY DEF Mats
<1> QED
  BY <1>1, <1>2, InputsAreNumbers DEF Run, WarmType, Begun, Absent

Queues(r)   == queued.all \/ r \in queued.roots
Holds(i, r) == r \in warms[i].todo \/ warms[i].seen[r] = Fingerprint(r) \/ warms[i].at = r
Stale(r)    == docs[r].in # Absent /\ docs[r].mat # Fingerprint(r)

LEMMA PendingParts ==
  ASSUME NEW r
  PROVE  Pending(r) <=> \/ Busy(r) \/ climbs[Edge[r]] > 0 \/ Queues(r)
                        \/ \E i \in DOMAIN warms : Holds(i, r)
BY DEF Pending, Busy, Queues, Holds
-----------------------------------------------------------------------------
(***************************************************************************)
(* The runs: one of them changes, one begins, one ends.                    *)
(***************************************************************************)
LEMMA RunChanges ==
  ASSUME Types, OwnInv, NEW i \in DOMAIN warms, NEW w \in WarmType, w.by = warms[i].by,
         warms' = [warms EXCEPT ![i] = w], UNCHANGED running
  PROVE  /\ warms' \in Seq(WarmType) /\ DOMAIN warms' = DOMAIN warms
         /\ warms'[i] = w /\ \A j \in DOMAIN warms \ {i} : warms'[j] = warms[j]
         /\ OwnInv'
<1>1. /\ warms \in Seq(WarmType) /\ DOMAIN warms = 1..Len(warms)
  BY LenProperties DEF Types
<1>2. /\ warms' \in Seq(WarmType) /\ DOMAIN warms' = DOMAIN warms
      /\ warms'[i] = w /\ \A j \in DOMAIN warms \ {i} : warms'[j] = warms[j]
  BY <1>1, ExceptSeq, LenProperties
<1>3. \A j \in DOMAIN warms : warms'[j].by = warms[j].by
  BY <1>2
<1> QED
  BY <1>2, <1>3 DEF OwnInv

\* runOrQueue() starts a run for the task or queues it, and forgets nothing.
LEMMA RunOrQueueFacts ==
  ASSUME Types, OwnInv, NEW t \in Tasks, t.all => t.roots = {}, NEW ws \in Seq(WarmType),
         DOMAIN ws = DOMAIN warms, \A i \in DOMAIN ws : ws[i].by = warms[i].by,
         RunOrQueue(t, ws, running)
  PROVE  /\ warms' \in Seq(WarmType) /\ running' \in BOOLEAN
         /\ queued' \in Tasks /\ (queued'.all => queued'.roots = {})
         /\ OwnInv'
         /\ \A i \in DOMAIN ws : i \in DOMAIN warms' /\ warms'[i] = ws[i]
         /\ \A i \in DOMAIN warms' : i \in DOMAIN ws \/ Begun(warms'[i])
         /\ \A r : Queues(r) => Queues(r)'
         /\ \A r : (r \in t.roots \/ (t.all /\ r \in Present)) =>
              Queues(r)' \/ \E i \in DOMAIN warms' : r \in warms'[i].todo
<1>1. /\ Len(ws) \in Nat /\ DOMAIN ws = 1..Len(ws) /\ queued \in Tasks
      /\ running \in BOOLEAN /\ (queued.all => queued.roots = {})
  BY LenProperties DEF Types
<1>2. CASE running
  <2>1. queued' = Merge(queued, t) /\ warms' = ws /\ running' = TRUE
    BY <1>2 DEF RunOrQueue
  <2>2. CASE queued.all \/ t.all
    <3>1. queued' = All
      BY <2>1, <2>2 DEF Merge
    <3>2. queued'.all /\ queued'.roots = {} /\ queued' \in Tasks
      BY <3>1 DEF All, Tasks
    <3> QED
      BY <1>1, <1>2, <2>1, <3>2 DEF OwnInv, Queues
  <2>3. CASE ~(queued.all \/ t.all)
    <3>1. queued' = Only(queued.roots \cup t.roots)
      BY <2>1, <2>3 DEF Merge
    <3>2. ~queued'.all /\ queued'.roots = queued.roots \cup t.roots /\ queued' \in Tasks
      BY <1>1, <3>1 DEF Only, Tasks
    <3> QED
      BY <1>1, <1>2, <2>1, <2>3, <3>2 DEF OwnInv, Queues
  <2> QED
    BY <2>2, <2>3
<1>3. CASE ~running
  <2>1. warms' = Append(ws, Run("sub", t)) /\ running' = TRUE /\ UNCHANGED queued
    BY <1>3 DEF RunOrQueue
  <2>2. PICK w \in WarmType : w = Run("sub", t)
    BY RunIsWarm
  <2>3. w.by = "sub" /\ Begun(w) /\ w.todo = IF t.all THEN Present ELSE t.roots
    BY <2>2, RunIsWarm
  <2>4. /\ warms' \in Seq(WarmType) /\ DOMAIN warms' = 1..(Len(ws) + 1)
        /\ \A i \in DOMAIN ws : warms'[i] = ws[i]
        /\ warms'[Len(ws) + 1] = w
    BY <1>1, <2>1, <2>2, AppendProperties, LenProperties
  <2>5. \A i \in DOMAIN ws : ws[i].by # "sub"
    BY <1>3 DEF OwnInv
  <2>6. Len(ws) + 1 \in DOMAIN warms' /\ \A i \in DOMAIN warms' : i \in DOMAIN ws \/ i = Len(ws) + 1
    BY <1>1, <2>4
  <2>7. OwnInv'
    BY <2>1, <2>3, <2>4, <2>5, <2>6 DEF OwnInv
  <2>8. \A r : (r \in t.roots \/ (t.all /\ r \in Present)) =>
          \E i \in DOMAIN warms' : r \in warms'[i].todo
    BY <2>3, <2>4, <2>6
  <2> QED
    BY <1>1, <2>1, <2>3, <2>4, <2>6, <2>7, <2>8 DEF Queues
<1> QED
  BY <1>1, <1>2, <1>3

LEMMA RemoveFacts ==
  ASSUME Types, NEW i \in DOMAIN warms
  PROVE  /\ Without(i) \in Seq(WarmType)
         /\ DOMAIN Without(i) = 1..(Len(warms) - 1) /\ Len(Without(i)) = Len(warms) - 1
         /\ \A m \in DOMAIN Without(i) :
              Without(i)[m] = IF m < i THEN warms[m] ELSE warms[m + 1]
         /\ Len(warms) \in Nat /\ DOMAIN warms = 1..Len(warms)
<1>1. /\ warms \in Seq(WarmType) /\ Len(warms) \in Nat /\ DOMAIN warms = 1..Len(warms)
      /\ i \in Nat /\ i >= 1 /\ i <= Len(warms)
  BY LenProperties DEF Types
<1> DEFINE h == SubSeq(warms, 1, i - 1)
           t == SubSeq(warms, i + 1, Len(warms))
<1>2. /\ h \in Seq(WarmType) /\ Len(h) = i - 1 /\ \A m \in 1..(i - 1) : h[m] = warms[m]
  <2>1. \A m \in 1..(i - 1) : warms[m] \in WarmType
    BY <1>1, ElementOfSeq
  <2> QED
    BY <1>1, <2>1, SubSeqProperties
<1>3. /\ t \in Seq(WarmType) /\ Len(t) = Len(warms) - i
      /\ \A m \in 1..(Len(warms) - i) : t[m] = warms[i + m]
  <2>1. \A m \in (i + 1)..Len(warms) : warms[m] \in WarmType
    BY <1>1, ElementOfSeq
  <2> QED
    BY <1>1, <2>1, SubSeqProperties
<1>4. Without(i) = h \o t
  BY DEF Without
<1> HIDE DEF h, t
<1>5. /\ h \o t \in Seq(WarmType) /\ Len(h \o t) = Len(warms) - 1
      /\ \A m \in 1..(Len(warms) - 1) : (h \o t)[m] = IF m < i THEN warms[m] ELSE warms[m + 1]
  <2>1. /\ h \o t \in Seq(WarmType) /\ Len(h \o t) = Len(h) + Len(t)
        /\ \A m \in 1..(Len(h) + Len(t)) : (h \o t)[m] = IF m <= Len(h) THEN h[m] ELSE t[m - Len(h)]
    BY <1>2, <1>3, ConcatProperties
  <2>2. ASSUME NEW m \in 1..(Len(warms) - 1)
        PROVE  (h \o t)[m] = IF m < i THEN warms[m] ELSE warms[m + 1]
    <3>1. CASE m < i
      BY <1>1, <1>2, <1>3, <2>1, <3>1
    <3>2. CASE ~(m < i)
      <4>1. (h \o t)[m] = t[m - (i - 1)] /\ m - (i - 1) \in 1..(Len(warms) - i)
        BY <1>1, <1>2, <1>3, <2>1, <3>2
      <4>2. t[m - (i - 1)] = warms[i + (m - (i - 1))] /\ i + (m - (i - 1)) = m + 1
        BY <1>1, <1>3, <4>1
      <4> QED
        BY <3>2, <4>1, <4>2
    <3> QED
      BY <3>1, <3>2
  <2> QED
    BY <1>1, <1>2, <1>3, <2>1, <2>2
<1> QED
  BY <1>1, <1>4, <1>5, LenProperties

\* A run ends: the others stay, and what was queued is run.
LEMMA FinishFacts ==
  ASSUME Types, OwnInv, NEW i \in DOMAIN warms, Finish(i)
  PROVE  /\ warms' \in Seq(WarmType) /\ running' \in BOOLEAN
         /\ queued' \in Tasks /\ (queued'.all => queued'.roots = {})
         /\ OwnInv'
         /\ \A j \in DOMAIN warms \ {i} : \E m \in DOMAIN warms' : warms'[m] = warms[j]
         /\ \A m \in DOMAIN warms' :
              Begun(warms'[m]) \/ \E j \in DOMAIN warms \ {i} : warms'[m] = warms[j]
         /\ \A r \in Present : Queues(r) =>
              Queues(r)' \/ \E m \in DOMAIN warms' : r \in warms'[m].todo
         /\ \A r : r \in queued.roots =>
              Queues(r)' \/ \E m \in DOMAIN warms' : r \in warms'[m].todo
<1> DEFINE rest == Without(i)
<1>1. /\ rest \in Seq(WarmType) /\ DOMAIN rest = 1..(Len(warms) - 1)
      /\ Len(rest) = Len(warms) - 1
      /\ \A m \in DOMAIN rest : rest[m] = IF m < i THEN warms[m] ELSE warms[m + 1]
      /\ Len(warms) \in Nat /\ DOMAIN warms = 1..Len(warms) /\ i \in Nat
      /\ queued \in Tasks /\ (queued.all => queued.roots = {}) /\ running \in BOOLEAN
  BY RemoveFacts DEF Types
<1>2. Finish(i) <=> \/ /\ warms[i].by = "sub" /\ queued # NoTask
                       /\ warms' = Append(rest, Run("sub", queued))
                       /\ running' = TRUE /\ queued' = NoTask
                    \/ /\ warms[i].by = "sub" /\ queued = NoTask
                       /\ warms' = rest
                       /\ running' = FALSE /\ UNCHANGED queued
                    \/ /\ warms[i].by = "now"
                       /\ warms' = rest
                       /\ UNCHANGED <<running, queued>>
  BY DEF Finish
<1> HIDE DEF rest
<1>3. ASSUME NEW m \in DOMAIN rest
      PROVE  /\ (IF m < i THEN m ELSE m + 1) \in DOMAIN warms \ {i}
             /\ rest[m] = warms[IF m < i THEN m ELSE m + 1]
  BY <1>1
<1>4. \A m \in DOMAIN rest : \E j \in DOMAIN warms \ {i} : rest[m] = warms[j]
  BY <1>3
<1>5. ASSUME NEW j \in DOMAIN warms \ {i} PROVE \E m \in DOMAIN rest : rest[m] = warms[j]
  <2>1. CASE j < i
    <3>1. j \in DOMAIN rest /\ rest[j] = warms[j]
      BY <1>1, <2>1
    <3> QED
      BY <3>1
  <2>2. CASE ~(j < i)
    <3>1. j - 1 \in DOMAIN rest /\ ~(j - 1 < i) /\ (j - 1) + 1 = j
      BY <1>1, <2>2
    <3>2. rest[j - 1] = warms[j]
      BY <1>1, <3>1
    <3> QED
      BY <3>1, <3>2
  <2> QED
    BY <2>1, <2>2
<1>6. \A m, n \in DOMAIN rest : rest[m].by = "sub" /\ rest[n].by = "sub" => m = n
  <2> SUFFICES ASSUME NEW m \in DOMAIN rest, NEW n \in DOMAIN rest,
                      rest[m].by = "sub", rest[n].by = "sub"
               PROVE  m = n
    OBVIOUS
  <2>1. (IF m < i THEN m ELSE m + 1) = (IF n < i THEN n ELSE n + 1)
    BY <1>3 DEF OwnInv
  <2> QED
    BY <1>1, <2>1
<1>7. warms[i].by = "sub" => \A m \in DOMAIN rest : rest[m].by # "sub"
  BY <1>4 DEF OwnInv
<1>8. CASE warms[i].by = "sub" /\ queued # NoTask
  <2>1. warms' = Append(rest, Run("sub", queued)) /\ running' = TRUE /\ queued' = NoTask
    BY <1>2, <1>8
  <2>2. PICK w \in WarmType : w = Run("sub", queued)
    BY <1>1, RunIsWarm
  <2>3. w.by = "sub" /\ Begun(w) /\ w.todo = IF queued.all THEN Present ELSE queued.roots
    BY <1>1, <2>2, RunIsWarm
  <2>4. /\ warms' \in Seq(WarmType) /\ DOMAIN warms' = 1..(Len(rest) + 1)
        /\ \A m \in DOMAIN rest : warms'[m] = rest[m]
        /\ warms'[Len(rest) + 1] = w
    BY <1>1, <2>1, <2>2, AppendProperties, LenProperties
  <2>5. /\ Len(rest) + 1 \in DOMAIN warms'
        /\ \A m \in DOMAIN warms' : m \in DOMAIN rest \/ m = Len(rest) + 1
        /\ DOMAIN rest \subseteq DOMAIN warms'
    BY <1>1, <2>4
  <2>6. queued' \in Tasks /\ queued'.roots = {} /\ ~queued'.all
    BY <2>1 DEF NoTask, Tasks
  <2>7. OwnInv'
    BY <1>7, <1>8, <2>1, <2>3, <2>4, <2>5 DEF OwnInv
  <2>8. \A j \in DOMAIN warms \ {i} : \E m \in DOMAIN warms' : warms'[m] = warms[j]
    BY <1>5, <2>4, <2>5
  <2>9. \A m \in DOMAIN warms' :
          Begun(warms'[m]) \/ \E j \in DOMAIN warms \ {i} : warms'[m] = warms[j]
    BY <1>4, <2>3, <2>4, <2>5
  <2>10. /\ \A r \in Present : Queues(r) => \E m \in DOMAIN warms' : r \in warms'[m].todo
         /\ \A r : r \in queued.roots => \E m \in DOMAIN warms' : r \in warms'[m].todo
    BY <1>1, <2>3, <2>4, <2>5 DEF Queues
  <2> QED
    BY <2>1, <2>4, <2>6, <2>7, <2>8, <2>9, <2>10
<1>9. CASE warms[i].by = "sub" /\ queued = NoTask
  <2>1. warms' = rest /\ running' = FALSE /\ UNCHANGED queued
    BY <1>2, <1>9
  <2>2. OwnInv'
    BY <1>7, <1>9, <2>1 DEF OwnInv
  <2> QED
    BY <1>1, <1>4, <1>5, <2>1, <2>2 DEF Queues
<1>10. CASE warms[i].by = "now"
  <2>1. warms' = rest /\ UNCHANGED <<running, queued>>
    BY <1>2, <1>10
  <2>2. (\E j \in DOMAIN warms : warms[j].by = "sub") <=> \E m \in DOMAIN rest : rest[m].by = "sub"
    BY <1>4, <1>5, <1>10
  <2>3. OwnInv'
    BY <1>6, <2>1, <2>2 DEF OwnInv
  <2> QED
    BY <1>1, <1>4, <1>5, <2>1, <2>3 DEF Queues
<1> QED
  BY <1>8, <1>9, <1>10, WarmFields

LEMMA RootEventFacts ==
  ASSUME Types, OwnInv, NEW t \in Tasks, t.all => t.roots = {}, NEW ws \in Seq(WarmType),
         DOMAIN ws = DOMAIN warms, \A i \in DOMAIN ws : ws[i].by = warms[i].by,
         OnRootEvent(t, ws)
  PROVE  /\ warms' \in Seq(WarmType) /\ running' \in BOOLEAN
         /\ queued' \in Tasks /\ (queued'.all => queued'.roots = {})
         /\ OwnInv' /\ UNCHANGED climbs
         /\ \A i \in DOMAIN ws : i \in DOMAIN warms' /\ warms'[i] = ws[i]
         /\ \A i \in DOMAIN warms' : i \in DOMAIN ws \/ Begun(warms'[i])
         /\ \A r : Queues(r) => Queues(r)'
         /\ phase = "live" => \A r : (r \in t.roots \/ (t.all /\ r \in Present)) =>
              Queues(r)' \/ \E i \in DOMAIN warms' : r \in warms'[i].todo
<1>1. CASE phase = "live"
  <2>1. RunOrQueue(t, ws, running) /\ UNCHANGED climbs
    BY <1>1 DEF OnRootEvent
  <2> QED
    BY <2>1, RunOrQueueFacts
<1>2. CASE phase # "live"
  <2>1. warms' = ws /\ UNCHANGED <<running, queued, climbs>>
    BY <1>2 DEF OnRootEvent
  <2>2. OwnInv'
    BY <2>1 DEF OwnInv
  <2> QED
    BY <1>2, <2>1, <2>2 DEF Types, Queues
<1> QED
  BY <1>1, <1>2
-----------------------------------------------------------------------------
(***************************************************************************)
(* User writes, and their events.                                          *)
(***************************************************************************)
LEMMA UserChanges ==
  ASSUME IInv, NEW c \in Clients, NEW u \in UserType, u.st # "idle",
         users[c] = NoUser \/ u.e = users[c].e, users' = [users EXCEPT ![c] = u],
         UNCHANGED <<schedule, phase, excused, bounds>>,
         docs' \in [Roots -> Docs], childIn' \in [Children -> Inputs], writes' \in Inputs,
         \A r \in Roots : u.e \notin {r, Edge[r]} =>
           docs'[r] = docs[r] /\ childIn'[Edge[r]] = childIn[Edge[r]]
  PROVE  IInv'
<1>1. /\ Types /\ users' \in [Clients -> UserType] /\ users'[c] = u
      /\ \A d \in Clients \ {c} : users'[d] = users[d]
      /\ UNCHANGED <<warms, running, queued, climbs, phase, excused, faults, warmNows>>
  BY DEF IInv, Types, schedule, bounds
<1>2. \A r : (Busy(r) => Busy(r)') /\ (u.e \in {r, Edge[r]} => Busy(r)')
  BY <1>1, UserFields DEF Busy
<1>3. Types' /\ OwnInv' /\ WriteInv'
  BY <1>1 DEF IInv, Types, OwnInv, WriteInv
<1>4. \A r \in Roots : ~Busy(r)' => /\ ~Busy(r) /\ docs'[r] = docs[r]
                                    /\ Fingerprint(r)' = Fingerprint(r)
  BY <1>2 DEF Fingerprint
<1>5. FirstSweepInv'
  BY <1>1, <1>4 DEF IInv, FirstSweepInv
<1>6. StaleIsPending'
  <2> SUFFICES ASSUME NEW r \in Roots, r \notin excused, Stale(r)', ~Busy(r)' PROVE Pending(r)'
    BY <1>1, PendingParts DEF StaleIsPending, Stale, Pending, Busy
  <2>1. Stale(r) /\ ~Busy(r) /\ Fingerprint(r)' = Fingerprint(r)
    BY <1>4 DEF Stale
  <2>2. Pending(r)
    BY <2>1 DEF IInv, StaleIsPending, Stale
  <2>3. climbs[Edge[r]] > 0 \/ Queues(r) \/ \E i \in DOMAIN warms : Holds(i, r)
    BY <2>1, <2>2, PendingParts
  <2> QED
    BY <1>1, <2>1, <2>3 DEF Pending, Queues, Holds
<1> QED
  BY <1>3, <1>5, <1>6 DEF IInv

LEMMA SaveRootKeeps ==
  ASSUME IInv, NEW c \in Clients, NEW r \in Roots, SaveRoot(c, r) PROVE IInv'
<1> DEFINE u == [st |-> "save", e |-> r, mat |-> docs[r].mat, in |-> writes + 1]
<1>1. /\ users[c] = NoUser /\ users' = [users EXCEPT ![c] = u]
      /\ writes < MaxWrites /\ writes' = writes + 1
      /\ UNCHANGED <<docs, childIn, schedule, phase, excused, bounds>>
  BY DEF SaveRoot, store
<1>2. Types /\ writes' \in Inputs /\ docs[r].mat \in Mats
  BY <1>1, InputsAreNumbers, RootFields DEF IInv, Types
<1>3. u \in UserType /\ u.st # "idle"
  BY <1>1, <1>2 DEF UserType, SaveType
<1> HIDE DEF u
<1> QED
  BY <1>1, <1>2, <1>3, UserChanges DEF Types

LEMMA RootSavedKeeps ==
  ASSUME IInv, NEW c \in Clients, RootSaved(c) PROVE IInv'
<1>1. PICK r \in Roots : r = users[c].e
  BY UserFields DEF RootSaved, IInv
<1> DEFINE u == [st |-> "saved", e |-> r]
           d == [in |-> users[c].in, mat |-> users[c].mat]
<1>2. /\ users[c].st = "save" /\ users' = [users EXCEPT ![c] = u]
      /\ docs' = [docs EXCEPT ![r] = d]
      /\ UNCHANGED <<childIn, schedule, phase, excused, writes, bounds>>
  BY <1>1 DEF RootSaved
<1>3. Types /\ d \in Docs
  BY <1>2, UserFields DEF IInv, Docs
<1>4. u \in UserType /\ u.st # "idle" /\ u.e = r
  BY DEF UserType, RootType
<1> HIDE DEF u, d
<1>5. docs' \in [Roots -> Docs] /\ \A q \in Roots : q # r => docs'[q] = docs[q]
  BY <1>2, <1>3 DEF Types
<1> QED
  BY <1>1, <1>2, <1>3, <1>4, <1>5, UserChanges DEF Types

LEMMA RemoveRootKeeps ==
  ASSUME IInv, NEW c \in Clients, NEW r \in Roots, RemoveRoot(c, r) PROVE IInv'
<1> DEFINE u == [st |-> "removed", e |-> r]
           d == [in |-> Absent, mat |-> NoMat]
<1>1. /\ users[c] = NoUser /\ users' = [users EXCEPT ![c] = u]
      /\ docs' = [docs EXCEPT ![r] = d] /\ writes < MaxWrites /\ writes' = writes + 1
      /\ UNCHANGED <<childIn, schedule, phase, excused, bounds>>
  BY DEF RemoveRoot
<1>2. Types /\ writes' \in Inputs
  BY <1>1, InputsAreNumbers DEF IInv, Types
<1>3. d \in Docs
  BY InputsAreNumbers DEF Docs, Mats, Absent
<1>4. u \in UserType /\ u.st # "idle" /\ u.e = r
  BY DEF UserType, RootType
<1> HIDE DEF u, d
<1>5. docs' \in [Roots -> Docs] /\ \A q \in Roots : q # r => docs'[q] = docs[q]
  BY <1>1, <1>2, <1>3 DEF Types
<1> QED
  BY <1>1, <1>2, <1>4, <1>5, UserChanges DEF Types

LEMMA SaveChildKeeps ==
  ASSUME IInv, NEW c \in Clients, NEW k \in Children, SaveChild(c, k) PROVE IInv'
<1> DEFINE u == [st |-> "savedChild", e |-> k]
<1>1. /\ users[c] = NoUser /\ users' = [users EXCEPT ![c] = u]
      /\ childIn' = [childIn EXCEPT ![k] = writes + 1] /\ writes < MaxWrites /\ writes' = writes + 1
      /\ UNCHANGED <<docs, schedule, phase, excused, bounds>>
  BY DEF SaveChild
<1>2. Types /\ writes' \in Inputs
  BY <1>1, InputsAreNumbers DEF IInv, Types
<1>3. u \in UserType /\ u.st # "idle" /\ u.e = k
  BY DEF UserType, KidType
<1> HIDE DEF u
<1>4. childIn' \in [Children -> Inputs] /\ \A q \in Children : q # k => childIn'[q] = childIn[q]
  BY <1>1, <1>2 DEF Types
<1>5. docs' = docs /\ docs \in [Roots -> Docs]
  BY <1>1, <1>2 DEF Types
<1> QED
  BY <1>1, <1>2, <1>3, <1>4, <1>5, EdgeAssumption, UserChanges

\* What a run that begins has to satisfy, and what the end of a user's call leaves busy.
LEMMA BegunIsHarmless ==
  ASSUME NEW w, Begun(w), NEW r \in Roots
  PROVE  w.at = NoRoot /\ w.st = "run" /\ w.seen[r] = NoMat /\ w.at # r
BY NamesAssumption DEF Begun

LEMMA CallEnds ==
  ASSUME Types, NEW c \in Clients, users[c].st # "idle", users' = [users EXCEPT ![c] = NoUser]
  PROVE  /\ users' \in [Clients -> UserType]
         /\ \A r : Busy(r)' => Busy(r)
         /\ \A r : Busy(r) => Busy(r)' \/ users[c].e \in {r, Edge[r]}
<1>1. /\ users' \in [Clients -> UserType] /\ users'[c] = NoUser
      /\ \A d \in Clients \ {c} : users'[d] = users[d]
  BY DEF Types, UserType
<1> QED
  BY <1>1 DEF Busy, NoUser

LEMMA RootEventKeeps ==
  ASSUME IInv, NEW c \in Clients, NEW e \in Roots, users[c].st # "idle", users[c].e = e,
         NEW t \in Tasks, t.all => t.roots = {}, e \in t.roots \/ t.all,
         OnRootEvent(t, warms), excused' = Heard({e}), users' = [users EXCEPT ![c] = NoUser],
         UNCHANGED <<store, phase, writes, bounds>>
  PROVE  IInv'
<1>1. /\ Types /\ OwnInv /\ warms \in Seq(WarmType) /\ excused \in SUBSET Roots
      /\ UNCHANGED <<docs, childIn, phase, writes, faults, warmNows>>
  BY DEF IInv, Types, store, bounds
<1>2. /\ warms' \in Seq(WarmType) /\ running' \in BOOLEAN
      /\ queued' \in Tasks /\ (queued'.all => queued'.roots = {})
      /\ OwnInv' /\ UNCHANGED climbs
      /\ \A i \in DOMAIN warms : i \in DOMAIN warms' /\ warms'[i] = warms[i]
      /\ \A i \in DOMAIN warms' : i \in DOMAIN warms \/ Begun(warms'[i])
      /\ \A r : Queues(r) => Queues(r)'
      /\ phase = "live" => \A r : (r \in t.roots \/ (t.all /\ r \in Present)) =>
           Queues(r)' \/ \E i \in DOMAIN warms' : r \in warms'[i].todo
  BY <1>1, RootEventFacts
<1>3. /\ users' \in [Clients -> UserType]
      /\ \A r : Busy(r) => Busy(r)' \/ e \in {r, Edge[r]}
  BY <1>1, CallEnds
<1>4. \A r \in Roots : e = Edge[r] => FALSE
  BY EdgeAssumption, NamesAssumption
<1>5. excused' \in SUBSET Roots /\ excused \subseteq excused' /\ (phase # "live" => e \in excused')
  BY <1>1 DEF Heard
<1>6. Types'
  BY <1>1, <1>2, <1>3, <1>5 DEF Types
<1>7. WriteInv'
  BY <1>2, BegunIsHarmless DEF IInv, WriteInv, Begun
<1>8. \A r : Fingerprint(r)' = Fingerprint(r)
  BY <1>1 DEF Fingerprint
<1>9. FirstSweepInv'
  <2> SUFFICES ASSUME phase = "starting", NEW r \in Roots, r \notin excused', ~Busy(r)',
                      NEW i \in DOMAIN warms'
               PROVE  /\ warms'[i].seen[r] \in {NoMat, Fingerprint(r)}
                      /\ warms'[i].at = r =>
                           /\ warms'[i].cur = docs[r].in
                           /\ warms'[i].st = "persisted" => docs[r].mat = warms'[i].seen[r]
    BY <1>1, <1>8 DEF FirstSweepInv
  <2>1. ~Busy(r) /\ r \notin excused
    BY <1>3, <1>4, <1>5
  <2>2. CASE i \in DOMAIN warms
    BY <1>2, <2>1, <2>2 DEF IInv, FirstSweepInv
  <2>3. CASE Begun(warms'[i])
    BY <2>3, BegunIsHarmless
  <2> QED
    BY <1>2, <2>2, <2>3
<1>10. StaleIsPending'
  <2> SUFFICES ASSUME NEW r \in Roots, r \notin excused', Stale(r), ~Busy(r)'
               PROVE  Pending(r)'
    BY <1>1, <1>8, PendingParts DEF StaleIsPending, Stale, Pending, Busy
  <2>1. Pending(r)
    BY <1>5 DEF IInv, StaleIsPending, Stale
  <2>2. CASE r = e
    <3>1. phase = "live" /\ r \in Present
      BY <1>1, <1>5, <2>2, RootFields DEF Stale
    <3>2. Queues(r)' \/ \E i \in DOMAIN warms' : r \in warms'[i].todo
      BY <1>2, <2>2, <3>1
    <3> QED
      BY <3>2 DEF Pending, Queues
  <2>3. CASE r # e
    <3>1. climbs[Edge[r]] > 0 \/ Queues(r) \/ \E i \in DOMAIN warms : Holds(i, r)
      BY <1>3, <1>4, <2>1, <2>3, PendingParts
    <3>2. climbs'[Edge[r]] > 0 \/ Queues(r)' \/ \E i \in DOMAIN warms' : Holds(i, r)'
      BY <1>2, <1>8, <3>1 DEF Holds
    <3> QED
      BY <3>2 DEF Pending, Queues, Holds
  <2> QED
    BY <2>2, <2>3
<1> QED
  BY <1>2, <1>6, <1>7, <1>9, <1>10 DEF IInv

LEMMA ChildEventKeeps ==
  ASSUME IInv, NEW c \in Clients, NEW k \in Children, users[c].st # "idle", users[c].e = k,
         OnChildEvent(k), excused' = Heard({r \in Roots : Edge[r] = k}),
         users' = [users EXCEPT ![c] = NoUser], UNCHANGED <<store, phase, writes, bounds>>
  PROVE  IInv'
<1>1. /\ Types /\ OwnInv /\ excused \in SUBSET Roots /\ climbs \in [Children -> Nat]
      /\ UNCHANGED <<docs, childIn, phase, writes, faults, warmNows, warms, running, queued>>
      /\ climbs' = IF phase = "live" THEN [climbs EXCEPT ![k] = @ + 1] ELSE climbs
  BY DEF IInv, Types, store, bounds, OnChildEvent
<1>2. /\ users' \in [Clients -> UserType]
      /\ \A r : Busy(r) => Busy(r)' \/ k \in {r, Edge[r]}
  BY <1>1, CallEnds
<1>3. \A r \in Roots : k # r
  BY NamesAssumption
<1>4. /\ excused' \in SUBSET Roots /\ excused \subseteq excused'
      /\ phase # "live" => \A r \in Roots : Edge[r] = k => r \in excused'
  BY <1>1 DEF Heard
<1>5. /\ climbs' \in [Children -> Nat] /\ (phase = "live" => climbs'[k] > 0)
      /\ \A q \in Children : climbs[q] > 0 => climbs'[q] > 0
  BY <1>1
<1>6. Types' /\ OwnInv' /\ WriteInv'
  BY <1>1, <1>2, <1>4, <1>5 DEF IInv, Types, OwnInv, WriteInv
<1>7. FirstSweepInv'
  <2>1. phase = "starting" => \A r \in Roots \ excused' : ~Busy(r)' => r \notin excused /\ ~Busy(r)
    BY <1>2, <1>3, <1>4
  <2> QED
    BY <1>1, <2>1 DEF IInv, FirstSweepInv, Fingerprint
<1>8. StaleIsPending'
  <2> SUFFICES ASSUME NEW r \in Roots, r \notin excused', Stale(r), ~Busy(r)'
               PROVE  climbs'[Edge[r]] > 0 \/ Queues(r) \/ \E i \in DOMAIN warms : Holds(i, r)
    BY <1>1 DEF StaleIsPending, Stale, Pending, Busy, Queues, Holds, Fingerprint
  <2>1. Pending(r)
    BY <1>4 DEF IInv, StaleIsPending, Stale
  <2> QED
    BY <1>2, <1>3, <1>4, <1>5, <2>1, EdgeAssumption, PendingParts
<1> QED
  BY <1>6, <1>7, <1>8 DEF IInv

LEMMA UserEmitsKeeps == ASSUME IInv, NEW c \in Clients, UserEmits(c) PROVE IInv'
<1>1. UNCHANGED <<store, phase, writes, bounds>> /\ users' = [users EXCEPT ![c] = NoUser] /\ Types
  BY DEF UserEmits, IInv
<1>2. CASE users[c].st \in {"saved", "removed"}
  <2>1. PICK e \in Roots : e = users[c].e
    BY <1>1, <1>2, UserFields
  <2>2. PICK t \in {Only({e}), All} : OnRootEvent(t, warms)
    BY <1>2, <2>1 DEF UserEmits
  <2>3. t \in Tasks /\ (t.all => t.roots = {}) /\ (e \in t.roots \/ t.all)
    <3>1. /\ Only({e}) \in Tasks /\ ~Only({e}).all /\ Only({e}).roots = {e}
          /\ All \in Tasks /\ All.all /\ All.roots = {}
      BY DEF Only, All, Tasks
    <3> QED
      BY <2>2, <3>1
  <2>4. excused' = Heard({e})
    BY <1>2, <2>1 DEF UserEmits
  <2> QED
    BY <1>1, <1>2, <2>1, <2>2, <2>3, <2>4, RootEventKeeps
<1>3. CASE users[c].st = "savedChild"
  <2>1. PICK k \in Children : k = users[c].e
    BY <1>1, <1>3, UserFields
  <2>2. OnChildEvent(k) /\ excused' = Heard({r \in Roots : Edge[r] = k})
    BY <1>3, <2>1 DEF UserEmits
  <2> QED
    BY <1>1, <1>3, <2>1, <2>2, ChildEventKeeps
<1> QED
  BY <1>2, <1>3 DEF UserEmits
-----------------------------------------------------------------------------
(* Climbs, the subscription and warmNow().                                 *)

LEMMA ClimbEndsKeeps == ASSUME IInv, NEW k \in Children, ClimbEnds(k) PROVE IInv'
<1> DEFINE t == IF RootsOf(k) = {} THEN All ELSE Only(RootsOf(k))
<1>1. /\ climbs[k] > 0 /\ climbs' = [climbs EXCEPT ![k] = @ - 1]
      /\ RunOrQueue(t, warms, running)
      /\ UNCHANGED <<docs, childIn, users, phase, excused, writes, faults, warmNows>>
      /\ Types /\ OwnInv /\ warms \in Seq(WarmType) /\ climbs \in [Children -> Nat]
  BY DEF ClimbEnds, IInv, Types, store, bounds
<1>2. /\ t \in Tasks /\ (t.all => t.roots = {})
      /\ \A r \in Present : Edge[r] = k => r \in t.roots \/ t.all
  BY DEF Only, All, Tasks, RootsOf, Present
<1> HIDE DEF t
<1>3. /\ warms' \in Seq(WarmType) /\ running' \in BOOLEAN
      /\ queued' \in Tasks /\ (queued'.all => queued'.roots = {})
      /\ OwnInv'
      /\ \A i \in DOMAIN warms : i \in DOMAIN warms' /\ warms'[i] = warms[i]
      /\ \A i \in DOMAIN warms' : i \in DOMAIN warms \/ Begun(warms'[i])
      /\ \A r : Queues(r) => Queues(r)'
      /\ \A r : (r \in t.roots \/ (t.all /\ r \in Present)) =>
           Queues(r)' \/ \E i \in DOMAIN warms' : r \in warms'[i].todo
  BY <1>1, <1>2, RunOrQueueFacts
<1>4. climbs' \in [Children -> Nat] /\ \A q \in Children \ {k} : climbs'[q] = climbs[q]
  BY <1>1
<1>5. Types'
  BY <1>1, <1>3, <1>4 DEF Types
<1>6. WriteInv'
  BY <1>3, BegunIsHarmless DEF IInv, WriteInv, Begun
<1>7. /\ \A r : Fingerprint(r)' = Fingerprint(r)
      /\ \A r : Busy(r)' <=> Busy(r)
  BY <1>1 DEF Fingerprint, Busy
<1>8. FirstSweepInv'
  <2> SUFFICES ASSUME phase = "starting", NEW r \in Roots, r \notin excused, ~Busy(r),
                      NEW i \in DOMAIN warms'
               PROVE  /\ warms'[i].seen[r] \in {NoMat, Fingerprint(r)}
                      /\ warms'[i].at = r =>
                           /\ warms'[i].cur = docs[r].in
                           /\ warms'[i].st = "persisted" => docs[r].mat = warms'[i].seen[r]
    BY <1>1, <1>7 DEF FirstSweepInv
  <2>1. CASE i \in DOMAIN warms
    BY <1>3, <2>1 DEF IInv, FirstSweepInv
  <2>2. CASE Begun(warms'[i])
    BY <2>2, BegunIsHarmless
  <2> QED
    BY <1>3, <2>1, <2>2
<1>9. StaleIsPending'
  <2> SUFFICES ASSUME NEW r \in Roots, r \notin excused, Stale(r), ~Busy(r) PROVE Pending(r)'
    BY <1>1, <1>7 DEF StaleIsPending, Stale, Pending, Busy
  <2>1. climbs[Edge[r]] > 0 \/ Queues(r) \/ \E i \in DOMAIN warms : Holds(i, r)
    BY PendingParts DEF IInv, StaleIsPending, Stale
  <2>2. CASE Edge[r] = k
    <3>1. r \in Present
      BY <1>1, RootFields DEF Stale
    <3> QED
      BY <1>2, <1>3, <2>2, <3>1 DEF Pending, Queues
  <2>3. CASE Edge[r] # k
    <3>1. climbs'[Edge[r]] > 0 \/ Queues(r)' \/ \E i \in DOMAIN warms' : Holds(i, r)'
      BY <1>3, <1>4, <1>7, <2>1, <2>3, EdgeAssumption DEF Holds
    <3> QED
      BY <3>1 DEF Pending, Queues, Holds
  <2> QED
    BY <2>2, <2>3
<1> QED
  BY <1>3, <1>5, <1>6, <1>8, <1>9 DEF IInv

LEMMA ClimbFailsKeeps == ASSUME IInv, NEW k \in Children, ClimbFails(k) PROVE IInv'
<1>1. /\ climbs' = [climbs EXCEPT ![k] = @ - 1] /\ climbs[k] > 0 /\ faults' = faults + 1
      /\ excused' = excused \cup {r \in Roots : Edge[r] = k}
      /\ UNCHANGED <<docs, childIn, users, warms, running, queued, phase, writes, warmNows>>
      /\ Types /\ climbs \in [Children -> Nat] /\ faults \in Nat /\ excused \in SUBSET Roots
  BY DEF ClimbFails, Fault, IInv, Types, store
<1>2. climbs' \in [Children -> Nat] /\ \A q \in Children \ {k} : climbs'[q] = climbs[q]
  BY <1>1
<1>3. Types' /\ OwnInv' /\ WriteInv'
  BY <1>1, <1>2 DEF IInv, Types, OwnInv, WriteInv
<1>4. FirstSweepInv'
  BY <1>1 DEF IInv, FirstSweepInv, Fingerprint, Busy
<1>5. StaleIsPending'
  <2> SUFFICES ASSUME NEW r \in Roots, r \notin excused', Stale(r) PROVE Pending(r)'
    BY <1>1 DEF StaleIsPending, Stale, Fingerprint
  <2>1. Pending(r) /\ Edge[r] \in Children \ {k}
    BY <1>1, EdgeAssumption DEF IInv, StaleIsPending, Stale
  <2> QED
    BY <1>1, <1>2, <2>1 DEF Pending, Fingerprint
<1> QED
  BY <1>3, <1>4, <1>5 DEF IInv

LEMMA PhaseKeeps == ASSUME IInv, Subscribe \/ Stop PROVE IInv'
<1>1. /\ UNCHANGED <<docs, childIn, users, warms, running, queued, climbs, excused, writes, faults, warmNows>>
      /\ phase' \in {"live", "stopped"}
  BY DEF Subscribe, Stop, store, schedule, bounds
<1>2. Types' /\ OwnInv' /\ WriteInv'
  BY <1>1 DEF IInv, Types, OwnInv, WriteInv
<1>3. FirstSweepInv'
  BY <1>1 DEF FirstSweepInv
<1>4. StaleIsPending'
  BY <1>1 DEF IInv, StaleIsPending, Pending, Fingerprint
<1> QED
  BY <1>2, <1>3, <1>4 DEF IInv

LEMMA WarmNowKeeps == ASSUME IInv, WarmNow PROVE IInv'
<1>1. /\ phase # "starting" /\ warms' = Append(warms, Run("now", All)) /\ warmNows' = warmNows + 1
      /\ UNCHANGED <<docs, childIn, users, running, queued, climbs, phase, excused, writes, faults>>
      /\ Types /\ warms \in Seq(WarmType) /\ Len(warms) \in Nat /\ DOMAIN warms = 1..Len(warms)
  BY LenProperties DEF WarmNow, IInv, Types, store
<1>2. PICK w \in WarmType : w = Run("now", All) /\ w.by = "now" /\ Begun(w)
  <2>1. All \in Tasks
    BY DEF All, Tasks
  <2> QED
    BY <2>1, RunIsWarm
<1>3. /\ warms' \in Seq(WarmType) /\ DOMAIN warms' = 1..(Len(warms) + 1)
      /\ \A i \in DOMAIN warms : warms'[i] = warms[i]
      /\ warms'[Len(warms) + 1] = w
  BY <1>1, <1>2, AppendProperties, LenProperties
<1>4. \A i \in DOMAIN warms' : i \in DOMAIN warms \/ warms'[i] = w
  BY <1>1, <1>3
<1>5. DOMAIN warms \subseteq DOMAIN warms'
  BY <1>1, <1>3
<1>6. Types'
  BY <1>1, <1>3 DEF Types
<1>7. OwnInv'
  BY <1>1, <1>2, <1>3, <1>4, <1>5 DEF IInv, OwnInv
<1>8. WriteInv'
  BY <1>2, <1>3, <1>4 DEF IInv, WriteInv, Begun
<1>9. FirstSweepInv'
  BY <1>1 DEF FirstSweepInv
<1>10. StaleIsPending'
  <2> SUFFICES ASSUME NEW r \in Roots, r \notin excused, Stale(r) PROVE Pending(r)'
    BY <1>1 DEF StaleIsPending, Stale, Fingerprint
  <2>1. Busy(r) \/ climbs[Edge[r]] > 0 \/ Queues(r) \/ \E i \in DOMAIN warms : Holds(i, r)
    BY PendingParts DEF IInv, StaleIsPending, Stale
  <2>2. Fingerprint(r)' = Fingerprint(r) /\ (Busy(r) => Busy(r)')
    BY <1>1 DEF Fingerprint, Busy
  <2>3. \A i \in DOMAIN warms : Holds(i, r) => Holds(i, r)'
    BY <1>3, <2>2 DEF Holds
  <2> QED
    BY <1>1, <1>5, <2>1, <2>2, <2>3 DEF Pending, Busy, Queues, Holds
<1> QED
  BY <1>6, <1>7, <1>8, <1>9, <1>10 DEF IInv
-----------------------------------------------------------------------------
(***************************************************************************)
(* The steps of a run.                                                     *)
(***************************************************************************)
LEMMA RunStepKeeps ==
  ASSUME IInv, NEW i \in DOMAIN warms, NEW w \in WarmType, w.by = warms[i].by,
         warms' = [warms EXCEPT ![i] = w],
         UNCHANGED <<store, users, running, queued, climbs, phase, excused, writes, bounds>>,
         w.at = NoRoot <=> w.st = "run",
         w.at # NoRoot => w.todo = {} /\ w.seen[w.at] # NoMat,
         \A r \in Roots : (phase = "starting" /\ r \notin excused /\ ~Busy(r)) =>
           /\ w.seen[r] \in {NoMat, Fingerprint(r)}
           /\ w.at = r => /\ w.cur = docs[r].in
                          /\ w.st = "persisted" => docs[r].mat = w.seen[r],
         \A r \in Roots : Stale(r) /\ Holds(i, r) =>
           r \in w.todo \/ w.seen[r] = Fingerprint(r) \/ w.at = r
  PROVE  IInv'
<1>1. /\ Types /\ UNCHANGED <<docs, childIn, users, running, queued, climbs, phase, excused,
                              writes, faults, warmNows>>
  BY DEF IInv, store, bounds
<1>2. /\ warms' \in Seq(WarmType) /\ DOMAIN warms' = DOMAIN warms
      /\ warms'[i] = w /\ \A j \in DOMAIN warms \ {i} : warms'[j] = warms[j]
      /\ OwnInv'
  BY <1>1, RunChanges DEF IInv
<1>3. Types'
  BY <1>1, <1>2 DEF Types
<1>4. WriteInv'
  BY <1>2 DEF IInv, WriteInv
<1>5. \A r : Fingerprint(r)' = Fingerprint(r) /\ (Busy(r)' <=> Busy(r))
  BY <1>1 DEF Fingerprint, Busy
<1>6. FirstSweepInv'
  BY <1>1, <1>2, <1>5 DEF IInv, FirstSweepInv
<1>7. StaleIsPending'
  <2> SUFFICES ASSUME NEW r \in Roots, r \notin excused, Stale(r) PROVE Pending(r)'
    BY <1>1, <1>5 DEF StaleIsPending, Stale
  <2>1. Busy(r) \/ climbs[Edge[r]] > 0 \/ Queues(r) \/ \E j \in DOMAIN warms : Holds(j, r)
    BY PendingParts DEF IInv, StaleIsPending, Stale
  <2>2. \A j \in DOMAIN warms : Holds(j, r) => Holds(j, r)'
    BY <1>2, <1>5 DEF Holds
  <2> QED
    BY <1>1, <1>2, <1>5, <2>1, <2>2 DEF Pending, Busy, Queues, Holds
<1> QED
  BY <1>2, <1>3, <1>4, <1>6, <1>7 DEF IInv

LEMMA LoadKeeps ==
  ASSUME IInv, NEW i \in DOMAIN warms, NEW r \in Roots, Load(i, r) PROVE IInv'
<1> DEFINE x == IF r \in Present THEN Fingerprint(r) ELSE NoMat
           w == [warms[i] EXCEPT !.todo = @ \ {r}, !.seen[r] = x]
<1>1. /\ Types /\ r \in warms[i].todo /\ warms[i] \in WarmType /\ x \in Mats
      /\ UNCHANGED <<store, users, running, queued, climbs, phase, excused, writes, bounds>>
  BY WarmFields, RootFields DEF Load, IInv, Mats
<1>2. /\ (Stale(r) => x = Fingerprint(r)) /\ x \in {NoMat, Fingerprint(r)}
  BY <1>1, RootFields DEF Stale
<1>3. warms' = [warms EXCEPT ![i] = w]
  BY <1>1 DEF Load, Types, WarmType
<1> HIDE DEF x
<1>4. /\ w \in WarmType /\ w.by = warms[i].by /\ w.todo = warms[i].todo \ {r} /\ w.at = warms[i].at
      /\ w.seen = [warms[i].seen EXCEPT ![r] = x] /\ w.cur = warms[i].cur /\ w.st = warms[i].st
  BY <1>1 DEF WarmType
<1> HIDE DEF w
<1>5. w.seen[r] = x /\ \A q \in Roots \ {r} : w.seen[q] = warms[i].seen[q]
  BY <1>1, <1>4, WarmFields
<1>6. w.at = NoRoot /\ w.st = "run"
  BY <1>1, <1>4 DEF IInv, WriteInv
<1>7. \A q \in Roots : (phase = "starting" /\ q \notin excused /\ ~Busy(q)) =>
        w.seen[q] \in {NoMat, Fingerprint(q)} /\ w.at # q
  BY <1>2, <1>5, <1>6, NamesAssumption DEF IInv, FirstSweepInv
<1>8. \A q \in Roots : Stale(q) /\ Holds(i, q) => q \in w.todo \/ w.seen[q] = Fingerprint(q)
  BY <1>2, <1>4, <1>5, <1>6, NamesAssumption DEF Holds
<1> QED
  BY <1>1, <1>3, <1>4, <1>6, <1>7, <1>8, RunStepKeeps

LEMMA SkipTargetKeeps ==
  ASSUME IInv, NEW i \in DOMAIN warms, NEW r \in Roots, SkipTarget(i, r) PROVE IInv'
<1> DEFINE w == [warms[i] EXCEPT !.seen[r] = NoMat]
<1>1. /\ Types /\ warms[i] \in WarmType /\ warms[i].at = NoRoot /\ warms[i].todo = {}
      /\ warms' = [warms EXCEPT ![i] = w]
      /\ docs[r].mat = warms[i].seen[r] \/ warms[i].seen[r][1] = Absent
      /\ UNCHANGED <<store, users, running, queued, climbs, phase, excused, writes, bounds>>
  BY WarmFields DEF SkipTarget, Fresh, IInv
<1>2. /\ w \in WarmType /\ w.by = warms[i].by /\ w.todo = {} /\ w.at = NoRoot
      /\ w.seen = [warms[i].seen EXCEPT ![r] = NoMat] /\ w.st = warms[i].st
  BY <1>1 DEF WarmType, Mats
<1> HIDE DEF w
<1>3. w.seen[r] = NoMat /\ \A q \in Roots \ {r} : w.seen[q] = warms[i].seen[q]
  BY <1>1, <1>2, WarmFields
<1>4. w.at = NoRoot <=> w.st = "run"
  BY <1>1, <1>2 DEF IInv, WriteInv
<1>5. \A q \in Roots : (phase = "starting" /\ q \notin excused /\ ~Busy(q)) =>
        w.seen[q] \in {NoMat, Fingerprint(q)} /\ w.at # q
  BY <1>2, <1>3, NamesAssumption DEF IInv, FirstSweepInv
<1>6. Stale(r) => warms[i].seen[r] # Fingerprint(r)
  BY <1>1, RootFields DEF Stale
<1>7. \A q \in Roots : Stale(q) /\ Holds(i, q) => w.seen[q] = Fingerprint(q)
  BY <1>1, <1>2, <1>3, <1>6, NamesAssumption DEF Holds
<1>8. /\ warms' = [warms EXCEPT ![i] = w]
      /\ UNCHANGED <<store, users, running, queued, climbs, phase, excused, writes, bounds>>
  BY <1>1
<1>9. w \in WarmType /\ w.by = warms[i].by /\ w.at = NoRoot
  BY <1>2
<1> QED
  BY <1>4, <1>5, <1>7, <1>8, <1>9, RunStepKeeps

LEMMA WriteTargetKeeps ==
  ASSUME IInv, NEW i \in DOMAIN warms, NEW r \in Roots, WriteTarget(i, r) PROVE IInv'
<1> DEFINE w == [warms[i] EXCEPT !.at = r, !.cur = docs[r].in, !.st = "loaded"]
<1>1. /\ Types /\ warms[i] \in WarmType /\ warms[i].at = NoRoot /\ warms[i].todo = {}
      /\ warms[i].seen[r] # NoMat /\ docs[r].in \in Inputs
      /\ UNCHANGED <<store, users, running, queued, climbs, phase, excused, writes, bounds>>
  BY WarmFields, RootFields DEF WriteTarget, IInv
<1>2. warms' = [warms EXCEPT ![i] = w]
  BY <1>1 DEF WriteTarget, Types, WarmType
<1>3. /\ w \in WarmType /\ w.by = warms[i].by /\ w.todo = {} /\ w.at = r
      /\ w.seen = warms[i].seen /\ w.st = "loaded" /\ w.cur = docs[r].in
  BY <1>1 DEF WarmType
<1> HIDE DEF w
<1>4. r # NoRoot
  BY NamesAssumption
<1>5. \A q \in Roots : (phase = "starting" /\ q \notin excused /\ ~Busy(q)) =>
        w.seen[q] \in {NoMat, Fingerprint(q)}
  BY <1>3 DEF IInv, FirstSweepInv
<1>6. \A q \in Roots : Stale(q) /\ Holds(i, q) => w.seen[q] = Fingerprint(q)
  BY <1>1, <1>3, NamesAssumption DEF Holds
<1> QED
  BY <1>1, <1>2, <1>3, <1>4, <1>5, <1>6, RunStepKeeps

LEMMA PersistKeeps == ASSUME IInv, NEW i \in DOMAIN warms, Persist(i) PROVE IInv'
<1> DEFINE w == [warms[i] EXCEPT !.st = "persisted"]
<1>1. /\ Types /\ warms[i] \in WarmType /\ warms[i].st = "loaded"
      /\ warms' = [warms EXCEPT ![i] = w]
      /\ UNCHANGED <<childIn, users, running, queued, climbs, phase, excused, writes, faults, warmNows>>
  BY WarmFields DEF Persist, IInv, bounds
<1>2. PICK r \in Roots : r = warms[i].at
  BY <1>1, WarmFields DEF IInv, WriteInv
<1>3. /\ w \in WarmType /\ w.by = warms[i].by /\ w.todo = warms[i].todo /\ w.at = r
      /\ w.seen = warms[i].seen /\ w.st = "persisted" /\ w.cur = warms[i].cur
  BY <1>1, <1>2 DEF WarmType
<1> HIDE DEF w
<1>4. /\ warms' \in Seq(WarmType) /\ DOMAIN warms' = DOMAIN warms
      /\ warms'[i] = w /\ \A j \in DOMAIN warms \ {i} : warms'[j] = warms[j]
      /\ OwnInv'
  BY <1>1, <1>3, RunChanges DEF IInv
<1> DEFINE d == [in |-> warms[i].cur, mat |-> warms[i].seen[r]]
<1>5. /\ d \in Docs /\ docs' = [docs EXCEPT ![r] = d] /\ d.in = warms[i].cur
      /\ d.mat = warms[i].seen[r]
  BY <1>1, <1>2, WarmFields DEF Persist, Docs
<1> HIDE DEF d
<1>6. docs' \in [Roots -> Docs] /\ docs'[r] = d /\ \A q \in Roots \ {r} : docs'[q] = docs[q]
  BY <1>1, <1>5 DEF Types
<1>7. Types'
  BY <1>1, <1>4, <1>6 DEF Types
<1>8. WriteInv'
  BY <1>1, <1>2, <1>3, <1>4 DEF IInv, WriteInv
<1>9. \A q : Busy(q)' <=> Busy(q)
  BY <1>1 DEF Busy
<1>10. \A q \in Roots \ {r} : Fingerprint(q)' = Fingerprint(q)
  BY <1>1, <1>6 DEF Fingerprint
<1>11. FirstSweepInv'
  <2> SUFFICES ASSUME phase = "starting", NEW q \in Roots, q \notin excused, ~Busy(q),
                      NEW j \in DOMAIN warms
               PROVE  /\ warms'[j].seen[q] \in {NoMat, Fingerprint(q)'}
                      /\ warms'[j].at = q =>
                           /\ warms'[j].cur = docs'[q].in
                           /\ warms'[j].st = "persisted" => docs'[q].mat = warms'[j].seen[q]
    BY <1>1, <1>4, <1>9 DEF FirstSweepInv
  <2>1. /\ warms[j].seen[q] \in {NoMat, Fingerprint(q)}
        /\ warms[j].at = q => /\ warms[j].cur = docs[q].in
                              /\ warms[j].st = "persisted" => docs[q].mat = warms[j].seen[q]
        /\ warms[j].at = q => warms[j].seen[q] # NoMat
    BY NamesAssumption DEF IInv, FirstSweepInv, WriteInv
  <2>2. /\ warms'[j].seen = warms[j].seen /\ warms'[j].at = warms[j].at
        /\ warms'[j].cur = warms[j].cur
    BY <1>2, <1>3, <1>4
  <2>3. CASE q # r
    <3>1. q \notin {w.at}
      BY <1>3, <2>3
    <3>2. docs'[q] = docs[q] /\ Fingerprint(q)' = Fingerprint(q)
      BY <1>6, <1>10, <2>3
    <3>3. warms'[j].at = q => warms'[j] = warms[j]
      BY <1>3, <1>4, <3>1
    <3> QED
      BY <2>1, <2>2, <3>2, <3>3
  <2>4. CASE q = r
    <3>1. warms[i].cur = docs[q].in /\ warms[i].seen[q] = Fingerprint(q)
      BY <1>2, <2>4, NamesAssumption DEF IInv, FirstSweepInv, WriteInv
    <3>2. docs'[q].in = docs[q].in /\ docs'[q].mat = Fingerprint(q)
      BY <1>5, <1>6, <2>4, <3>1
    <3>3. Fingerprint(q)' = Fingerprint(q)
      BY <1>1, <3>2 DEF Fingerprint
    <3> QED
      BY <2>1, <2>2, <3>2, <3>3
  <2> QED
    BY <2>3, <2>4
<1>12. StaleIsPending'
  <2> SUFFICES ASSUME NEW q \in Roots, q \notin excused, Stale(q)' PROVE Pending(q)'
    BY <1>1 DEF StaleIsPending, Stale
  <2>1. CASE q = r
    <3>1. i \in DOMAIN warms' /\ warms'[i].at = q
      BY <1>3, <1>4, <2>1
    <3> QED
      BY <3>1 DEF Pending
  <2>2. CASE q # r
    <3>1. Stale(q) /\ Fingerprint(q)' = Fingerprint(q)
      BY <1>6, <1>10, <2>2 DEF Stale
    <3>2. Busy(q) \/ climbs[Edge[q]] > 0 \/ Queues(q) \/ \E j \in DOMAIN warms : Holds(j, q)
      BY <3>1, PendingParts DEF IInv, StaleIsPending, Stale
    <3>3. \A j \in DOMAIN warms : Holds(j, q) => Holds(j, q)'
      BY <1>2, <1>3, <1>4, <3>1 DEF Holds
    <3> QED
      BY <1>1, <1>4, <1>9, <3>2, <3>3 DEF Pending, Busy, Queues, Holds
  <2> QED
    BY <2>1, <2>2
<1> QED
  BY <1>4, <1>7, <1>8, <1>11, <1>12 DEF IInv

LEMMA WarmEmitsKeeps == ASSUME IInv, NEW i \in DOMAIN warms, WarmEmits(i) PROVE IInv'
<1>1. /\ Types /\ OwnInv /\ warms[i] \in WarmType /\ warms[i].st = "persisted"
      /\ UNCHANGED <<docs, childIn, users, phase, writes, faults, warmNows>>
      /\ warms \in Seq(WarmType) /\ excused \in SUBSET Roots
  BY WarmFields DEF WarmEmits, IInv, Types, store, bounds
<1>2. PICK r \in Roots : r = warms[i].at
  BY <1>1, WarmFields DEF IInv, WriteInv
<1> DEFINE w == [warms[i] EXCEPT !.seen[r] = NoMat, !.at = NoRoot, !.cur = Absent, !.st = "run"]
           ws == [warms EXCEPT ![i] = w]
<1>3. /\ OnRootEvent(Only({r}), ws)
      /\ excused' = IF phase = "stopped" THEN excused \cup {r} ELSE excused
  <2>1. ws = [warms EXCEPT ![i].seen[r] = NoMat, ![i].at = NoRoot, ![i].cur = Absent, ![i].st = "run"]
    BY <1>1 DEF Types, WarmType
  <2> QED
    BY <1>2, <2>1 DEF WarmEmits
<1>4. /\ w \in WarmType /\ w.by = warms[i].by /\ w.todo = warms[i].todo /\ w.at = NoRoot
      /\ w.seen = [warms[i].seen EXCEPT ![r] = NoMat] /\ w.st = "run"
  BY <1>1, InputsAreNumbers DEF WarmType, Mats, Absent
<1> HIDE DEF w
<1>5. w.seen[r] = NoMat /\ \A q \in Roots \ {r} : w.seen[q] = warms[i].seen[q]
  BY <1>1, <1>4, WarmFields
<1>6. /\ ws \in Seq(WarmType) /\ DOMAIN ws = DOMAIN warms /\ ws[i] = w
      /\ \A j \in DOMAIN warms \ {i} : ws[j] = warms[j]
  BY <1>1, <1>4, ExceptSeq, LenProperties
<1> HIDE DEF ws
<1>7. /\ Only({r}) \in Tasks /\ ~Only({r}).all /\ Only({r}).roots = {r}
      /\ \A j \in DOMAIN ws : ws[j].by = warms[j].by
  BY <1>4, <1>6 DEF Only, Tasks
<1>8. /\ warms' \in Seq(WarmType) /\ running' \in BOOLEAN
      /\ queued' \in Tasks /\ (queued'.all => queued'.roots = {})
      /\ OwnInv' /\ UNCHANGED climbs
      /\ \A j \in DOMAIN ws : j \in DOMAIN warms' /\ warms'[j] = ws[j]
      /\ \A j \in DOMAIN warms' : j \in DOMAIN ws \/ Begun(warms'[j])
      /\ \A q : Queues(q) => Queues(q)'
      /\ phase = "live" => (Queues(r)' \/ \E j \in DOMAIN warms' : r \in warms'[j].todo)
  BY <1>1, <1>3, <1>6, <1>7, RootEventFacts
<1>9. excused' \in SUBSET Roots /\ excused \subseteq excused' /\ (phase = "stopped" => r \in excused')
  BY <1>1, <1>3
<1>10. Types'
  BY <1>1, <1>8, <1>9 DEF Types
<1>11. WriteInv'
  <2>1. \A j \in DOMAIN ws : /\ ws[j].at = NoRoot <=> ws[j].st = "run"
                             /\ ws[j].at # NoRoot => ws[j].todo = {} /\ ws[j].seen[ws[j].at] # NoMat
    BY <1>4, <1>6 DEF IInv, WriteInv
  <2> QED
    BY <1>8, <2>1 DEF WriteInv, Begun
<1>12. \A q : Fingerprint(q)' = Fingerprint(q) /\ (Busy(q)' <=> Busy(q))
  BY <1>1 DEF Fingerprint, Busy
<1>13. FirstSweepInv'
  <2> SUFFICES ASSUME phase = "starting", NEW q \in Roots, q \notin excused, ~Busy(q),
                      NEW j \in DOMAIN warms'
               PROVE  /\ warms'[j].seen[q] \in {NoMat, Fingerprint(q)}
                      /\ warms'[j].at = q =>
                           /\ warms'[j].cur = docs[q].in
                           /\ warms'[j].st = "persisted" => docs[q].mat = warms'[j].seen[q]
    BY <1>1, <1>9, <1>12 DEF FirstSweepInv
  <2>1. CASE j = i
    <3>1. warms'[j] = w
      BY <1>6, <1>8, <2>1
    <3>2. w.at # q
      BY <1>4, NamesAssumption
    <3>3. w.seen[q] \in {NoMat, warms[i].seen[q]}
      BY <1>5
    <3>4. warms[i].seen[q] \in {NoMat, Fingerprint(q)}
      BY DEF IInv, FirstSweepInv
    <3> QED
      BY <3>1, <3>2, <3>3, <3>4
  <2>2. CASE j \in DOMAIN ws /\ j # i
    BY <1>6, <1>8, <2>2 DEF IInv, FirstSweepInv
  <2>3. CASE Begun(warms'[j])
    BY <2>3, BegunIsHarmless
  <2> QED
    BY <1>8, <2>1, <2>2, <2>3
<1>14. StaleIsPending'
  <2> SUFFICES ASSUME NEW q \in Roots, q \notin excused', Stale(q), ~Busy(q) PROVE Pending(q)'
    BY <1>1, <1>12 DEF StaleIsPending, Stale, Pending, Busy
  <2>1. climbs[Edge[q]] > 0 \/ Queues(q) \/ \E j \in DOMAIN warms : Holds(j, q)
    BY <1>9, PendingParts DEF IInv, StaleIsPending, Stale
  <2>2. CASE q = r /\ phase = "live"
    BY <1>8, <2>2 DEF Pending, Queues
  <2>3. CASE q = r /\ phase = "starting"
    <3>1. docs[q].mat = warms[i].seen[q] /\ warms[i].seen[q] \in {NoMat, Fingerprint(q)}
      BY <1>1, <1>2, <1>9, <2>3 DEF IInv, FirstSweepInv
    <3>2. warms[i].seen[q] # NoMat
      BY <1>2, <2>3, NamesAssumption DEF IInv, WriteInv
    <3> QED
      BY <3>1, <3>2 DEF Stale
  <2>4. CASE q # r
    <3>1. \A j \in DOMAIN warms : Holds(j, q) => Holds(j, q)'
      <4>1. warms'[i] = w /\ \A j \in DOMAIN warms \ {i} : warms'[j] = warms[j]
        BY <1>6, <1>8
      <4>2. Holds(i, q) => q \in w.todo \/ w.seen[q] = Fingerprint(q)
        BY <1>2, <1>4, <1>5, <2>4 DEF Holds
      <4> QED
        BY <1>12, <4>1, <4>2 DEF Holds
    <3> QED
      BY <1>6, <1>8, <2>1, <3>1 DEF Pending, Queues, Holds
  <2>5. phase \in {"starting", "live", "stopped"}
    BY <1>1 DEF Types
  <2> QED
    BY <1>9, <2>2, <2>3, <2>4, <2>5
<1> QED
  BY <1>8, <1>10, <1>11, <1>13, <1>14 DEF IInv

\* A run that ends, well or not, leaves to others what it has not done.
LEMMA FinishKeeps ==
  ASSUME IInv, NEW i \in DOMAIN warms, Finish(i),
         UNCHANGED <<docs, childIn, users, climbs, writes, warmNows>>, faults' \in Nat,
         phase' \in {phase, "stopped"}, excused' \in SUBSET Roots, excused \subseteq excused',
         \A r \in Roots \ excused' : Stale(r) => ~Holds(i, r)
  PROVE  IInv'
<1>1. Types /\ OwnInv
  BY DEF IInv
<1>2. /\ warms' \in Seq(WarmType) /\ running' \in BOOLEAN
      /\ queued' \in Tasks /\ (queued'.all => queued'.roots = {})
      /\ OwnInv'
      /\ \A j \in DOMAIN warms \ {i} : \E m \in DOMAIN warms' : warms'[m] = warms[j]
      /\ \A m \in DOMAIN warms' :
           Begun(warms'[m]) \/ \E j \in DOMAIN warms \ {i} : warms'[m] = warms[j]
      /\ \A r \in Present : Queues(r) =>
           Queues(r)' \/ \E m \in DOMAIN warms' : r \in warms'[m].todo
  BY <1>1, FinishFacts
<1>3. Types'
  BY <1>1, <1>2 DEF Types
<1>4. WriteInv'
  <2> SUFFICES ASSUME NEW m \in DOMAIN warms'
               PROVE  /\ warms'[m].at = NoRoot <=> warms'[m].st = "run"
                      /\ warms'[m].at # NoRoot =>
                           warms'[m].todo = {} /\ warms'[m].seen[warms'[m].at] # NoMat
    BY DEF WriteInv
  <2>1. CASE Begun(warms'[m])
    BY <2>1 DEF Begun
  <2>2. CASE \E j \in DOMAIN warms \ {i} : warms'[m] = warms[j]
    BY <2>2 DEF IInv, WriteInv
  <2> QED
    BY <1>2, <2>1, <2>2
<1>5. \A r : Fingerprint(r)' = Fingerprint(r) /\ (Busy(r)' <=> Busy(r))
  BY DEF Fingerprint, Busy
<1>6. FirstSweepInv'
  <2> SUFFICES ASSUME phase = "starting", NEW r \in Roots, r \notin excused, ~Busy(r),
                      NEW m \in DOMAIN warms'
               PROVE  /\ warms'[m].seen[r] \in {NoMat, Fingerprint(r)}
                      /\ warms'[m].at = r =>
                           /\ warms'[m].cur = docs[r].in
                           /\ warms'[m].st = "persisted" => docs[r].mat = warms'[m].seen[r]
    BY <1>5 DEF FirstSweepInv
  <2>1. CASE Begun(warms'[m])
    BY <2>1, BegunIsHarmless
  <2>2. CASE \E j \in DOMAIN warms \ {i} : warms'[m] = warms[j]
    BY <2>2 DEF IInv, FirstSweepInv
  <2> QED
    BY <1>2, <2>1, <2>2
<1>7. StaleIsPending'
  <2> SUFFICES ASSUME NEW r \in Roots, r \notin excused', Stale(r), ~Busy(r) PROVE Pending(r)'
    BY <1>5 DEF StaleIsPending, Stale, Pending, Busy
  <2>1. climbs[Edge[r]] > 0 \/ Queues(r) \/ \E j \in DOMAIN warms : Holds(j, r)
    BY PendingParts DEF IInv, StaleIsPending, Stale
  <2>2. CASE Queues(r)
    <3>1. r \in Present
      BY <1>1, RootFields DEF Stale
    <3> QED
      BY <1>2, <2>2, <3>1 DEF Pending, Queues
  <2>3. CASE \E j \in DOMAIN warms : Holds(j, r)
    <3>1. PICK j \in DOMAIN warms \ {i} : Holds(j, r)
      BY <2>3
    <3>2. PICK m \in DOMAIN warms' : warms'[m] = warms[j]
      BY <1>2
    <3>3. Holds(m, r)'
      BY <1>5, <3>1, <3>2 DEF Holds
    <3> QED
      BY <3>3 DEF Pending, Holds
  <2>4. CASE climbs[Edge[r]] > 0
    BY <2>4 DEF Pending
  <2> QED
    BY <2>1, <2>2, <2>3, <2>4
<1> QED
  BY <1>2, <1>3, <1>4, <1>6, <1>7 DEF IInv

LEMMA WarmEndsKeeps == ASSUME IInv, NEW i \in DOMAIN warms, WarmEnds(i) PROVE IInv'
<1>1. /\ Types /\ Finish(i) /\ faults \in Nat /\ excused \in SUBSET Roots
      /\ UNCHANGED <<docs, childIn, users, climbs, phase, excused, writes, faults, warmNows>>
      /\ warms[i].todo = {} /\ warms[i].at = NoRoot /\ \A r \in Roots : warms[i].seen[r] = NoMat
  BY DEF WarmEnds, IInv, Types, store, bounds
<1>2. \A r \in Roots : ~Holds(i, r)
  BY <1>1, RootFields, NamesAssumption DEF Holds
<1> QED
  BY <1>1, <1>2, FinishKeeps

LEMMA WarmFailsKeeps == ASSUME IInv, NEW i \in DOMAIN warms, WarmFails(i) PROVE IInv'
<1>1. /\ Types /\ Finish(i) /\ faults \in Nat /\ faults' = faults + 1 /\ excused \in SUBSET Roots
      /\ excused' = excused \cup warms[i].todo \cup {r \in Roots : warms[i].seen[r] # NoMat}
      /\ phase' = IF phase = "starting" THEN "stopped" ELSE phase
      /\ UNCHANGED <<docs, childIn, users, climbs, writes, warmNows>>
  BY DEF WarmFails, Fault, IInv, Types, store
<1>2. excused' \in SUBSET Roots /\ excused \subseteq excused'
  BY <1>1, WarmFields
<1>3. \A r \in Roots \ excused' : ~Holds(i, r)
  BY <1>1, RootFields, NamesAssumption DEF Holds, IInv, WriteInv
<1> QED
  BY <1>1, <1>2, <1>3, FinishKeeps
-----------------------------------------------------------------------------
(***************************************************************************)
(* The theorems.                                                           *)
(***************************************************************************)
LEMMA InitInvariant == Init => IInv
<1> SUFFICES ASSUME Init PROVE IInv
  OBVIOUS
<1> DEFINE d == [in |-> 1, mat |-> NoMat]
           w == [by |-> "now", todo |-> Roots, seen |-> [r \in Roots |-> NoMat],
                 at |-> NoRoot, cur |-> Absent, st |-> "run"]
<1>1. /\ docs = [r \in Roots |-> d] /\ childIn = [k \in Children |-> 1]
      /\ users = [c \in Clients |-> NoUser] /\ warms = <<w>>
      /\ running = FALSE /\ queued = NoTask /\ climbs = [k \in Children |-> 0]
      /\ phase = "starting" /\ excused = {} /\ writes = 1 /\ faults = 0 /\ warmNows = 0
  BY DEF Init
<1>2. d \in Docs
  BY InputsAreNumbers DEF Docs, Mats
<1>3. [r \in Roots |-> NoMat] \in [Roots -> Mats]
  BY DEF Mats
<1>4. w \in WarmType /\ w.by = "now" /\ w.todo = Roots /\ Begun(w)
  BY <1>3, InputsAreNumbers DEF WarmType, Absent, Begun
<1> HIDE DEF d, w
<1>5. warms \in Seq(WarmType) /\ DOMAIN warms = {1} /\ warms[1] = w
  BY <1>1, <1>4
<1>6. queued \in Tasks /\ ~queued.all
  BY <1>1 DEF NoTask, Tasks
<1>7. Types
  BY <1>1, <1>2, <1>5, <1>6, InputsAreNumbers DEF Types, UserType
<1>8. OwnInv
  BY <1>1, <1>4, <1>5 DEF OwnInv
<1>9. WriteInv
  BY <1>4, <1>5 DEF WriteInv, Begun
<1>10. FirstSweepInv
  BY <1>4, <1>5, BegunIsHarmless DEF FirstSweepInv
<1>11. StaleIsPending
  BY <1>4, <1>5 DEF StaleIsPending, Pending
<1> QED
  BY <1>7, <1>8, <1>9, <1>10, <1>11 DEF IInv

LEMMA NextInvariant == IInv /\ [Next]_vars => IInv'
<1> SUFFICES ASSUME IInv, [Next]_vars PROVE IInv'
  OBVIOUS
<1>1. CASE \E c \in Clients :
             \/ \E r \in Roots : SaveRoot(c, r) \/ RemoveRoot(c, r)
             \/ \E k \in Children : SaveChild(c, k)
             \/ UserStep(c)
  BY <1>1, SaveRootKeeps, RemoveRootKeeps, SaveChildKeeps, RootSavedKeeps, UserEmitsKeeps
     DEF UserStep
<1>2. CASE \E i \in DOMAIN warms : WarmStep(i)
  BY <1>2, LoadKeeps, SkipTargetKeeps, WriteTargetKeeps, PersistKeeps, WarmEmitsKeeps,
     WarmEndsKeeps, WarmFailsKeeps DEF WarmStep
<1>3. CASE \E k \in Children : ClimbEnds(k) \/ ClimbFails(k)
  BY <1>3, ClimbEndsKeeps, ClimbFailsKeeps
<1>4. CASE Subscribe \/ Stop \/ WarmNow
  BY <1>4, PhaseKeeps, WarmNowKeeps
<1>5. CASE UNCHANGED vars
  <2>1. /\ docs' = docs /\ childIn' = childIn /\ users' = users /\ warms' = warms
        /\ running' = running /\ queued' = queued /\ climbs' = climbs /\ phase' = phase
        /\ excused' = excused /\ writes' = writes /\ faults' = faults /\ warmNows' = warmNows
    BY <1>5 DEF vars
  <2>2. Types'
    BY <2>1 DEF IInv, Types
  <2>3. OwnInv' /\ WriteInv'
    BY <2>1 DEF IInv, OwnInv, WriteInv
  <2>4. FirstSweepInv'
    BY <2>1 DEF IInv, FirstSweepInv, Busy, Fingerprint
  <2>5. StaleIsPending'
    BY <2>1 DEF IInv, StaleIsPending, Pending, Fingerprint
  <2> QED
    BY <2>2, <2>3, <2>4, <2>5 DEF IInv
<1> QED
  BY <1>1, <1>2, <1>3, <1>4, <1>5 DEF Next, SystemStep

\* The strengthened invariant holds of every reachable state of the calc worker.
THEOREM CalcInvariant == Spec => []IInv
BY InitInvariant, NextInvariant, PTL DEF Spec

\* Every reachable state is well typed; in particular a queued full sweep has no targets
\* beside it.
THEOREM CalcTypeCorrect == Spec => []TypeOK
<1>1. IInv => TypeOK
  <2> SUFFICES ASSUME IInv PROVE TypeOK
    OBVIOUS
  <2>1. Types
    BY DEF IInv
  <2>2. \A c \in Clients : users[c].st \in {"idle", "save", "saved", "removed", "savedChild"}
    BY <2>1, UserFields
  <2>3. \A i \in DOMAIN warms : warms[i] \in WarmType
    BY <2>1, WarmFields
  <2> QED
    BY <2>1, <2>2, <2>3 DEF Types, TypeOK, Docs, WarmType
<1> QED
  BY <1>1, CalcInvariant, PTL

\* The subscription never runs two warm() calls at once, for any number of events, echoes
\* of its own writes, warmNow() calls and failures.
THEOREM WarmIsSingle == Spec => []SingleWarm
<1>1. IInv => SingleWarm
  <2> SUFFICES ASSUME IInv PROVE SingleWarm
    OBVIOUS
  <2> DEFINE own == {i \in DOMAIN warms : warms[i].by = "sub"}
  <2>1. running <=> own # {}
    BY DEF IInv, OwnInv
  <2>2. Cardinality(own) <= 1
    <3>1. CASE own = {}
      BY <3>1, FS_EmptySet
    <3>2. CASE own # {}
      <4>1. PICK i \in own : own = {i}
        BY <3>2 DEF IInv, OwnInv
      <4>2. Cardinality({i}) = 1
        BY FS_Singleton
      <4> QED
        BY <4>1, <4>2
    <3> QED
      BY <3>1, <3>2
  <2> QED
    BY <2>1, <2>2 DEF SingleWarm
<1> QED
  BY <1>1, CalcInvariant, PTL

\* A stored result that does not match its inputs is always still to be looked at, unless
\* its change could not be heard or its run failed.
THEOREM NoChangeIsForgotten == Spec => []StaleIsPending
<1>1. IInv => StaleIsPending
  BY DEF IInv
<1> QED
  BY <1>1, CalcInvariant, PTL
=============================================================================
