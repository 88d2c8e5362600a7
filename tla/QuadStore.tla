------------------------------ MODULE QuadStore ------------------------------
(***************************************************************************)
(* What the IndexedDB quad store (packages/indexeddb-dataset) promises to  *)
(* its callers, without ids, indexes, transactions or promises: a set of   *)
(* quads, a buffer of queued additions and deletions, and at most one      *)
(* batch of them on its way to the set.                                    *)
(*                                                                         *)
(* A batch replaces the set in one step: additions first, then deletions.  *)
(* A batch that deletes a quad which this session has neither written nor  *)
(* read may stop after the additions and some of the deletions (Hexastore  *)
(* explains why).                                                          *)
(***************************************************************************)
CONSTANTS Quads

VARIABLES
  quads,      \* the persisted quads
  adds, dels, \* quads queued for insertion / deletion
  batch,      \* the batch being written: {} or a singleton of [adds, dels, whole]
  known,      \* quads met since the store was opened
  open        \* FALSE after close()

vars == <<quads, adds, dels, batch, known, open>>

Init ==
  /\ quads = {}
  /\ adds = {} /\ dels = {}
  /\ batch = {}
  /\ known = {}
  /\ open = TRUE

\* The buffer now holds a and d: it keeps them, or becomes the next batch.  A
\* store that was closed drops it instead.
Buffer(a, d, canStart) ==
  \/ /\ adds' = a /\ dels' = d
     /\ batch' = IF canStart THEN {} ELSE batch
  \/ /\ canStart
     /\ batch' = IF open THEN {[adds |-> a, dels |-> d, whole |-> TRUE]} ELSE {}
     /\ adds' = {} /\ dels' = {}

Add(q) ==
  /\ Buffer(adds \cup {q}, dels, batch = {})
  /\ UNCHANGED <<quads, known, open>>

Delete(q) ==
  /\ Buffer(adds, dels \cup {q}, batch = {})
  /\ UNCHANGED <<quads, known, open>>

Flush ==
  /\ batch = {}
  /\ Buffer(adds, dels, TRUE)
  /\ UNCHANGED <<quads, known, open>>

\* Reads and additions make quads known, and nothing is forgotten.
Learning == known \subseteq known' /\ known' \subseteq Quads

Learn ==
  /\ Learning
  /\ UNCHANGED <<quads, adds, dels, batch, open>>

Commit ==
  \E b \in batch :
    /\ b.adds \subseteq known
    /\ quads' = (quads \cup b.adds) \ b.dels
    /\ Buffer(adds, dels, TRUE)
    /\ UNCHANGED <<known, open>>

\* Only for a deletion of something unknown: the additions and the deletions in D
\* are written, the rest of the batch is written later or given up.
WritePart ==
  \E b \in batch : \E D \in SUBSET b.dels :
    /\ b.whole
    /\ b.adds \subseteq known /\ ~(b.dels \subseteq known)
    /\ quads' = (quads \cup b.adds) \ D
    /\ batch' = {[b EXCEPT !.whole = FALSE]}
    /\ UNCHANGED <<adds, dels, known, open>>

GiveUp ==
  \E b \in batch :
    /\ ~b.whole
    /\ batch' = {}
    /\ Learning
    /\ UNCHANGED <<quads, adds, dels, open>>

\* close() writes nothing; the batch on its way still ends.
Close ==
  /\ open
  /\ open' = FALSE
  /\ UNCHANGED <<quads, adds, dels, batch, known>>

\* A crash, or open() after close(): the buffer and the batch are gone, the quads
\* are not.
Reopen ==
  /\ adds' = {} /\ dels' = {} /\ batch' = {}
  /\ known' = {}
  /\ open' = TRUE
  /\ UNCHANGED quads

Next ==
  \/ \E q \in Quads : Add(q) \/ Delete(q)
  \/ Flush \/ Learn \/ Commit \/ WritePart \/ GiveUp \/ Close \/ Reopen

Spec == Init /\ [][Next]_vars
==============================================================================
