---------------------------- MODULE IndexPromise ----------------------------
(***************************************************************************)
(* What the PostgreSQL backend promises about its derived search index,    *)
(* with no worker, lease, queue or graph in sight.                         *)
(*                                                                         *)
(* Every write gives the fact a new revision and owes the index one        *)
(* wake-up for it.  The index only moves forward, never past the stored    *)
(* head, and may jump over revisions.  A wake-up is discharged either      *)
(* because the index holds that revision or a later one, or because it was *)
(* moved to the dead letters; it is discharged once, and it is discharged  *)
(* eventually.  IndexProjection is shown to implement this.                *)
(***************************************************************************)
EXTENDS Naturals

CONSTANTS
    Fact,       \* the facts of the store
    Version     \* the revision numbers a fact can reach

VARIABLES
    head,       \* head[f]: the fact's current revision, 0 before it exists
    indexed,    \* indexed[f]: the revision the index holds, 0 for none
    fate        \* fate[f][v]: what became of the wake-up for revision v

vars == <<head, indexed, fate>>

Fate == {"unborn", "owed", "indexed", "dead"}

Init ==
    /\ head = [f \in Fact |-> 0]
    /\ indexed = [f \in Fact |-> 0]
    /\ fate = [f \in Fact |-> [v \in Version |-> "unborn"]]

\* A committed write: the next revision, and the wake-up owed for it.
Write(f) ==
    /\ head[f] + 1 \in Version
    /\ head' = [head EXCEPT ![f] = @ + 1]
    /\ fate' = [fate EXCEPT ![f][head[f] + 1] = "owed"]
    /\ UNCHANGED indexed

\* The index takes a later revision, not necessarily the next one.
Advance(f) ==
    /\ \E v \in Version :
        /\ indexed[f] < v
        /\ v <= head[f]
        /\ indexed' = [indexed EXCEPT ![f] = v]
    /\ UNCHANGED <<head, fate>>

\* A wake-up is discharged: its revision is in the index, or it is given up.
Discharge(f, v) ==
    /\ fate[f][v] = "owed"
    /\ \/ /\ v <= indexed[f]
          /\ fate' = [fate EXCEPT ![f][v] = "indexed"]
       \/ fate' = [fate EXCEPT ![f][v] = "dead"]
    /\ UNCHANGED <<head, indexed>>

Next ==
    \E f \in Fact :
        \/ Write(f)
        \/ Advance(f)
        \/ \E v \in Version : Discharge(f, v)

SafeSpec == Init /\ [][Next]_vars

\* No wake-up is owed for ever.
Discharged ==
    \A f \in Fact : \A v \in Version :
        fate[f][v] = "owed" ~> fate[f][v] \in {"indexed", "dead"}

Spec == SafeSpec /\ Discharged
=============================================================================
