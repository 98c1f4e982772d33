------------------------------ MODULE Telemetry ------------------------------
(***************************************************************************)
(* What both telemetry backends promise: records are only added, one at a  *)
(* time, each fitting the records already there.                           *)
(* (docs/design/2026-08-11-operation-trace-telemetry.md, Contract)         *)
(***************************************************************************)
EXTENDS TelemetryRules

VARIABLE accepted

ContractInit == accepted = {}

Accept(cmd) == Acceptable(accepted, cmd) /\ accepted' = accepted \cup {cmd}

ContractNext == \E cmd \in Commands : Accept(cmd)

ContractSpec == ContractInit /\ [][ContractNext]_accepted

(***************************************************************************)
(* What the promise amounts to.                                            *)
(***************************************************************************)
IdsUnique == \A r, s \in accepted : r.kind = s.kind /\ r.id = s.id => r = s

\* No search is resolved twice: the contributions the metrics count are disjoint.
ResolvedOnce ==
    \A d, e \in Of(accepted, "decision") : SearchIds(d) \cap SearchIds(e) # {} => d = e

\* A decision rests on searches of its own client and trace, and used what they returned.
DecisionsRest ==
    \A d \in Of(accepted, "decision") :
       TraceKnown(accepted, d) /\ SearchesFit(accepted, d) /\ UsedWereReturned(accepted, d)

\* An action rests on its intent, its decision and, once completed, on its attempt.
ActionsRest ==
    \A a \in Of(accepted, "action") :
       IntentFits(accepted, a) /\ DecisionFits(accepted, a) /\ Attempted(accepted, a)

Sound == IdsUnique /\ ResolvedOnce /\ DecisionsRest /\ ActionsRest
=============================================================================
