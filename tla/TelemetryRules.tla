--------------------------- MODULE TelemetryRules ---------------------------
(***************************************************************************)
(* What may enter the usage telemetry, whichever backend keeps it: the     *)
(* chain intent -> search -> decision -> action (telemetry.py, and the     *)
(* checks postgres/telemetry.py makes in its transactions).                *)
(*                                                                         *)
(* A record stands for itself: kind, id, client, trace and the fields the  *)
(* rules look at.  "facts" are the facts a search returned, empty when its *)
(* outcome was not ok; equality of whole records stands for the equality   *)
(* of request hash and client.                                             *)
(***************************************************************************)
EXTENDS Integers, Sequences, FiniteSets

CONSTANTS
    None,       \* an absent trace_id, decision_id or time
    Commands    \* what may be recorded

Of(records, kind) == {r \in records : r.kind = kind}
Named(records, kind, id) == {r \in Of(records, kind) : r.id = id}
SearchIds(cmd) == {cmd.searches[i] : i \in DOMAIN cmd.searches}

\* What a call may be told.
Answers == {"recorded", "replayed", "conflict", "refused", "unavailable"}

ASSUME NoneAssumption == None \notin Answers \cup Nat

ASSUME CommandsAssumption ==
    \A cmd \in Commands :
        /\ cmd.kind \in {"search", "intent", "decision", "action"}
        /\ cmd.kind = "decision" => cmd.searches \in Seq(SearchIds(cmd))

(***************************************************************************)
(* The commands' own validators, which run before a store is asked.        *)
(***************************************************************************)
ValidIntent(cmd) == cmd.effect \in {"external_write", "destructive"} => cmd.need = "required"
ValidDecision(cmd) ==
    /\ cmd.searches # <<>>
    /\ \A i, j \in DOMAIN cmd.searches : cmd.searches[i] = cmd.searches[j] => i = j
    /\ cmd.change = (cmd.used # {})
ValidAction(cmd) == (cmd.phase = "attempted") = (cmd.outcome = "pending")

Valid(cmd) ==
    /\ cmd.kind = "intent" => ValidIntent(cmd)
    /\ cmd.kind = "decision" => ValidDecision(cmd)
    /\ cmd.kind = "action" => ValidAction(cmd)

(***************************************************************************)
(* The checks, each one statement of a PostgreSQL transaction.             *)
(***************************************************************************)
Fresh(records, cmd) == Named(records, cmd.kind, cmd.id) = {}

TraceKnown(records, cmd) ==
    cmd.trace # None => \E i \in Named(records, "intent", cmd.trace) : i.client = cmd.client

\* A decision may only resolve searches of its client and of its trace that returned something.
SearchesFit(records, cmd) ==
    \A id \in SearchIds(cmd) :
       /\ Named(records, "search", id) # {}
       /\ \A s \in Named(records, "search", id) :
             s.client = cmd.client /\ s.trace = cmd.trace /\ s.facts # {}

Resolved(records) == UNION {SearchIds(d) : d \in Of(records, "decision")}
Unresolved(records, cmd) == SearchIds(cmd) \cap Resolved(records) = {}
UsedWereReturned(records, cmd) ==
    cmd.used \subseteq UNION {s.facts : s \in {r \in Of(records, "search") : r.id \in SearchIds(cmd)}}

IntentFits(records, cmd) ==
    \E i \in Named(records, "intent", cmd.trace) : i.client = cmd.client /\ i.effect = cmd.effect

DecisionFits(records, cmd) ==
    cmd.decision # None =>
       \E d \in Named(records, "decision", cmd.decision) : d.trace = cmd.trace /\ d.client = cmd.client

Attempted(records, cmd) ==
    cmd.phase = "completed" =>
       \E a \in Of(records, "action") :
          a.action = cmd.action /\ a.trace = cmd.trace /\ a.phase = "attempted"

(***************************************************************************)
(* All of them together: what a record must find in place to be accepted.  *)
(***************************************************************************)
Acceptable(records, cmd) ==
    /\ Valid(cmd)
    /\ Fresh(records, cmd)
    /\ cmd.kind \in {"search", "decision"} => TraceKnown(records, cmd)
    /\ cmd.kind = "decision" => /\ SearchesFit(records, cmd)
                                /\ Unresolved(records, cmd)
                                /\ UsedWereReturned(records, cmd)
    /\ cmd.kind = "action" => /\ IntentFits(records, cmd)
                              /\ DecisionFits(records, cmd)
                              /\ Attempted(records, cmd)
=============================================================================
