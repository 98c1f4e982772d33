---------------------------- MODULE UsageMetrics ----------------------------
(***************************************************************************)
(* metrics.py: how the dashboard reads a listing of the telemetry.  It     *)
(* does not trust the store: decisions are validated again, in the order   *)
(* of the listing, and one that breaks the contract is not counted.        *)
(***************************************************************************)
EXTENDS TelemetryRules, Functions

\* _contribution_stats counts on searches that answered and returned something.
HitSearches(usage) == {s \in Of(usage, "search") : s.facts # {}}

ReturnedBy(usage, ids) == UNION {s.facts : s \in {h \in HitSearches(usage) : h.id \in ids}}

\* Mutant of Counts: a search resolved by a decision counted before is resolved again.
CountsAgain(usage, counted, d) ==
    /\ ValidDecision(d)
    /\ \A id \in SearchIds(d) : \E s \in HitSearches(usage) : s.id = id /\ s.client = d.client
    /\ d.used \subseteq ReturnedBy(usage, SearchIds(d))

\* The effects and the lists a decision may have are those of its validator.
Counts(usage, counted, d) ==
    /\ ValidDecision(d)
    /\ \A id \in SearchIds(d) :
          /\ \E s \in HitSearches(usage) : s.id = id /\ s.client = d.client
          /\ id \notin Resolved(counted)
    /\ d.used \subseteq ReturnedBy(usage, SearchIds(d))

\* The orders a listing may have its decisions in: by time, equal times as it happens.
Orders(usage) ==
    LET decisions == Of(usage, "decision")
    IN Injection(decisions, 1..Cardinality(decisions))

\* _decisions: the first record of each decision_id.
Decisions(usage, order) ==
    {d \in Of(usage, "decision") :
        \A e \in Of(usage, "decision") : e.id = d.id => order[d] <= order[e]}

\* _validated_decisions: in the order of the listing, each against those counted before it.
Passes(usage, order, counted) ==
    \A d \in Decisions(usage, order) :
        d \in counted <=> Counts(usage, {e \in counted : order[e] < order[d]}, d)

Validated(usage, order) ==
    CHOOSE counted \in SUBSET Decisions(usage, order) : Passes(usage, order, counted)

\* The rows of the contribution table: searches that returned a fact, decisions that used it.
ReturnedSearches(usage, fact) == Cardinality({s \in HitSearches(usage) : fact \in s.facts})
UsedDecisions(usage, order, fact) ==
    Cardinality({d \in Validated(usage, order) : fact \in d.used})
=============================================================================
