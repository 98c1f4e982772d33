---------------------------- MODULE UsageReading ----------------------------
(***************************************************************************)
(* list_usage of the PostgreSQL backend: four SELECTs in one READ          *)
(* COMMITTED transaction, each seeing what other callers committed before  *)
(* it, and the dashboard built on the result.  The writers are the         *)
(* contract (Telemetry), which the store's calls implement.                *)
(***************************************************************************)
EXTENDS Telemetry, UsageMetrics

\* Records nobody validated that a listing may hold: hand-edited or legacy ones.
CONSTANT Edited

ASSUME EditedAssumption == IsFiniteSet(Edited)

VARIABLES listed, statements   \* what the listing holds so far, the SELECTs done

readingVars == <<accepted, listed, statements>>

\* Mutant of Tables: the intents are selected first.
TablesIntentsFirst == <<"intent", "search", "decision", "action">>

Tables == <<"search", "decision", "intent", "action">>

Complete == statements = Len(Tables)

Select ==
    /\ ~Complete
    /\ listed' = listed \cup Of(accepted, Tables[statements + 1])
    /\ statements' = statements + 1
    /\ UNCHANGED accepted

ListAgain == Complete /\ listed' \in SUBSET Edited /\ statements' = 0 /\ UNCHANGED accepted

ReadingInit == ContractInit /\ listed \in SUBSET Edited /\ statements = 0

ReadingNext == (ContractNext /\ UNCHANGED <<listed, statements>>) \/ Select \/ ListAgain

ReadingSpec == ReadingInit /\ [][ReadingNext]_readingVars

-----------------------------------------------------------------------------
\* A complete listing shows no search or decision without its intent and no completion
\* without its attempt, whatever was committed between its statements.
ListedIsClosed ==
    Complete => \A r \in listed \ Edited :
       /\ r.kind \in {"search", "decision"} => TraceKnown(listed, r)
       /\ r.kind = "action" => Attempted(listed, r)

\* No rate of the dashboard exceeds one: a fact is counted as used in at most the
\* searches that returned it, though records were edited by hand or read half way.
RatesAreRates ==
    \A order \in Orders(listed), s \in HitSearches(listed) : \A fact \in s.facts :
       UsedDecisions(listed, order, fact) <= ReturnedSearches(listed, fact)
=============================================================================
