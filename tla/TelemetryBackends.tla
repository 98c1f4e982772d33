-------------------------- MODULE TelemetryBackends --------------------------
(***************************************************************************)
(* The telemetry as composition.py puts it together: the PostgreSQL tables *)
(* or the JSONL file, by settings.storage_backend; and, apart from either, *)
(* the dashboard reading a listing while the contract is being used.       *)
(***************************************************************************)
EXTENDS PostgresTelemetry, UsageLog, UsageReading

VARIABLE part      \* "postgres", "git" or "dashboard"

vars == <<part, databaseVars, fileVars, readingVars>>

Init ==
    /\ part \in {"postgres", "git", "dashboard"}
    /\ DatabaseInit /\ FileInit /\ ReadingInit
    /\ part # "dashboard" => listed = {}

OfPostgres(step) == part = "postgres" /\ step /\ UNCHANGED <<part, fileVars, readingVars>>
OfFile(step) == part = "git" /\ step /\ UNCHANGED <<part, databaseVars, readingVars>>
OfReading(step) == part = "dashboard" /\ step /\ UNCHANGED <<part, databaseVars, fileVars>>

Next == OfPostgres(DatabaseNext) \/ OfFile(FileNext) \/ OfReading(ReadingNext)

\* Time passes and timer threads run.
Spec ==
    /\ Init /\ [][Next]_vars
    /\ WF_vars(OfFile(Tick))
    /\ WF_vars(OfFile(TimerFires))
    /\ WF_vars(OfFile(RunRedaction))

-----------------------------------------------------------------------------
\* What the chosen backend lets the next call and the dashboard see.
Records == CASE part = "postgres" -> stored [] part = "git" -> Readable [] OTHER -> accepted

\* Both backends implement the contract of telemetry.py.
ContractKept == DatabaseKeepsContract /\ FileKeepsContract

\* The metrics count exactly the decisions the store accepted: what it checked on the way
\* in (record_decision) is all that _validated_decisions checks on the way out, whichever
\* order equal timestamps leave the listing in.
CountedAsRecorded ==
    \A order \in Orders(Records) : Validated(Records, order) = Of(Records, "decision")
=============================================================================
