------------------------------ MODULE UsageLog ------------------------------
(***************************************************************************)
(* usage_log.py: the Git backend's telemetry, a private JSONL file whose   *)
(* plaintext previews a timer thread deletes when their retention is over. *)
(*                                                                         *)
(* The tool handlers do not await, so a call is one action; the timer      *)
(* thread shares the lock with them.  A line is unreadable ("whole" is     *)
(* false) when json.loads refuses what str.splitlines makes of it: the     *)
(* write was short, the line was appended to a cut one, or its preview     *)
(* holds a character that splitlines breaks at and json.dumps leaves alone *)
(* (U+0085, U+2028, U+2029: cmd.text = "odd", else "none" or "plain").     *)
(***************************************************************************)
EXTENDS TelemetryRules, FiniteSetsExt

CONSTANTS
    Retention,   \* raw_query_retention_days
    MaxClock,    \* bound: the last instant
    MaxLines,    \* bound: lines in the file
    MaxFaults    \* bound: short or failed writes and failed rewrites

ASSUME RetentionAssumption == Retention \in Nat

VARIABLES
    lines,       \* [rec, at, raw, whole]: the file's records, raw while the preview is there
    cut,         \* the last line has no newline
    garbled,     \* a character was cut in two: the file is no UTF-8
    up,          \* the process runs and is not closed
    timer,       \* _next_redaction_at of the timer _redaction_timer refers to, or None
    ticking,     \* when the timers that are running will fire
    waiting,     \* timer threads that have fired and want the lock
    missed,      \* the last redaction failed
    clock, faults

file == <<lines, cut, garbled>>
timers == <<timer, ticking, waiting>>
fileVars == <<file, up, timers, missed, clock, faults>>

\* read_usage: what the other calls see of the file.
Readable == IF garbled THEN {} ELSE {l.rec : l \in {m \in lines : m.whole}}

-----------------------------------------------------------------------------
(* The timer: _schedule_redaction keeps an earlier one. *)

Schedule(due, current, running) ==
    IF due = None \/ (current # None /\ current <= due)
    THEN timer' = current /\ ticking' = running
    ELSE timer' = due /\ ticking' = (running \ {current}) \cup {due}

Expiry(line) == line.at + Retention

\* _redact_expired_queries, when it can read the file and rewrite it.
Expired == {l \in lines : l.whole /\ l.raw /\ Expiry(l) < clock}
Redacted == (lines \ Expired) \cup {[l EXCEPT !.raw = FALSE] : l \in Expired}
NextRedaction == LET pending == {l \in lines : l.whole /\ l.raw} \ Expired
                 IN IF pending = {} THEN None ELSE Min({Expiry(l) : l \in pending})

RedactAndSchedule(current) ==
    /\ IF garbled
       THEN Schedule(None, current, ticking) /\ UNCHANGED lines
       ELSE Schedule(NextRedaction, current, ticking) /\ lines' = Redacted
    /\ cut' = (cut /\ (garbled \/ Expired = {}))
    /\ missed' = FALSE
    /\ UNCHANGED <<garbled, faults>>

\* The file cannot be read or the rewritten one cannot be written: nothing is scheduled.
RedactionFails ==
    /\ faults < MaxFaults /\ lines # {}
    /\ faults' = faults + 1
    /\ missed' = TRUE
    /\ UNCHANGED file

-----------------------------------------------------------------------------
(* Appending a record: whole, short (os.write's count is not looked at), or not at all. *)

Preview(cmd) == cmd.text # "none" /\ Retention > 0

Written(cmd) ==
    /\ lines' = lines \cup {[rec |-> cmd, at |-> clock, raw |-> Preview(cmd),
                             whole |-> ~cut /\ (Preview(cmd) => cmd.text # "odd")]}
    /\ cut' = FALSE
    /\ UNCHANGED <<garbled, faults>>

WrittenShort(cmd) ==
    /\ faults < MaxFaults
    /\ faults' = faults + 1
    /\ lines' = lines \cup {[rec |-> cmd, at |-> clock, raw |-> Preview(cmd), whole |-> FALSE]}
    /\ cut' = TRUE
    /\ garbled' \in {garbled, TRUE}

AppendLine(cmd) ==
    /\ up /\ Cardinality(lines) < MaxLines /\ clock + Retention < MaxClock
    /\ Written(cmd) \/ WrittenShort(cmd)
    /\ Schedule(IF Preview(cmd) THEN clock + Retention ELSE None, timer, ticking)
    /\ UNCHANGED <<up, waiting, missed, clock>>

RecordSearch(cmd) == cmd.kind = "search" /\ TraceKnown(Readable, cmd) /\ AppendLine(cmd)

RecordIntent(cmd) == cmd.kind = "intent" /\ Valid(cmd) /\ Fresh(Readable, cmd) /\ AppendLine(cmd)

\* Mutant of RecordDecision: the resolved searches are not looked up.
RecordDecisionTwice(cmd) ==
    /\ cmd.kind = "decision" /\ Valid(cmd)
    /\ Fresh(Readable, cmd) /\ SearchesFit(Readable, cmd) /\ UsedWereReturned(Readable, cmd)
    /\ AppendLine(cmd)

RecordDecision(cmd) ==
    /\ cmd.kind = "decision" /\ Valid(cmd)
    /\ Fresh(Readable, cmd)
    /\ SearchesFit(Readable, cmd)
    /\ TraceKnown(Readable, cmd)
    /\ Unresolved(Readable, cmd)
    /\ UsedWereReturned(Readable, cmd)
    /\ AppendLine(cmd)

RecordAction(cmd) ==
    /\ cmd.kind = "action" /\ Valid(cmd)
    /\ Fresh(Readable, cmd)
    /\ IntentFits(Readable, cmd)
    /\ DecisionFits(Readable, cmd)
    /\ Attempted(Readable, cmd)
    /\ AppendLine(cmd)

\* A search gets a new id (a ULID).
Record(cmd) ==
    \/ (\A l \in lines : l.rec.kind = "search" => l.rec.id # cmd.id) /\ RecordSearch(cmd)
    \/ RecordIntent(cmd) \/ RecordDecision(cmd) \/ RecordAction(cmd)

\* list_usage, for the dashboard.
ListUsage ==
    /\ up
    /\ \/ RedactAndSchedule(timer)
       \/ RedactionFails /\ UNCHANGED <<timer, ticking>>
    /\ UNCHANGED <<up, waiting, clock>>

TimerFires ==
    /\ \E due \in ticking : due <= clock /\ ticking' = ticking \ {due}
    /\ waiting' = waiting + 1
    /\ UNCHANGED <<file, up, timer, missed, clock, faults>>

\* Mutant of RunRedaction: the timer that has fired is not forgotten.
RunRedactionKeeping ==
    /\ waiting > 0
    /\ waiting' = waiting - 1
    /\ RedactAndSchedule(timer)
    /\ UNCHANGED <<up, clock>>

\* _run_redaction, once its thread has the lock.
RunRedaction ==
    /\ waiting > 0
    /\ waiting' = waiting - 1
    /\ \/ RedactAndSchedule(None)
       \/ RedactionFails /\ timer' = None /\ UNCHANGED ticking
    /\ UNCHANGED <<up, clock>>

-----------------------------------------------------------------------------
\* close(), or the process dies; its timers go with it.
Stop ==
    /\ up
    /\ up' = FALSE
    /\ timer' = None /\ ticking' = {} /\ waiting' = 0
    /\ UNCHANGED <<file, missed, clock, faults>>

\* Mutant of Start: previews left by the last process are not looked for.
StartBare ==
    /\ ~up
    /\ up' = TRUE
    /\ missed' = FALSE
    /\ UNCHANGED <<file, timers, clock, faults>>

\* __init__ redacts before it serves; a rewrite that fails ends the start.
Start ==
    /\ ~up
    /\ up' = TRUE
    /\ RedactAndSchedule(None)
    /\ UNCHANGED <<waiting, clock>>

Tick == clock < MaxClock /\ clock' = clock + 1 /\ UNCHANGED <<file, up, timers, missed, faults>>

FileInit ==
    /\ lines = {} /\ cut = FALSE /\ garbled = FALSE
    /\ up = TRUE
    /\ timer = None /\ ticking = {} /\ waiting = 0
    /\ missed = FALSE /\ clock = 0 /\ faults = 0

FileNext == (\E cmd \in Commands : Record(cmd)) \/ ListUsage \/ TimerFires \/ RunRedaction
            \/ Stop \/ Start \/ Tick

FileSpec == FileInit /\ [][FileNext]_fileVars

-----------------------------------------------------------------------------
FileContract == INSTANCE Telemetry WITH accepted <- Readable

\* What the calls read of the file only grows, each record fitting those before it.  A file
\* that a short write has left undecodable is empty to the calls, and out of the promise.
FileKeepsContract == [][garbled \/ garbled' \/ FileContract!ContractNext]_Readable

Covered == up /\ ~missed /\ ~garbled

\* While previews are kept, a timer is due or running that will come for each of them.
RawIsScheduled ==
    Covered => \A l \in lines : l.whole /\ l.raw =>
                  waiting > 0 \/ \E due \in ticking : due <= Expiry(l)

\* A preview is deleted when its retention is over, without anybody asking for the log.
RawIsRedacted ==
    \A cmd \in Commands :
       (\E l \in lines : l.rec = cmd /\ l.whole /\ l.raw)
          ~> ~Covered \/ (\A l \in lines : l.rec = cmd /\ l.whole => ~l.raw)

\* README.md:172 and docs/OPERATIONS.md:78 say of every preview that it is deleted when its
\* retention is over; one whose line cannot be parsed is not.
PreviewExpires ==
    \A cmd \in Commands :
       (\E l \in lines : l.rec = cmd /\ l.raw) ~> ~up \/ (\A l \in lines : l.rec = cmd => ~l.raw)
=============================================================================
