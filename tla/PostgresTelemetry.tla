-------------------------- MODULE PostgresTelemetry --------------------------
(***************************************************************************)
(* postgres/telemetry.py, statement by statement, as several callers of    *)
(* the READ COMMITTED database run it: the checks read what is committed   *)
(* when they run, the inserts wait for an uncommitted row with their key,  *)
(* and an IntegrityError sends the call to look its id up again in a       *)
(* second transaction.                                                     *)
(*                                                                         *)
(* A call is at one of its checks (pc = how many have passed), at one of   *)
(* its inserts (its first "rows" keys are held), at the lookup, or done.   *)
(***************************************************************************)
EXTENDS TelemetryRules

CONSTANTS
    Callers,     \* concurrent requests
    MaxCalls,    \* bound: calls in a behaviour
    MaxLost      \* bound: transactions that fail or lose their answer

VARIABLES
    stored,      \* committed records
    call,        \* each caller's call
    calls,       \* calls begun
    lost         \* transactions lost

databaseVars == <<stored, call, calls, lost>>

NoCall == [state |-> "done", cmd |-> None, passed |-> 0, held |-> 0, answer |-> None]

(***************************************************************************)
(* The SELECTs of each kind of call, in the code's order.  A search has no *)
(* replay: its id is a new ULID.                                           *)
(***************************************************************************)
SearchChecks(cmd) == IF cmd.trace = None THEN <<>> ELSE <<"trace">>
IntentChecks(cmd) == <<"replay">>
DecisionChecks(cmd) ==
    IF cmd.trace = None THEN <<"replay", "searches", "links">>
                        ELSE <<"replay", "searches", "trace", "links">>
ActionChecks(cmd) ==
    CASE cmd.decision = None /\ cmd.phase # "completed" -> <<"replay", "intent">>
      [] cmd.decision = None /\ cmd.phase = "completed" -> <<"replay", "intent", "attempted">>
      [] cmd.decision # None /\ cmd.phase # "completed" -> <<"replay", "intent", "decision">>
      [] OTHER -> <<"replay", "intent", "decision", "attempted">>

Checks(cmd) == CASE cmd.kind = "search" -> SearchChecks(cmd)
                 [] cmd.kind = "intent" -> IntentChecks(cmd)
                 [] cmd.kind = "decision" -> DecisionChecks(cmd)
                 [] cmd.kind = "action" -> ActionChecks(cmd)

(***************************************************************************)
(* How a check ends the call, or None when the call goes on.               *)
(***************************************************************************)
ReplayVerdict(cmd) == CASE Fresh(stored, cmd) -> None
                        [] cmd \in stored -> "replayed"
                        [] OTHER -> "conflict"

RefusedUnless(fits) == IF fits THEN None ELSE "refused"

LinksVerdict(cmd) == IF Unresolved(stored, cmd) THEN RefusedUnless(UsedWereReturned(stored, cmd))
                                                ELSE "conflict"

Verdict(check, cmd) ==
    CASE check = "replay" -> ReplayVerdict(cmd)
      [] check = "trace" -> RefusedUnless(TraceKnown(stored, cmd))
      [] check = "searches" -> RefusedUnless(SearchesFit(stored, cmd))
      [] check = "links" -> LinksVerdict(cmd)
      [] check = "intent" -> RefusedUnless(IntentFits(stored, cmd))
      [] check = "decision" -> RefusedUnless(DecisionFits(stored, cmd))
      [] check = "attempted" -> RefusedUnless(Attempted(stored, cmd))

(***************************************************************************)
(* The primary keys a call inserts, in order: its event, then one link for *)
(* each search a decision resolves.                                        *)
(***************************************************************************)
LinkKeys(cmd) == IF cmd.kind = "decision"
                 THEN [i \in DOMAIN cmd.searches |-> <<"link", cmd.searches[i]>>]
                 ELSE <<>>
KeysOf(cmd) == <<<<cmd.kind, cmd.id>>>> \o LinkKeys(cmd)

\* Mutant of Taken: decision_search_links has no primary key on search_id.
TakenIdsOnly == {<<r.kind, r.id>> : r \in stored}

Taken == {<<r.kind, r.id>> : r \in stored} \cup {<<"link", s>> : s \in Resolved(stored)}
Held(c) == {KeysOf(call[c].cmd)[i] : i \in 1..call[c].held}

Inserting(c) == call[c].state = "inserts" /\ call[c].held < Len(KeysOf(call[c].cmd))
NextKey(c) == KeysOf(call[c].cmd)[call[c].held + 1]
WaitsFor(c, d) == Inserting(c) /\ NextKey(c) \in Held(d) /\ c # d

-----------------------------------------------------------------------------
Ended(c, answer) == [call EXCEPT ![c].state = "done", ![c].held = 0, ![c].answer = answer]

\* A tool call: an invalid command is answered before the store is asked.
Begin(c, cmd) ==
    /\ call[c].state = "done" /\ calls < MaxCalls
    /\ calls' = calls + 1
    /\ call' = [call EXCEPT ![c] =
                  IF Valid(cmd)
                  THEN [NoCall EXCEPT !.state = "checks", !.cmd = cmd]
                  ELSE [NoCall EXCEPT !.cmd = cmd, !.answer = "refused"]]
    /\ UNCHANGED <<stored, lost>>

\* One SELECT and what the code concludes from it.
Check(c) ==
    /\ call[c].state = "checks" /\ call[c].passed < Len(Checks(call[c].cmd))
    /\ LET verdict == Verdict(Checks(call[c].cmd)[call[c].passed + 1], call[c].cmd)
       IN call' = IF verdict = None THEN [call EXCEPT ![c].passed = @ + 1]
                                    ELSE Ended(c, verdict)
    /\ UNCHANGED <<stored, calls, lost>>

ChecksPassed(c) ==
    /\ call[c].state = "checks" /\ call[c].passed = Len(Checks(call[c].cmd))
    /\ call' = [call EXCEPT ![c].state = "inserts"]
    /\ UNCHANGED <<stored, calls, lost>>

\* An IntegrityError ends a search's telemetry; any other call looks its id up again.
Integrity(c) == IF call[c].cmd.kind = "search"
                THEN Ended(c, "unavailable")
                ELSE [call EXCEPT ![c].state = "lookup", ![c].held = 0]

\* An INSERT: it waits for an uncommitted row with its key, and fails on a committed one.
Insert(c) ==
    /\ Inserting(c)
    /\ \A d \in Callers : ~WaitsFor(c, d)
    /\ call' = IF NextKey(c) \in Taken THEN Integrity(c) ELSE [call EXCEPT ![c].held = @ + 1]
    /\ UNCHANGED <<stored, calls, lost>>

Commit(c) ==
    /\ call[c].state = "inserts" /\ ~Inserting(c)
    /\ stored' = stored \cup {call[c].cmd}
    /\ call' = Ended(c, "recorded")
    /\ UNCHANGED <<calls, lost>>

\* Mutant of Lookup: an IntegrityError is taken for a replay without looking.
LookupTrusting(c) ==
    /\ call[c].state = "lookup"
    /\ call' = Ended(c, "replayed")
    /\ UNCHANGED <<stored, calls, lost>>

\* The second transaction looks only for the call's own id.
Lookup(c) ==
    /\ call[c].state = "lookup"
    /\ call' = Ended(c, IF ReplayVerdict(call[c].cmd) = "replayed" THEN "replayed" ELSE "conflict")
    /\ UNCHANGED <<stored, calls, lost>>

\* PostgreSQL aborts a transaction that waits in a circle; the tool answers non_blocking.
DeadlockVictim(c) ==
    /\ \E circle \in SUBSET Callers :
          c \in circle /\ \A d \in circle : \E e \in circle : WaitsFor(d, e)
    /\ call' = Ended(c, "unavailable")
    /\ UNCHANGED <<stored, calls, lost>>

\* The connection fails: the transaction is rolled back, or committed with its answer lost.
LoseConnection(c) ==
    /\ lost < MaxLost /\ call[c].state # "done"
    /\ lost' = lost + 1
    /\ stored' \in {stored} \cup
          (IF call[c].state = "inserts" /\ ~Inserting(c) THEN {stored \cup {call[c].cmd}} ELSE {})
    /\ call' = Ended(c, "unavailable")
    /\ UNCHANGED calls

-----------------------------------------------------------------------------
DatabaseInit ==
    /\ stored = {}
    /\ call = [c \in Callers |-> NoCall]
    /\ calls = 0 /\ lost = 0

Proceed(c) == Check(c) \/ ChecksPassed(c) \/ Insert(c) \/ Commit(c) \/ Lookup(c) \/ DeadlockVictim(c)

DatabaseNext == \E c \in Callers :
    \/ \E cmd \in Commands : Begin(c, cmd)
    \/ Proceed(c)
    \/ LoseConnection(c)

DatabaseSpec == DatabaseInit /\ [][DatabaseNext]_databaseVars

-----------------------------------------------------------------------------
DatabaseContract == INSTANCE Telemetry WITH accepted <- stored

\* However the statements of concurrent calls interleave and whichever connections fail,
\* records are only added, each fitting those already there: the keys the calls insert
\* serialise what their checks, made earlier, could not.
DatabaseKeepsContract == [][DatabaseContract!ContractNext]_stored

\* A call that was told its record is kept finds it kept; one that was told of a
\* conflict has lost its id or a search to another record.
AnswersAreTrue ==
    \A c \in Callers :
       LET cmd == call[c].cmd IN
       /\ call[c].answer \in {"recorded", "replayed"} => cmd \in stored
       /\ call[c].answer = "conflict" =>
             \/ ~Fresh(stored, cmd)
             \/ cmd.kind = "decision" /\ ~Unresolved(stored, cmd)
=============================================================================
