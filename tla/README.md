# TLA+ specifications of plk-memory

plk-memory stores small reviewed facts for AI agents, serves them over MCP and
HTTP, and keeps a derived search index in a graph. This directory models the
parts of it whose correctness depends on the order of events: concurrent
transactions, the outbox and its workers, crashes and retries.

Check a run with `tlc -config <run>.cfg <MC module>`, a proof module with
`tlapm <module>.tla`.

## 1. The system

Two storage backends stand behind one facade (`composition.py`):

| Part | State it keeps | Operations |
|---|---|---|
| PostgreSQL fact repository (`postgres/repository.py`, `write_ops.py`) | heads, immutable revisions, supersedes relations, idempotency records, outbox events | create (with supersedes), invalidate, history, get |
| PostgreSQL approvals (`postgres/approvals.py`) | promotion requests and decisions | propose, decide |
| Outbox (`postgres/outbox.py`) | one event per revision: lease, token, attempts, processed / dead-lettered | claim, ack, renew, fail |
| Index worker (`postgres/worker.py`, `index_worker.py`) | the claim and reads it holds in memory | run_once, heartbeat, project |
| Projection state (`postgres/outbox.py`) | indexed revision and episodes per fact | get, put_if_newer |
| Graph index (`graphindex.py`, `postgres/graph_adapter.py`) | episodes | upsert (create, then delete the old ones), delete, search, clear |
| PostgreSQL facade (`postgres/application.py`) | none | read-then-write of revisions, composed answers |
| PostgreSQL telemetry (`postgres/telemetry.py`, `telemetry.py`) | search, decision, intent and action events, links from searches to the decision that resolved them | record_* with replay or conflict, list_usage |
| Git writer (`gitstore.py`, `facts.py`) | a clone, its HEAD, the remote | add, invalidate, fetch, commit, rebase, push |
| Git sync (`sync.py`, `state.py`) | a state file: last commit, entries, dead letters | sync, reindex |
| Feedback (`feedback.py`, `git_services.py`) | a request file, a model subprocess | submit, run, apply, reject, resume |
| Git promotion (`promotions.py`, `github_promotion.py`) | a record file, branches and pull requests | propose, poll |
| Usage log (`usage_log.py`, `usage_records.py`) | a JSONL file with plaintext previews, a redaction timer | record_*, list_usage, redaction, close |
| Surfaces (`mcp_tools.py`, `webui.py`, `auth.py`) | none | routing, tokens, rendering |
| Analysis (`metrics.py`, `workflow_evaluation.py`) | none | aggregation of a telemetry listing |

How they interact on the PostgreSQL side: a facade call opens one transaction,
which writes revision, head, relations, idempotency record and outbox event
together. A worker process, with no lock in common with the writers, leases
events one at a time, reads the head, updates the graph, records what it
indexed, and acknowledges. Search reads the projection state and the graph and
then the heads again.

What is hard in it: transactions under READ COMMITTED that lock several rows;
requests retried after a lost answer; revisions read in one transaction and
relied on in another; a projection of five awaits that is fenced in the
database but not in the graph; leases that lapse under a live worker; crashes
between any two of those.

On the Git side one process owns a clone. Writes, syncs and locked reads queue
for one asyncio lock; the git commands under it run in threads, beside other
people's pushes to the same remote. The sync engine brings the graph to the
clone's HEAD and remembers in a state file how far it got; feedback requests
live in another file, and their application is a commit. What is hard there: a
crash between commit and push, or between a side effect and the file that
remembers it; a push whose answer is lost; a rebase over somebody else's edit; a
cancelled call whose thread goes on. Promotion adds a second file of records,
which must follow pull requests that people decide elsewhere.

Both backends keep telemetry with one contract: an operation declares its
intent, searches, decides on the searches' facts, attempts and completes an
action, and each record may only name records that are there. The PostgreSQL
backend checks this with SELECTs whose results other transactions may overtake
before the INSERT; the Git backend with a lock and a file that a short write can
tear and a timer thread rewrites. The dashboard trusts neither and validates
again. `PROJECT.json` lists each hazard at its line.

## 2. The modules

| Module | Models | Composes |
|---|---|---|
| `FactLedger` | what the PostgreSQL store means: requests served one at a time | |
| `FactStore` | the transactions that implement it: keys, locks, aborts, retries | extends `FactLedger`, refines its `LedgerSpec` |
| `HistoryReading` | tool_history, ui_fact_detail and tool_search, statement by statement | extends `FactLedger` (its writers) |
| `IndexPromise` | what the index owes the store | |
| `IndexProjection` | outbox, workers, projection state and graph | refines `IndexPromise` |
| `GitWriter` | the clone and the remote under add, invalidate, sync and locked reads, one action per git command | |
| `GitSync` | sync, reindex, the state file and the graph | |
| `Feedback` | the requests, their tasks and handlers | extends `GitWriter` (its writes are calls of it) |
| `GitPromotion` | promotion records, pull requests, the poll | |
| `TelemetryRules` | what a telemetry record must find in place | |
| `Telemetry` | the contract: records are added one at a time, each fitting | extends `TelemetryRules` |
| `PostgresTelemetry` | the transactions of `postgres/telemetry.py` | extends `Telemetry` and refines it |
| `UsageLog` | the JSONL file and its redaction timer | extends `Telemetry` and refines it |
| `UsageMetrics` | how `metrics.py` validates and counts decisions | |
| `UsageReading` | list_usage and the dashboard while the contract is in use | extends `Telemetry` (its writers), `UsageMetrics` |
| `TelemetryBackends` | the choice of backend in `composition.py` | extends the last four: one of the parts moves |
| `FactLedgerProofs`, `FactStoreProofs`, `IndexProjectionProofs`, `HistoryReadingProofs`, `GitWriterProofs` (with `Feedback`), `GitSyncProofs`, `GitPromotionProofs`, `TelemetryProofs` | theorems | |
| `MC*` | instances for TLC | |

### FactLedger and FactStore

A *request* carries an idempotency key and what it asks for. Fact ids are the
hash of the key (`application.py`, `_fact_id`), so a fact and the request that
creates it share one name, `Key`; a promotion request is likewise named by the
key of the call that proposed it. Keys are numbers because the locks are taken
in the order of the ids.

`head`, `revisions`, `successor`, `promotion` and `served` are the tables
`knowledge_facts`, `knowledge_fact_revisions` (with its outbox event, written
by the same statement group), `knowledge_relations`, `approval_requests` and
`idempotency_records`. `Perform` is one operation after its locks: the checks
in `Accepts`, the writes in `Create`, `Invalidate`, `Propose`, `Decide`. Space
`"domain"` is `plk.domain.*`; `"shared"` stands for every other namespace,
none of which can be promoted. Only the revision a decide expects is part of
its hash; a create or invalidate repeated with another expected revision is a
replay, as in the code, so that expectation (`e`) is not part of the request.

`LedgerNext` serves one whole request at a time. `FactStore` splits a request
into the steps a transaction really takes: `Begin` (the facade reads the
revision it will expect; any earlier revision may be named by the caller),
`InsertKey` (waits for a transaction that inserted the same key; a key served
before ends the call with a replay or a conflict), `LockRow`, `LockHead` (in id
order, reading the row as it is when the lock is granted), `Commit`, `Reject`,
`Abort`. A rejected request rolls back with its key, so its retry is executed
anew; a decide that finds its promotion outdated commits it as stale. The
unique indexes and foreign keys are not modelled: they are a second guard
behind the locks, and the properties hold without them.

### HistoryReading

One reader, the ledger's writers. `HistoryCall` and `DetailCall` are the
statements of the two answers in the order the code runs them, each seeing the
commits before it. A search asks the derived index, of which nothing is assumed
but that it names facts it has once seen, in whatever revision (`Search`); what
the hits say comes from one statement over all candidates, and the filters run
on that (`Rehydrate`, `Visible`). Ranking and limits only choose a subset.

### IndexProjection

`outbox[f][v]` is the event of revision `v`. The holder of a lease stands for
owner and token together: a worker has at most one claim (`outbox_batch_size`
is pinned to 1) and a new process has none. Time is not counted; `available`
and `live` say whether `available_at` and `lease_until` have passed, and
passing is a step of its own. A worker's stages are the awaits of `_project`:

    claimed -> read -> [create] -> delete -> put -> ack

with `ReadHead`, `ReadState` (and the early return), `CreateEpisode`,
`DeleteOld`, `PutIfNewer`, `Ack`; from any of them an exception leads to
`Fail`. An exception may come before or after the call took effect, so a lost
answer is the effect followed by `Raise`. `Renew` is the heartbeat; the
heartbeat that finds its lease gone cancels the projection, which is `Raise`
too. An episode's uuid is derived from organisation, fact and revision, so
creating it again changes nothing and the graph is a set of revisions. In
triplet mode a revision has one edge per tag; they are treated as one.

`IndexPromise` is the abstract view: each revision owes the index one wake-up;
the index moves forward only; a wake-up is discharged once, as *indexed* only
if the index holds that revision or a later one.

### GitWriter

A branch is the sequence of its commits and a commit the function from the
paths it changes to what it leaves there, so common prefixes are common
history and `TreeOf` is a checkout. `remote`, `tracking` (origin/main as last
fetched), `local` (HEAD), `index` and `tree` are the places git keeps a file
in. A content is a status and its author: 0 for the first commit, a call, or a
negative number for somebody else.

A call goes through `Acquire`, `Fetch`, `Forward` (`fetch_and_ff`), `Check`,
`WriteFile` per file, and then the thread of `_commit_and_push_sync`: `Add`,
`CommitStaged`, `Push`, and `Refetch` and `Rebase` for up to three tries.
`Undo` and `Drop` are the resets. `Then` moves a thread on, `Return` hands back
to the call, `Finish` leaves the lock. `WriteFile` starts in the event loop,
the rest in threads: `Cancel` frees the lock and lets the thread go on.
`CanMoveTo`, `ResetHard`, `RebaseStarts` and `Mergeable` say what git does with
uncommitted and untracked files and with a file both sides changed; they are
the external part. A file both changed may be merged or may conflict, because
git compares lines; two new files of one name, or two invalidations, conflict.

Every git command is atomic, so a crash inside one (and the index.lock it
leaves) is not modelled; neither are files deleted by others, `ensure_repo` and
the process lock. The many checks of `add` before it writes are one:
`Acceptable`.

### GitSync

HEAD is a history of trees; `saved` the state file; `graph` the episodes.
`Start` computes what to do (everything, or the difference from the last
ingested commit, and the dead letters); `Remove` deletes what is gone; for each
path in order `Create` makes the new episode, `Replace` deletes the old one and
updates the state in memory, `Fails` makes it a dead letter, `Skip` passes over
a file that holds no fact; `Save` replaces the state file. Commits come between
syncs only, because a sync holds the write lock (`Commit` may come while a
reindex clears the graph, which does not). A commit leaves something new at a
path, or puts back what an earlier one had there (`Restore`). A fact file may
hold no id, an id that is no string, or no YAML at all.

### Feedback

`Submit`, `Run`, `Answered`, `Reject`, `Apply`, `Settle` are the handlers and
the two halves of a task, each the code between two awaits that can give
control away: `claim_apply`, the unlocked reads of the clone and the wait for
the write lock are one step. `Apply` begins a `GitWriter` call that expects the
content the request was made for; the marker of the commit message is the set
`attempts` of the request's calls. `Restart` is `GitWriter`'s crash followed by
`resume_pending`, which runs before any request is served.

### GitPromotion

A step is the code between two awaits. `Propose` reads the fact from the
working tree and goes to wait for `rev-list`; `Request` is the check for
duplicates and the record, which the code keeps free of awaits; `BuildBranch`,
`CreatePR` and `Number` the three stages of the pull request, `RollBack` the
exception handler, and `Cancel` the cancellation it does not catch. `PollRound`,
`Ask`, `Follow`, `EndRound` are one round of the poll, whose list is made once
and may be stale by the time a request is asked about. `main` and `clone` say of
each fact where it lies and whether it is active: a merge moves it on `main`, a
sync brings the clone there. GitHub is the external part: one open pull request
a branch, and a merge of a branch whose fact has moved is refused. Slack's
backend, a stub in the code, is the `APPROVED` state.

### Telemetry

A record stands for itself, so equality is the equality of request hash and
client. `TelemetryRules` holds one predicate for each check the code makes
(`TraceKnown`, `SearchesFit`, `Unresolved`, `UsedWereReturned`, `IntentFits`,
`DecisionFits`, `Attempted`) and `Acceptable`, all of them together. `Telemetry`
is the contract: `Accept` adds one acceptable record.

`PostgresTelemetry` runs the same checks one SELECT at a time (`Checks` lists
them in the code's order for each kind of call; `Verdict` says how one ends the
call), then inserts the event and, for a decision, one link for each search. Of
the database it models what READ COMMITTED and unique indexes promise: a check
sees what is committed; an insert waits for an uncommitted row with its key
(`WaitsFor`) and fails on a committed one; a circle of waits ends with a victim
(`DeadlockVictim`); a lost connection rolls back, or commits unheard
(`LoseConnection`). An IntegrityError sends a call to `Lookup` its own id in a
second transaction. Search telemetry has no replay, and its failure is
swallowed.

`UsageLog` has one action for a call (the handlers do not await) and separate
ones for the timer thread, which fires (`TimerFires`) and then waits for the
lock (`RunRedaction`). A line is `whole` when `json.loads` accepts what
`str.splitlines` makes of it: not after a short `os.write` (`WrittenShort`), not
when it was appended to a torn line (`cut`), and not when its preview holds one
of the three characters that `splitlines` breaks at and `json.dumps` leaves
alone. `Readable` is what the calls read back; a character cut in two makes the
whole file unreadable (`garbled`), to the calls and to the redaction. `timer` is
the field `_redaction_timer`, `ticking` the timers really running: the two part
when a timer has fired and not yet taken the lock.

`UsageReading` lets the contract go on while list_usage runs its four
statements, and adds hand-edited decisions (`Edited`) to the listing.
`UsageMetrics` is `_contribution_stats` with `_validated_decisions`. A pass is
given by its result: a set of decisions is what the loop returns when each
decision is in it exactly if it fits those of the set that come before it
(`Passes`). The properties are stated for every order of the decisions, since
`records.sort(key=ts)` leaves records of one timestamp as they come. Effects and
reasons, texts and hashes, latencies and time windows are left out.

## 3. The runs

| Run | Instance | Question |
|---|---|---|
| `projection` | 1 fact, 3 revisions, 2 workers, 2 attempts, 1 fault | no revision is lost, served wrongly or settled twice; refinement of `IndexPromise`; every event is settled in the end |
| `projection_attempts` | 1 attempt, 1 fault | violated: see findings |
| `store` | 2 callers, 11 requests over 10 keys | concurrent callers behave like one, and every call ends |
| `history` | 6 requests, 1 reader, any stale index | composed answers and hits are consistent |
| `git_safety` | 2 calls, 2 files, eight combinations of events | what is acknowledged is on main, once and whole; failures leave the clone clean |
| `git_rewritten`, `git_cancel` | the same with one crash, one cancellation | violated: see findings |
| `sync` | 2 facts, 2 paths, 3 commits, 1 crash, 1 fault; or 2 commits, 1 crash, 1 reindex; or 2 commits and one that restores a file, with 1 crash or 1 reindex | the index comes to match HEAD |
| `feedback` | 1 fact, 2 requests, 2 writes; one outside edit, or two lost answers, or a crash and a lost answer | a proposal is made, and applied at most once |
| `promotion` | 1 fact, 2 concurrent proposals, 3 requests in all, 2 faults | one pending record a fact, none without a pull request and a call at work on it, and the reviewers' decision reaches it |
| `telemetry` | 1 trace of 8 records; 2 callers, 7 calls, 1 lost transaction; a file of 6 lines, 1 fault, 4 instants; 2 edited records | both backends keep the contract, answers are true, previews expire, listings are closed, no rate exceeds one |
| `usage_raw` | a file of 3 lines, no fault | violated: see findings |

What the properties say of the parts modelled last:

* `ContractKept` is a refinement, for both backends: whatever interleaves,
  fails or is torn, each step of what the calls can read is a step of
  `Telemetry`. In PostgreSQL the unique keys (`Taken`, above all the primary key
  of `decision_search_links` on the search alone) serialise what the checks,
  made earlier, could not. The JSONL backend keeps it up to the short write that
  makes the file undecodable, from which the calls read an empty log.
* `AnswersAreTrue` covers the retry that overtakes its own first attempt. A
  repeated decision whose first attempt commits between its replay check and its
  link check is told of a *conflict* (with itself) though it is recorded; the
  property allows this, because it is what the code does and the message is
  true of the searches: they are resolved.
* `CountedAsRecorded` ties three parts together: what `metrics.py` counts is
  exactly what either store accepted.
* `ListedIsClosed` rests on the order of list_usage's statements: a record is
  listed before what it rests on is selected.
* `RawIsScheduled` and `RawIsRedacted` are stated while the process runs and its
  last redaction did not fail; a failed rewrite leaves no timer until the next
  listing or restart, which `missed` makes visible.
* `UnnumberedIsUnderway` excuses the calls that were cancelled or died: their
  record stays, refuses every further proposal and is polled by nobody. The code
  knows this state (`git_services.py:637`) and removes it for exceptions only.
* `HitsFitTogether` is why tool_search reads all candidates in one statement.

Bounds, and why they are enough to meet the interesting cases:

* Three revisions are not a bound but all there are: a fact is created,
  promoted at most once (only `plk.domain.*` can be, and it becomes
  `plk.shared`) and invalidated at most once. `TypeOK` checks it and a theorem
  proves it. `IndexProjection` assumes it of its writers.
* One fact: facts share nothing in the outbox (the NOT EXISTS and the
  projection state are per fact). The proofs cover any number.
* Two workers and a fault: a stale worker and its successor. A fault is a crash,
  a stall past the lease, or a fail() that is lost. Exceptions are not counted
  as faults and may come anywhere. The safety properties are proved for any
  number of either.
* The eleven requests: four creates, two superseding the same two facts, an
  invalidation and a decision sharing a key, two proposals for one fact,
  decisions with both verdicts and one for another revision. Two callers meet
  every race of two; circles of more are excluded by a theorem.
* Two calls in the clone are the least that can disturb each other, and all
  that can at once, since the lock admits one more than the cancelled ones. The
  events (outside pushes, forced pushes, crashes, lost answers, cancellations,
  write errors) are bounded by `Budgets`, a set of combinations: each
  event alone and the pairs that meet in one write (a push or a lost answer or
  a full disk with a crash, a push with a lost answer, a rewrite or a
  cancellation), and four lost answers, which exhaust the three tries.
* Two paths and two facts let a fact move, take another's place, and fail while
  the other succeeds; three commits are an add, a change and a repair.
* Three promotion requests: two that race and one after a rollback or a
  rejection; two faults, so that one may hit the proposal and one the poll.
* The eight telemetry records are the shortest chain with every rule in it: an
  intent and another payload under its id, two searches, two decisions that
  resolve both in opposite orders (a conflict and a deadlock), an attempt and its
  completion. Seven calls record the chain with one left for a retry; the file
  holds all that fit together. The instants are before, at and after the end of
  a retention, and one more for a second timer.

Deadlock checking is off where the system may really come to rest: in the
projection every fact may be invalidated and every event settled; on the Git
side and in the telemetry calls, commits, lines and faults are bounded, and a first sync over an unparsable
file raises each time.

Fairness. `IndexProjection`: a running worker's awaits return or raise, polling
goes on (`run_forever`) and clocks move. Nothing forces writers, renewals,
exceptions or faults. `FactStore`: strong fairness of each caller's next step,
because PostgreSQL queues the waiters of a lock and grants it in turn; nothing
forces an aborted caller to come back. `GitSync`: the periodic task
(`app.py:81`) syncs again whatever a sync raised, and a sync that is not
stopped runs on. `Feedback`: tasks run, and a runner ends by its timeout; no
person is forced to apply or reject anything. `GitPromotion`: the poll task goes
on (`app.py:91`); neither callers nor reviewers are forced. `UsageLog`: the clock
moves and a started timer thread runs.

## 4. What is proved

`tlapm` checks these for every number of facts, keys, callers, workers,
attempts and faults, from the assumptions named in the modules
(`ConstantsAssumption`, `LedgerAssumption`, `StoreAssumption`, `NoneAssumption`,
`CommandsAssumption`, `RetentionAssumption`, `GitAssumption`, `SyncAssumption`,
`FeedbackAssumption`, `EditedAssumption`). For `GitWriter` and what follows it:
any calls, facts, branches, pushes by others, lost answers, crashes and bounds on them.

* **IndexProjection** (`Inductive` and what follows from it). The invariant
  `IInv` adds to the properties what makes them inductive: every row is
  consistent with its neighbours (`RowInv`: only the oldest unsettled event is
  ever leased), what a worker remembers is still true in the sense it needs
  (`WorkerInv`: the head it read is at most the head now; the state it read is
  an older entry), and the projection state never passes the head
  (`StateInv`). Almost every step is `OnlyForward`: heads, states and statuses
  move one way and no served episode disappears; a lemma shows such a step
  keeps every other worker's memory true, which leaves one case per action.
  `AttemptInv` and `WitnessInv` strengthen `AttemptsBounded` and
  `ReplacementFirst`. `ImplementsPromise` shows each step is a step or a
  stutter of `IndexPromise`.
* **FactLedger**: all of its safety and action properties, from `Shapes`, the
  shape of heads, revisions and promotions.
* **FactStore**: `LocksHold` (a locked head is held once and is still as it was
  read; a key has one owner), from it `StoreImplementsLedger`, and through the
  refinement every property of the ledger. `StoreNeverDeadlocks` uses that a
  caller waits only for a key larger than all it holds, in the order key,
  promotion row, heads.

* **HistoryReading** (`HistoriesAreComplete`, `SuccessorsAreOfTheInvalidated`,
  `HitsAreOfOneMoment`). The reader's invariant `ReaderInv` says, for each
  position in the list of statements, what the answer so far is entitled to
  (`AnswerFits`): it uses that the version of a head grows, that an invalidated
  fact stays so, and that what a fact superseded is settled when it is created.
  For searches, that a successor's head did not exist when the hits were read.
* **GitPromotion** (`OnePending`, `UnnumberedHaveACall`, `RecordsAreTrue`). A
  record with no number is touched by the one call that owns it (`CallsOwn`),
  one with a number by the poll alone (`PollFollows`), so neither invalidates
  what the other remembers across an await; a pull request only moves forward,
  so a stale poll writes what was once true and still is (`Since`).
* **GitSync** (`IndexComesToMatch`). Two states are kept right at once: the one
  in memory for the files the sync is done with (`SyncMatches`), and the one in
  the state file for the files that have not changed since, which is what a
  crash falls back to (`SavedMatches`); the sync touches no episode of the
  second (`SyncSpares`), and no episode belongs to two facts (`Owned`).
* **GitWriter**. `WellTyped`, `NothingIsTakenOff` and `FailuresLeaveNothing` need
  the types only; the first bounds the pushes of a call, and the second holds
  with cancelled calls and two threads in the clone. `OnceAndWhole` and
  `AnswersAreTrue` rest on the inductive invariant `Inv`, stated for behaviours
  without a cancellation. Its parts: one thread is in the clone and holds the
  lock (`OneThread`); the clone shows how far the call at work has got
  (`Progress`); a call's uncommitted files are staged together or not at all
  (`StagedWhole`), which is why a later commit that picks up what a crash left
  publishes it whole; a branch holds one commit of a call, with all its files
  (`Whole`); and two branches that hold a call's commit are one branch up to and
  with it (`Agree`). The last is what makes a rebase safe: the commit lies in the
  common part, which is not replayed, and a push that landed unheard is
  recognised by the fetch that follows (`RebaseSees`). The lemmas on common
  prefixes and on `TreeOf` of a replayed branch are stated for all sequences.
* **Feedback**. `FeedbackUsesTheWriter`: each step on a request is, for the
  writer, one of its calls or nothing, so the writer's theorems hold under the
  feedback too. `StatesAreAllowed` (`KeepsToAllowed`) needs that a request being
  applied has a last attempt, which needs that calls are made in order.
  `OneReplacement` (`AppliedOnce`) needs `FeedbackInv`, for which the writer's
  `Inv` says too little: an earlier attempt may have stopped anywhere, and must
  show in the checkout that the next one checks. `CloneInv` says that it does.
  While a call checks and writes, its clone holds every commit of the server's
  that is on the remote (`UpToDate`, from `Known` and `Fetched`: the clone falls
  behind only where a fast-forward will bring it along, as `Feedback` has neither
  a cancelled call nor a rewritten remote: `Quiet`); a file that is not as HEAD has it was written by a call (`Kept`);
  what the clone has beside origin/main is the server's (`LocalIsOurs`); and a
  seeded fact that a call has written is not active (`SeededRetired`). So once an
  attempt has a commit the fact is never again the content the request was made
  for (`Superseded`), whatever others push and however it is rebased; an attempt
  whose check finds that content proves that no other has staged or committed
  anything (`CheckedAlone`), and the lock keeps it so until it has its own commit
  (`Alone`). `AppliedMeansPublished` (`AppliedIsPublished`) adds `AnswerInv`: an
  answer `ok` is for a commit on the remote, and until a crash a commit that is
  not there is in the hands of a call that pushes it or resets it away
  (`InHand`), so the marker that a later apply recognises was published. The
  escape of the property, a crash, is where this part is needed no longer.
* **Telemetry** (`ContractIsSound`; this and the four that follow are in
  `TelemetryProofs`): whatever adds acceptable records only has unique ids,
  resolves a search once, and holds for each decision and action the records
  they rest on. The lemmas on `TelemetryRules` show which rules are *lasting*:
  `TraceKnown`, `SearchesFit`, `IntentFits`, `DecisionFits`, `Attempted` and
  `UsedWereReturned` stay true when a record with a new id is added.
* **PostgresTelemetry** (`PostgresKeepsContract`, `AnswersHold`). The invariant
  says that a call's passed checks are still true, if they are lasting, and that
  the keys its transaction holds are held by no other and not committed
  (`KeysHeld`). The two rules that are not lasting, `Fresh` and `Unresolved`,
  follow at the commit from the keys it holds. So each commit is an `Accept`, for
  any number of callers, commands and failures.
* **UsageLog** (`LogKeepsContract`, `PreviewsAreScheduled`). A line is whole or
  not from the moment it is appended and a redaction changes previews only, so
  what the calls read back grows by the record just checked or not at all. For
  the timers the invariant adds `TimerLives`: the timer that `_redaction_timer`
  refers to is running, or has fired and wants the lock. Without it, leaving an
  earlier timer in place (`_schedule_redaction`) would not be enough.
* **UsageReading** (`ListingsAreClosed`): every record
  accepted finds the records it names (`ListableInv`), and the order of the four
  statements carries that over to the listing (`ListingInv`).
* **UsageMetrics** (`DecisionsAreCounted`, `RatesNeverExceedOne`). That a pass has
  a result, for any finite listing and order, is `PassEnds`: the places up to
  which there is one have no smallest exception. What the rules asked of a
  decision when it was recorded is kept as later ones come (`Countable`), and is
  all the pass asks; and two decisions it counts share no search, so that each
  use of a fact has a search of its own that returned it.
* **TelemetryBackends** (`BackendsKeepContract`, `NobodyIsMisled`,
  `PreviewsHaveTimers`, `DashboardListsClosed`): a step of the whole is a step of
  one part, so what is proved of the parts holds of what the `telemetry` run
  checks.

Only model-checked: liveness (`EveryEventSettles`, `EveryCallEnds`,
`Converges`, `EveryRequestIsAnswered`, `DecisionArrives`, `RawIsRedacted`), which
needs fairness and ENABLED. Every invariant and every other action property of a
passing run is stated by a theorem.
Properties such as "a promotion is decided once" or
"a fact has one pending promotion" are theorems about `FactLedger` and, through
`Linearizable`, about `FactStore`; the `store` run checks the refinement they
follow from instead of repeating them.

## 5. Findings

* **Attempts past the limit** (`projection_attempts`). `docs/OPERATIONS.md:83`
  and `README.md:90` say that an event is moved to the dead letters when its
  attempts reach the maximum. The limit is compared in `fail()` only, so an
  event whose worker dies (or whose fail() is lost) on the last attempt is
  leased again. The bound that does hold, `attempts <= MaxAttempts + faults`,
  is `AttemptsBounded`, and is proved.
* **A crash that looks like a rewrite** (`git_rewritten`). `fetch_and_ff` raises
  `HistoryRewritten` also for a clone that is merely ahead (`gitstore.py:112`),
  which is how a process that dies between commit and push leaves it. Every
  later write, locked read and sync is refused until somebody repairs the clone.
* **Two writers after a cancellation** (`git_cancel`). `write_lock` promises one
  critical section (`gitstore.py:120`); a cancelled call frees the lock while
  its thread commits and pushes on. With such a cancellation an acknowledged
  write can be reset away and half a change published, which is why
  `AckedIsPublished`, `PublishedOnceAndWhole` and `FailedLeavesClean` are stated
  for undisturbed behaviours; `ServerOnlyExtends` holds in all.
* **Previews that are never deleted** (`usage_raw`). `README.md:172` says that the
  plaintext previews of the Git backend are deleted when their retention is
  over. A preview with U+0085, U+2028 or U+2029 splits its line in two for
  `str.splitlines` (`usage_log.py:397`, `usage_records.py:64`): the record is
  invisible to the calls, and the redaction passes it on unread.

* A file put back (no run; met in the proof of `IndexComesToMatch`, whose
  invariant was not inductive without excluding it). A sync works on what
  `git diff` shows between the last ingested commit and HEAD (`sync.py:64`). A
  sync that has replaced or deleted an episode and dies before it saves its
  state leaves the saved state naming an episode that is gone. If the next
  commit puts the file back exactly as the last ingested commit has it, the diff
  shows nothing, the sync saves HEAD as ingested, and the fact stays out of the
  index until its file changes again or somebody reindexes; the module's first
  line calls the sync level-triggered. `IndexMatchesHead` excludes it by
  `NoneRestored`: no file was restored, or no sync was stopped half way.

Observed without a run of its own: the hash a write compares is compared before
the commit, and a rebase may then merge the commit with somebody else's edit of
the same file; and when every answer of a push is lost the caller is told of a
conflict to be retried, though the change is published.

Exclusions named in the properties: `NoneRestored` (above) and
`NoReindexStopped` in `IndexMatchesHead` (a reindex stopped half way leaves a cleared graph under a state file that names
its episodes; only a wholly empty graph is detected) and unparsable files in
`Converges`.

## 6. Not modelled, and the plan

Not modelled because there is nothing to interleave: report formatting and the
remaining aggregations of metrics and evaluation, rendering, MCP and UI surfaces,
authentication, settings, migrations, the admission subprocess (no state
survives the call).

Next, in this order:

1. `GitSync` under `GitWriter`, so that HEAD moves as the clone does, and
   `GitPromotion`'s branch in the same clone.
2. Search composed with `IndexProjection`, so that what the index names is what
   the workers put there.
