-------------------------- MODULE IndexProjection --------------------------
(***************************************************************************)
(* The derived search index of the PostgreSQL backend: the transactional   *)
(* outbox (postgres/outbox.py), the workers that consume it                *)
(* (postgres/worker.py), the projection state they share, and the graph    *)
(* they write to (postgres/graph_adapter.py, graphindex.py).               *)
(*                                                                         *)
(* A worker leases one event, then does five things that are NOT one       *)
(* transaction: it reads the fact's head, reads the projection state,      *)
(* creates the new episode in the graph, deletes the previous one, and     *)
(* upserts the projection state; only then does it acknowledge the event.  *)
(* Each is an await, so each is an action here, and another worker, a      *)
(* writer, a crash or an expiring lease may come between any two.          *)
(*                                                                         *)
(* Writers (postgres/repository.py, postgres/approvals.py) appear as the   *)
(* transactions they commit: one new revision and one event each.  Time is *)
(* not counted: a lease that lapses and a retry that comes due are steps   *)
(* of their own, taken whenever they may be.                               *)
(***************************************************************************)
EXTENDS Naturals

CONSTANTS
    Fact,         \* facts of one organisation
    Worker,       \* index worker processes
    NoFact,       \* the fact of a worker that has claimed nothing
    NoWorker,     \* the holder of an event that is not leased
    MaxAttempts,  \* settings.outbox_max_attempts
    MaxFaults     \* bound: crashes, stalls past the lease and lost fail() calls

ASSUME ConstantsAssumption ==
    /\ NoFact \notin Fact
    /\ Worker # {}
    /\ NoWorker \notin Worker
    /\ MaxAttempts \in Nat \ {0}
    /\ MaxFaults \in Nat

VARIABLES
    head,     \* head[f]: knowledge_facts.current_version, 0 before the fact exists
    status,   \* status[f]: of the head revision, with the part of the namespace that matters
    outbox,   \* outbox[f][v]: the outbox_events row of revision v
    state,    \* state[f]: the search_projection_state row of the fact
    graph,    \* graph[f]: revisions of f that have an episode in the graph
    worker,   \* worker[w]: what process w holds in memory
    faults    \* how many of the MaxFaults faults have happened

vars == <<head, status, outbox, state, graph, worker, faults>>
dbVars == <<head, status>>

-----------------------------------------------------------------------------
(* Values.                                                                  *)

\* Creation, at most one promotion to plk.shared, invalidation: no fact ever
\* has more revisions, because the other operations refuse it.
Version == 1..3

Status == {"none", "domain", "shared", "invalidated"}

\* An outbox row.  holder stands for lease_owner and lease_token: a worker
\* holds at most one claim and forgets it when it crashes, so comparing the
\* token with its claim's is asking whether it was the last to claim the row.
\* live says lease_until has not passed, available that available_at has.
Event == [emitted: BOOLEAN, processed: BOOLEAN, dead: BOOLEAN,
          available: BOOLEAN, holder: Worker \cup {NoWorker}, live: BOOLEAN,
          attempts: Nat]

NoEvent == [emitted |-> FALSE, processed |-> FALSE, dead |-> FALSE,
            available |-> FALSE, holder |-> NoWorker, live |-> FALSE,
            attempts |-> 0]

FreshEvent == [emitted |-> TRUE, processed |-> FALSE, dead |-> FALSE,
               available |-> TRUE, holder |-> NoWorker, live |-> FALSE,
               attempts |-> 0]

\* A projection-state row; version 0 is the absent row.  An episode's uuid is
\* derived from organisation, fact and revision, so refs is a set of revisions.
Entry == [version: {0} \cup Version, refs: SUBSET Version]

Stage == {"idle", "claimed", "read", "create", "delete", "put", "ack", "failing"}

\* The claim, the head as it was read (its revision, target, and its status,
\* seen), and the projection state as it was read.
Job == [stage: Stage, fact: Fact \cup {NoFact}, version: {0} \cup Version,
        target: {0} \cup Version, seen: Status, old: Entry]

NoEntry == [version |-> 0, refs |-> {}]

Idle == [stage |-> "idle", fact |-> NoFact, version |-> 0, target |-> 0,
         seen |-> "none", old |-> NoEntry]

\* What the reads and the graph calls of a projection leave in its memory.
SawHead(job, v, s) == [job EXCEPT !.stage = "read", !.target = v, !.seen = s]

SawState(job, entry) ==
    [job EXCEPT !.old = entry,
                !.stage = IF job.seen = "invalidated" THEN "delete" ELSE "create"]

Reached(job, s) == [job EXCEPT !.stage = s]

\* A worker that needs only its claim from here on.
Holding(f, v, s) == [Idle EXCEPT !.stage = s, !.fact = f, !.version = v]

Settled(f, v) == outbox[f][v].processed \/ outbox[f][v].dead

\* The WHERE clause of ack, renew and fail: the row still carries the claim's token.
Owns(w) == outbox[worker[w].fact][worker[w].version].holder = w

Working(w, f, v) ==
    /\ worker[w].stage # "idle"
    /\ worker[w].fact = f
    /\ worker[w].version = v

TypeOK ==
    /\ head \in [Fact -> {0} \cup Version]
    /\ status \in [Fact -> Status]
    /\ outbox \in [Fact -> [Version -> Event]]
    /\ state \in [Fact -> Entry]
    /\ graph \in [Fact -> SUBSET Version]
    /\ worker \in [Worker -> Job]
    /\ faults \in 0..MaxFaults

Init ==
    /\ head = [f \in Fact |-> 0]
    /\ status = [f \in Fact |-> "none"]
    /\ outbox = [f \in Fact |-> [v \in Version |-> NoEvent]]
    /\ state = [f \in Fact |-> NoEntry]
    /\ graph = [f \in Fact |-> {}]
    /\ worker = [w \in Worker |-> Idle]
    /\ faults = 0

-----------------------------------------------------------------------------
(* Writers.  Each commits the head, the revision and its event together.   *)

EmitEvent(f) == outbox' = [outbox EXCEPT ![f][head[f] + 1] = FreshEvent]

NewRevision(f, s) ==
    /\ head' = [head EXCEPT ![f] = @ + 1]
    /\ status' = [status EXCEPT ![f] = s]
    /\ EmitEvent(f)
    /\ UNCHANGED <<state, graph, worker, faults>>

CreateFact(f) ==
    /\ status[f] = "none"
    /\ \E s \in {"domain", "shared"} : NewRevision(f, s)

\* Mutant of PromoteFact: the namespace is not checked.
PromoteAgain(f) ==
    /\ status[f] \in {"domain", "shared"}
    /\ NewRevision(f, "shared")

PromoteFact(f) ==
    /\ status[f] = "domain"
    /\ NewRevision(f, "shared")

InvalidateFact(f) ==
    /\ status[f] \in {"domain", "shared"}
    /\ NewRevision(f, "invalidated")

Write(f) == CreateFact(f) \/ PromoteFact(f) \/ InvalidateFact(f)

-----------------------------------------------------------------------------
(* The outbox.                                                              *)

\* Mutant of Claimable: the NOT EXISTS (older unsettled event) is missing.
ClaimableUnordered(f, v) ==
    /\ outbox[f][v].emitted
    /\ ~Settled(f, v)
    /\ outbox[f][v].available
    /\ ~outbox[f][v].live

\* Mutant of Claimable: the NOT EXISTS also counts dead-lettered elders.
ClaimableBehindDead(f, v) ==
    /\ ClaimableUnordered(f, v)
    /\ \A u \in Version : u < v => outbox[f][u].processed

\* A claim takes a due, unleased, unsettled event none of whose elders in the
\* same fact is unsettled.  SKIP LOCKED makes the choice among facts arbitrary.
Claimable(f, v) ==
    /\ outbox[f][v].emitted
    /\ ~Settled(f, v)
    /\ outbox[f][v].available
    /\ ~outbox[f][v].live
    /\ \A u \in Version : u < v => Settled(f, u)

\* The UPDATE of a claim: a fresh token, a new lease, one more attempt.
Leased(e, w) == [e EXCEPT !.holder = w, !.live = TRUE, !.attempts = @ + 1]

Claim(w, f, v) ==
    /\ worker[w].stage = "idle"
    /\ Claimable(f, v)
    /\ outbox' = [outbox EXCEPT ![f][v] = Leased(@, w)]
    /\ worker' = [worker EXCEPT ![w] = Holding(f, v, "claimed")]
    /\ UNCHANGED <<dbVars, state, graph, faults>>

\* The heartbeat extends a lease whose row still carries this claim's token,
\* lapsed or not.  Losing the row cancels the projection: see Raise.
Renew(w) ==
    /\ worker[w].stage \in {"claimed", "read", "create", "delete", "put"}
    /\ LET f == worker[w].fact
           v == worker[w].version
       IN  /\ Owns(w)
           /\ ~Settled(f, v)
           /\ ~outbox[f][v].live
           /\ outbox' = [outbox EXCEPT ![f][v] = [@ EXCEPT !.live = TRUE]]
    /\ UNCHANGED <<dbVars, state, graph, worker, faults>>

\* The UPDATE of an ack: the lease columns are cleared.
Acked(e) == [e EXCEPT !.holder = NoWorker, !.live = FALSE, !.processed = TRUE]

\* ack: when the row is no longer this claim's it raises; the reply of a
\* committed ack may also be lost, which the worker sees as an exception.
Ack(w) ==
    /\ worker[w].stage = "ack"
    /\ LET f == worker[w].fact
           v == worker[w].version
       IN  \/ /\ Owns(w)
              /\ outbox' = [outbox EXCEPT ![f][v] = Acked(@)]
              /\ \/ worker' = [worker EXCEPT ![w] = Idle]
                 \/ worker' = [worker EXCEPT ![w] = Holding(f, v, "failing")]
           \/ /\ ~Owns(w)
              /\ worker' = [worker EXCEPT ![w] = Holding(f, v, "failing")]
              /\ UNCHANGED outbox
    /\ UNCHANGED <<dbVars, state, graph, faults>>

\* Mutant of Failed: the attempt limit is off by one.
FailedOffByOne(e) ==
    [e EXCEPT !.holder = NoWorker, !.live = FALSE, !.available = FALSE,
              !.dead = e.attempts > MaxAttempts]

\* The UPDATE of a fail: a retry is scheduled, or the event is dead-lettered
\* once its attempts are used up.
Failed(e) ==
    [e EXCEPT !.holder = NoWorker, !.live = FALSE, !.available = FALSE,
              !.dead = e.attempts >= MaxAttempts]

\* fail.  A stale lease raises, and run_once swallows that.
Fail(w) ==
    /\ worker[w].stage = "failing"
    /\ worker' = [worker EXCEPT ![w] = Idle]
    /\ LET f == worker[w].fact
           v == worker[w].version
       IN  \/ /\ Owns(w)
              /\ outbox' = [outbox EXCEPT ![f][v] = Failed(@)]
           \/ /\ ~Owns(w)
              /\ UNCHANGED outbox
    /\ UNCHANGED <<dbVars, state, graph, faults>>

-----------------------------------------------------------------------------
(* The projection of one claim: PostgresIndexWorker._project, await by await. *)

\* repository.get: the current head, whatever revision the event was for.
ReadHead(w) ==
    /\ worker[w].stage = "claimed"
    /\ LET f == worker[w].fact
       IN  worker' = [worker EXCEPT ![w] = SawHead(@, head[f], status[f])]
    /\ UNCHANGED <<dbVars, outbox, state, graph, faults>>

\* Mutant of ReadState: the early return is taken for later revisions only, so
\* a redelivered event projects the same revision over itself.
ReadStateStrict(w) ==
    /\ worker[w].stage = "read"
    /\ LET job == worker[w]
           old == state[job.fact]
       IN  \/ /\ old.version > job.target
              /\ worker' = [worker EXCEPT ![w] = Holding(job.fact, job.version, "ack")]
           \/ /\ old.version <= job.target
              /\ worker' = [worker EXCEPT ![w] = SawState(@, old)]
    /\ UNCHANGED <<dbVars, outbox, state, graph, faults>>

\* index_state.get, and the level-triggered early return: nothing to do when
\* the index already holds this revision or a later one.
ReadState(w) ==
    /\ worker[w].stage = "read"
    /\ LET job == worker[w]
           old == state[job.fact]
       IN  \/ /\ old.version >= job.target
              /\ worker' = [worker EXCEPT ![w] = Holding(job.fact, job.version, "ack")]
           \/ /\ old.version < job.target
              /\ worker' = [worker EXCEPT ![w] = SawState(@, old)]
    /\ UNCHANGED <<dbVars, outbox, state, graph, faults>>

\* Mutant of CreateEpisode: the previous episodes are deleted first.
CreateAfterDelete(w) ==
    /\ worker[w].stage = "create"
    /\ \/ /\ worker[w].old.refs # {}
          /\ graph' = [graph EXCEPT ![worker[w].fact] = @ \ worker[w].old.refs]
          /\ worker' = [worker EXCEPT ![w].old.refs = {}]
       \/ /\ worker[w].old.refs = {}
          /\ graph' = [graph EXCEPT ![worker[w].fact] = @ \cup {worker[w].target}]
          /\ worker' = [worker EXCEPT ![w] = Reached(@, "delete")]
    /\ UNCHANGED <<dbVars, outbox, state, faults>>

\* upsert_fact on a live fact: the new episode first (an existing one with
\* the same seed is reused) ...
CreateEpisode(w) ==
    /\ worker[w].stage = "create"
    /\ graph' = [graph EXCEPT ![worker[w].fact] = @ \cup {worker[w].target}]
    /\ worker' = [worker EXCEPT ![w] = Reached(@, "delete")]
    /\ UNCHANGED <<dbVars, outbox, state, faults>>

\* ... then the episodes of the entry it replaces, tolerating absent ones.
DeleteOld(w) ==
    /\ worker[w].stage = "delete"
    /\ graph' = [graph EXCEPT ![worker[w].fact] = @ \ worker[w].old.refs]
    /\ worker' = [worker EXCEPT ![w] = Reached(@, "put")]
    /\ UNCHANGED <<dbVars, outbox, state, faults>>

NewEntry(w) ==
    [version |-> worker[w].target,
     refs |-> IF worker[w].seen = "invalidated" THEN {} ELSE {worker[w].target}]

\* Mutant of PutIfNewer: the upsert has no WHERE clause.
PutAlways(w) ==
    /\ worker[w].stage = "put"
    /\ state' = [state EXCEPT ![worker[w].fact] = NewEntry(w)]
    /\ worker' = [worker EXCEPT
                    ![w] = Holding(worker[w].fact, worker[w].version, "ack")]
    /\ UNCHANGED <<dbVars, outbox, graph, faults>>

\* put_if_newer: the upsert leaves a row of the same or a later revision
\* alone; the worker goes on to acknowledge either way.
PutIfNewer(w) ==
    /\ worker[w].stage = "put"
    /\ state' = [state EXCEPT ![worker[w].fact] =
                    IF worker[w].target > @.version THEN NewEntry(w) ELSE @]
    /\ worker' = [worker EXCEPT
                    ![w] = Holding(worker[w].fact, worker[w].version, "ack")]
    /\ UNCHANGED <<dbVars, outbox, graph, faults>>

\* Mutant of Raise: the error of a cancelled projection is dropped and the
\* event acknowledged all the same.
RaiseSwallowed(w) ==
    /\ worker[w].stage \in Stage \ {"idle", "failing"}
    /\ worker' = [worker EXCEPT
                    ![w] = Holding(worker[w].fact, worker[w].version, "ack")]
    /\ UNCHANGED <<dbVars, outbox, state, graph, faults>>

\* An exception out of any of these awaits, before or after the call took
\* effect; or the heartbeat cancelling a projection whose lease is gone.
Raise(w) ==
    /\ worker[w].stage \in Stage \ {"idle", "failing"}
    /\ worker' = [worker EXCEPT
                    ![w] = Holding(worker[w].fact, worker[w].version, "failing")]
    /\ UNCHANGED <<dbVars, outbox, state, graph, faults>>

Project(w) ==
    \/ ReadHead(w)
    \/ ReadState(w)
    \/ CreateEpisode(w)
    \/ DeleteOld(w)
    \/ PutIfNewer(w)
    \/ Ack(w)
    \/ Fail(w)

-----------------------------------------------------------------------------
(* Time and faults.                                                         *)

\* retry_at passes.
RetryDue(f, v) ==
    /\ outbox[f][v].emitted
    /\ ~outbox[f][v].available
    /\ outbox' = [outbox EXCEPT ![f][v] = [@ EXCEPT !.available = TRUE]]
    /\ UNCHANGED <<dbVars, state, graph, worker, faults>>

LeaseLapses(f, v) ==
    /\ outbox[f][v].live
    /\ outbox' = [outbox EXCEPT ![f][v] = [@ EXCEPT !.live = FALSE]]

\* lease_until passes on an event nobody is working on any more.
AbandonedLapses(f, v) ==
    /\ LeaseLapses(f, v)
    /\ ~Working(outbox[f][v].holder, f, v)
    /\ UNCHANGED <<dbVars, state, graph, worker, faults>>

\* The holder stalls for longer than its lease: it is still there, and will
\* carry on from where it stopped.
Stall(w, f, v) ==
    /\ faults < MaxFaults
    /\ outbox[f][v].holder = w
    /\ Working(w, f, v)
    /\ LeaseLapses(f, v)
    /\ faults' = faults + 1
    /\ UNCHANGED <<dbVars, state, graph, worker>>

\* The process dies and is started again: it has forgotten its claim.
Crash(w) ==
    /\ faults < MaxFaults
    /\ worker[w].stage # "idle"
    /\ worker' = [worker EXCEPT ![w] = Idle]
    /\ faults' = faults + 1
    /\ UNCHANGED <<dbVars, outbox, state, graph>>

\* fail() itself fails (the database is away): run_once swallows that too,
\* and the event stays leased.
FailLost(w) ==
    /\ faults < MaxFaults
    /\ worker[w].stage = "failing"
    /\ Owns(w)
    /\ worker' = [worker EXCEPT ![w] = Idle]
    /\ faults' = faults + 1
    /\ UNCHANGED <<dbVars, outbox, state, graph>>

-----------------------------------------------------------------------------

WorkerStep(w) ==
    \/ Project(w)
    \/ Raise(w)
    \/ Renew(w)
    \/ Crash(w)
    \/ FailLost(w)
    \/ \E f \in Fact, v \in Version : Claim(w, f, v) \/ Stall(w, f, v)

Tick(f, v) == RetryDue(f, v) \/ AbandonedLapses(f, v)

Next ==
    \/ \E f \in Fact : Write(f)
    \/ \E w \in Worker : WorkerStep(w)
    \/ \E f \in Fact, v \in Version : Tick(f, v)

Spec == Init /\ [][Next]_vars

\* run_forever keeps polling and every await of a running worker returns or
\* raises; clocks move.  Nothing is assumed of Raise, Renew, writers or faults.
Fairness ==
    /\ \A w \in Worker : WF_vars(Project(w))
    /\ WF_vars(\E w \in Worker, f \in Fact, v \in Version : Claim(w, f, v))
    /\ \A f \in Fact, v \in Version : WF_vars(Tick(f, v))

FairSpec == Spec /\ Fairness

-----------------------------------------------------------------------------
(* Properties.                                                              *)

\* No wake-up is lost: once an event is acknowledged the index holds its
\* revision or a later one, whatever stale workers did meanwhile.
AckedMeansIndexed ==
    \A f \in Fact : \A v \in Version :
        outbox[f][v].processed => v <= state[f].version

\* When the projection state has caught up with the head, the fact's search
\* attribution is exactly the head's episode, which is in the graph; an
\* invalidated fact has none.  A worker resuming with old reads cannot have
\* deleted it.
CaughtUpIsServed ==
    \A f \in Fact :
        (head[f] > 0 /\ state[f].version = head[f]) =>
            IF status[f] = "invalidated"
            THEN state[f].refs = {}
            ELSE state[f].refs = {head[f]} /\ head[f] \in graph[f]

\* The graph never loses the last episode of a live fact it once served: when
\* the one the projection state names is gone, a later one has replaced it
\* ("keep the previous projection until the replacement has been created").
ReplacementFirst ==
    \A f \in Fact :
        status[f] # "invalidated" =>
            \A r \in state[f].refs : \E v \in graph[f] : r <= v

\* Revisions of one fact are projected one at a time: no two of its events
\* are leased, even when a lease lapsed under a worker that is still running.
OneLeasePerFact ==
    \A f \in Fact : \A u, v \in Version :
        (outbox[f][u].holder # NoWorker /\ outbox[f][v].holder # NoWorker) => u = v

\* Lease fencing: an event is acknowledged or dead-lettered, never both, and
\* nothing a stale worker or a late fail() does puts it back in the queue.
SettledOnce ==
    \A f \in Fact : \A v \in Version :
        /\ ~(outbox[f][v].processed /\ outbox[f][v].dead)
        /\ Settled(f, v) => outbox[f][v].holder = NoWorker /\ ~outbox[f][v].live

\* An event that keeps failing is given up: it is claimed more than
\* MaxAttempts times only to make up for a lease that was lost.
AttemptsBounded ==
    \A f \in Fact : \A v \in Version :
        outbox[f][v].attempts <= MaxAttempts + faults

\* What docs/OPERATIONS.md says of the outbox, read literally: an event whose
\* attempts are used up goes to the dead letters, so it is not claimed again.
AttemptsWithinMax ==
    \A f \in Fact : \A v \in Version : outbox[f][v].attempts <= MaxAttempts

\* The projection implements the abstract promise.
Promise == INSTANCE IndexPromise WITH
    indexed <- [f \in Fact |-> state[f].version],
    fate <- [f \in Fact |-> [v \in Version |->
                IF outbox[f][v].processed THEN "indexed"
                ELSE IF outbox[f][v].dead THEN "dead"
                ELSE IF outbox[f][v].emitted THEN "owed"
                ELSE "unborn"]]

\* Each revision is written once; the index only moves forward and never past
\* the head; a wake-up is discharged once, and as "indexed" only when it is.
PromiseKept == Promise!SafeSpec

\* Every event is eventually acknowledged or dead-lettered: a stuck, failing
\* or crashed worker never blocks the later revisions of a fact for ever.
EveryEventSettles == Promise!Discharged
=============================================================================
