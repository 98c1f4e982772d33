----------------------- MODULE IndexProjectionProofs -----------------------
(***************************************************************************)
(* Theorems about IndexProjection, for any number of facts, workers,       *)
(* attempts and faults.  The inductive invariant says what a stale worker  *)
(* may and may not still believe: what it read is behind the tables, never *)
(* ahead of them, and what it is about to delete is older than what it put *)
(* in its place.                                                           *)
(***************************************************************************)
EXTENDS IndexProjection, TLAPS

\* A fact's status fixes how many revisions it can have had.
HeadInv ==
    \A f \in Fact :
        /\ status[f] = "none" <=> head[f] = 0
        /\ status[f] = "domain" => head[f] = 1
        /\ status[f] = "shared" => head[f] \in {1, 2}

\* Only an idle worker has no claim.
ClaimInv ==
    \A w \in Worker :
        worker[w].stage # "idle" => worker[w].fact \in Fact /\ worker[w].version \in Version

TInv == TypeOK /\ HeadInv /\ ClaimInv

\* Rows exist for exactly the revisions written; only the oldest unsettled
\* row of a fact is ever leased; releasing or settling a row clears its lease.
RowInv ==
    \A f \in Fact : \A v \in Version :
        LET e == outbox[f][v]
        IN  /\ e.emitted <=> v <= head[f]
            /\ ~e.emitted => ~e.processed /\ ~e.dead
            /\ e.holder # NoWorker =>
                    /\ e.emitted
                    /\ ~Settled(f, v)
                    /\ \A u \in Version : u < v => Settled(f, u)
            /\ e.live => e.holder # NoWorker
            /\ ~(e.processed /\ e.dead)

Reading == {"read", "create", "delete", "put"}
Projecting == {"create", "delete", "put"}

\* What worker w holds in memory, however stale.
Recalls(w) ==
    LET job == worker[w]
        f == job.fact
    IN  /\ job.stage # "idle" => job.version <= head[f]
        /\ job.stage \in Reading =>
                /\ job.target \in Version
                /\ job.version <= job.target
                /\ job.target <= head[f]
                /\ job.seen = "invalidated" =>
                        status[f] = "invalidated" /\ job.target = head[f]
                /\ (job.seen # "invalidated" /\ status[f] = "invalidated") =>
                        job.target < head[f]
        /\ job.stage \in Projecting =>
                /\ job.old.version < job.target
                /\ job.old.refs \subseteq {job.old.version}
        /\ job.stage = "create" => job.seen # "invalidated"
        /\ (job.stage \in {"delete", "put"} /\ job.seen # "invalidated") =>
                \/ job.target \in graph[f]
                \/ job.target < head[f]
        /\ job.stage = "ack" => job.version <= state[f].version

WorkerInv == \A w \in Worker : Recalls(w)

\* The projection state never runs ahead of the head.
StateInv ==
    \A f \in Fact :
        /\ state[f].version <= head[f]
        /\ state[f].refs \subseteq {state[f].version}

IInv ==
    /\ TInv
    /\ RowInv
    /\ WorkerInv
    /\ StateInv
    /\ AckedMeansIndexed
    /\ CaughtUpIsServed

\* A live fact's graph keeps an episode at least as new as the one any
\* worker is about to publish, or has read as published.
Witnessed(w) ==
    LET job == worker[w]
    IN  (job.stage \in {"delete", "put"} /\ status[job.fact] # "invalidated") =>
            \E v \in graph[job.fact] : job.target <= v

WitnessInv == \A w \in Worker : Witnessed(w)

\* Attempts are within bounds, and strictly so while nobody works on the row:
\* only a working worker with a live lease may be using the last one up.
RowBounded(f, v) ==
    /\ outbox[f][v].attempts <= MaxAttempts + faults
    /\ (/\ outbox[f][v].emitted
        /\ ~Settled(f, v)
        /\ \/ outbox[f][v].holder = NoWorker
           \/ ~outbox[f][v].live
           \/ ~Working(outbox[f][v].holder, f, v))
       => outbox[f][v].attempts < MaxAttempts + faults

AttemptInv == \A f \in Fact : \A v \in Version : RowBounded(f, v)

-----------------------------------------------------------------------------
(* Typing.                                                                  *)

USE ConstantsAssumption

\* The constant rows have the type of a row.
LEMMA ConstantRecords ==
    /\ NoEvent \in Event
    /\ FreshEvent \in Event
    /\ NoEntry \in Entry
    /\ Idle \in Job
    /\ Idle.stage = "idle"
  BY DEF NoEvent, FreshEvent, Event, Idle, Job, Stage, NoEntry, Entry, Version, Status

\* A worker that keeps only its claim.
LEMMA HoldingFields ==
    ASSUME NEW f \in Fact, NEW v \in Version, NEW s \in Stage
    PROVE  /\ Holding(f, v, s) \in Job
           /\ Holding(f, v, s).stage = s
           /\ Holding(f, v, s).fact = f
           /\ Holding(f, v, s).version = v
  BY DEF Holding, Idle, Job, NoEntry, Entry, Version, Status

\* What the updates of an outbox row do to its columns.
LEMMA LeasedRow ==
    ASSUME NEW e \in Event, NEW w \in Worker
    PROVE  /\ Leased(e, w) \in Event
           /\ Leased(e, w).holder = w
           /\ Leased(e, w).live
           /\ Leased(e, w).attempts = e.attempts + 1
           /\ Leased(e, w).emitted = e.emitted
           /\ Leased(e, w).processed = e.processed
           /\ Leased(e, w).dead = e.dead
<1> DEFINE n == [e EXCEPT !.attempts = @ + 1]
<1>1. n \in Event /\ n.attempts = e.attempts + 1
  BY DEF Event
<1>2. n.emitted = e.emitted /\ n.processed = e.processed /\ n.dead = e.dead
  BY DEF Event
<1>3. Leased(e, w) = [n EXCEPT !.holder = w, !.live = TRUE]
  BY DEF Leased, Event
<1> QED  BY <1>1, <1>2, <1>3 DEF Event

\* What acknowledging does to a row.
LEMMA AckedRow ==
    ASSUME NEW e \in Event
    PROVE  /\ Acked(e) \in Event
           /\ Acked(e).holder = NoWorker
           /\ ~Acked(e).live
           /\ Acked(e).processed
           /\ Acked(e).emitted = e.emitted
           /\ Acked(e).dead = e.dead
           /\ Acked(e).attempts = e.attempts
  BY DEF Acked, Event

\* What a recorded failure does to a row.
LEMMA FailedRow ==
    ASSUME NEW e \in Event
    PROVE  /\ Failed(e) \in Event
           /\ Failed(e).holder = NoWorker
           /\ ~Failed(e).live
           /\ Failed(e).dead <=> e.attempts >= MaxAttempts
           /\ Failed(e).emitted = e.emitted
           /\ Failed(e).processed = e.processed
           /\ Failed(e).attempts = e.attempts
<1> DEFINE d == e.attempts >= MaxAttempts
           n == [e EXCEPT !.dead = d]
<1>1. d \in BOOLEAN
  OBVIOUS
<1> HIDE DEF d
<1>2. n \in Event /\ n.dead = d
  BY <1>1 DEF Event
<1>3. n.emitted = e.emitted /\ n.processed = e.processed /\ n.attempts = e.attempts
  BY DEF Event
<1>4. Failed(e) = [n EXCEPT !.holder = NoWorker, !.live = FALSE, !.available = FALSE]
  BY DEF Failed, Event, d
<1> HIDE DEF n
<1>5. Failed(e).dead = d
  BY <1>2, <1>4 DEF Event
<1> QED  BY <1>2, <1>3, <1>4, <1>5 DEF Event, d

\* Setting one flag of a row leaves a row.
LEMMA OneFlag ==
    ASSUME NEW e \in Event, NEW b \in BOOLEAN
    PROVE  /\ [e EXCEPT !.live = b] \in Event
           /\ [e EXCEPT !.available = b] \in Event
  BY DEF Event

\* The columns a renewal or an expiry leaves alone ...
LEMMA LeaseFlag ==
    ASSUME NEW e \in Event, NEW b \in BOOLEAN
    PROVE  \E d \in Event :
              /\ d = [e EXCEPT !.live = b]
              /\ d.live = b
              /\ d.emitted = e.emitted /\ d.processed = e.processed /\ d.dead = e.dead
              /\ d.holder = e.holder /\ d.attempts = e.attempts
<1> DEFINE d == [e EXCEPT !.live = b]
<1>1. d \in Event /\ d.live = b
  BY DEF Event
<1>2. d.emitted = e.emitted /\ d.processed = e.processed /\ d.dead = e.dead
  BY DEF Event
<1>3. d.holder = e.holder /\ d.attempts = e.attempts
  BY DEF Event
<1> HIDE DEF d
<1> QED  BY <1>1, <1>2, <1>3, Zenon DEF d

\* ... and those a retry coming due does.
LEMMA RetryFlag ==
    ASSUME NEW e \in Event
    PROVE  \E d \in Event :
              /\ d = [e EXCEPT !.available = TRUE]
              /\ d.live = e.live
              /\ d.emitted = e.emitted /\ d.processed = e.processed /\ d.dead = e.dead
              /\ d.holder = e.holder /\ d.attempts = e.attempts
<1> DEFINE d == [e EXCEPT !.available = TRUE]
<1>1. d \in Event /\ d.live = e.live
  BY DEF Event
<1>2. d.emitted = e.emitted /\ d.processed = e.processed /\ d.dead = e.dead
  BY DEF Event
<1>3. d.holder = e.holder /\ d.attempts = e.attempts
  BY DEF Event
<1> HIDE DEF d
<1> QED  BY <1>1, <1>2, <1>3, Zenon DEF d

\* An update of one row leaves every other row alone.
LEMMA OneRow ==
    ASSUME outbox \in [Fact -> [Version -> Event]],
           NEW f \in Fact, NEW v \in Version, NEW e \in Event,
           outbox' = [outbox EXCEPT ![f][v] = e]
    PROVE  /\ outbox' \in [Fact -> [Version -> Event]]
           /\ outbox'[f][v] = e
           /\ \A g \in Fact, u \in Version :
                    (g # f \/ u # v) => outbox'[g][u] = outbox[g][u]
  OBVIOUS

\* A fact that can still be written has fewer than three revisions.
LEMMA RoomForRevision ==
    ASSUME TypeOK, HeadInv, NEW f \in Fact, status[f] \in {"none", "domain", "shared"}
    PROVE  head[f] + 1 \in Version
  BY DEF TypeOK, HeadInv, Version

\* A write keeps the types.
LEMMA WriteKeepsTypes ==
    ASSUME TInv, NEW f \in Fact, Write(f)
    PROVE  TInv'
<1>1. head[f] + 1 \in Version
  BY RoomForRevision DEF TInv, Write, CreateFact, PromoteFact, InvalidateFact
<1>2. PICK s \in Status : NewRevision(f, s)
  BY DEF Write, CreateFact, PromoteFact, InvalidateFact, Status
<1>3. TypeOK'
  BY <1>1, <1>2, ConstantRecords DEF TInv, TypeOK, NewRevision, EmitEvent
<1>4. HeadInv'
  BY DEF Write, CreateFact, PromoteFact, InvalidateFact, NewRevision, TInv, HeadInv, TypeOK,
         Version, Status
<1>5. ClaimInv'
  BY <1>2 DEF TInv, ClaimInv, NewRevision
<1> QED  BY <1>3, <1>4, <1>5 DEF TInv

\* A step of the queue or of the clock changes one row; the head is not
\* touched, and a worker that is not idle has a claim.
LEMMA RowStepKeepsTypes ==
    ASSUME TInv, NEW f \in Fact, NEW v \in Version, NEW e \in Event,
           outbox' = [outbox EXCEPT ![f][v] = e],
           UNCHANGED <<head, status, state, graph>>,
           worker' \in [Worker -> Job], faults' \in 0..MaxFaults, ClaimInv'
    PROVE  TInv'
<1>1. TypeOK'
  BY OneRow DEF TInv, TypeOK
<1> QED  BY <1>1 DEF TInv, HeadInv

\* What a worker's move does to its memory.
LEMMA OneJob ==
    ASSUME worker \in [Worker -> Job], ClaimInv, NEW w \in Worker, NEW j \in Job,
           j.stage = "idle" \/ (j.fact \in Fact /\ j.version \in Version),
           worker' = [worker EXCEPT ![w] = j]
    PROVE  /\ worker' \in [Worker -> Job]
           /\ ClaimInv'
           /\ worker'[w] = j
           /\ \A x \in Worker : x # w => worker'[x] = worker[x]
  BY DEF ClaimInv

\* A worker that moves on with only its claim is well formed, and so are the others.
LEMMA MovesTo ==
    ASSUME worker \in [Worker -> Job], ClaimInv, NEW w \in Worker,
           NEW f \in Fact, NEW v \in Version, NEW s \in Stage,
           worker' = [worker EXCEPT ![w] = Holding(f, v, s)]
    PROVE  /\ worker' \in [Worker -> Job]
           /\ ClaimInv'
           /\ worker'[w] = Holding(f, v, s)
           /\ \A x \in Worker : x # w => worker'[x] = worker[x]
<1> DEFINE j == Holding(f, v, s)
<1>1. j \in Job /\ j.fact = f /\ j.version = v
  BY HoldingFields
<1> HIDE DEF j
<1>2. worker' = [worker EXCEPT ![w] = j]
  BY DEF j
<1>3. /\ worker' \in [Worker -> Job]
      /\ ClaimInv'
      /\ worker'[w] = j
      /\ \A x \in Worker : x # w => worker'[x] = worker[x]
  BY <1>1, <1>2, OneJob
<1> QED  BY <1>3 DEF j

\* A worker that lets go of its claim is well formed, and so are the others.
LEMMA GoesIdle ==
    ASSUME worker \in [Worker -> Job], ClaimInv, NEW w \in Worker,
           worker' = [worker EXCEPT ![w] = Idle]
    PROVE  /\ worker' \in [Worker -> Job]
           /\ ClaimInv'
           /\ worker'[w] = Idle
           /\ \A x \in Worker : x # w => worker'[x] = worker[x]
  BY ConstantRecords, OneJob

\* What reading the head leaves in a job.
LEMMA SawHeadFields ==
    ASSUME NEW j \in Job, NEW v \in {0} \cup Version, NEW s \in Status
    PROVE  /\ SawHead(j, v, s) \in Job
           /\ SawHead(j, v, s).stage = "read"
           /\ SawHead(j, v, s).fact = j.fact
           /\ SawHead(j, v, s).version = j.version
           /\ SawHead(j, v, s).target = v
           /\ SawHead(j, v, s).seen = s
  BY DEF SawHead, Job, Stage

\* The job of a worker that has just read the head.
LEMMA HeadRead ==
    ASSUME TypeOK, NEW w \in Worker, worker[w] \in Job, worker[w].fact \in Fact
    PROVE  LET j == SawHead(worker[w], head[worker[w].fact], status[worker[w].fact])
           IN  /\ j \in Job
               /\ j.stage = "read"
               /\ j.fact = worker[w].fact
               /\ j.version = worker[w].version
               /\ j.target = head[worker[w].fact]
               /\ j.seen = status[worker[w].fact]
<1> DEFINE v == head[worker[w].fact]
           s == status[worker[w].fact]
<1>1. v \in {0} \cup Version /\ s \in Status
  BY DEF TypeOK
<1> HIDE DEF v, s
<1>2. SawHead(worker[w], v, s).stage = "read"
  BY <1>1, SawHeadFields
<1>3. SawHead(worker[w], v, s) \in Job
  BY <1>1, SawHeadFields
<1>4. SawHead(worker[w], v, s).target = v
  BY <1>1, SawHeadFields
<1>5. SawHead(worker[w], v, s).seen = s
  BY <1>1, SawHeadFields
<1>6. SawHead(worker[w], v, s).fact = worker[w].fact
  BY <1>1, SawHeadFields
<1>7. SawHead(worker[w], v, s).version = worker[w].version
  BY <1>1, SawHeadFields
<1> QED  BY <1>2, <1>3, <1>4, <1>5, <1>6, <1>7 DEF v, s

\* What reading the projection state leaves in a job.
LEMMA SawStateFields ==
    ASSUME NEW j \in Job, NEW o \in Entry
    PROVE  /\ SawState(j, o) \in Job
           /\ SawState(j, o).stage = IF j.seen = "invalidated" THEN "delete" ELSE "create"
           /\ SawState(j, o).fact = j.fact
           /\ SawState(j, o).version = j.version
           /\ SawState(j, o).target = j.target
           /\ SawState(j, o).seen = j.seen
           /\ SawState(j, o).old = o
  BY DEF SawState, Job, Stage

\* Reaching a stage changes nothing else of a job.
LEMMA ReachedFields ==
    ASSUME NEW j \in Job, NEW s \in Stage
    PROVE  /\ Reached(j, s) \in Job
           /\ Reached(j, s).stage = s
           /\ Reached(j, s).fact = j.fact
           /\ Reached(j, s).version = j.version
           /\ Reached(j, s).target = j.target
           /\ Reached(j, s).seen = j.seen
           /\ Reached(j, s).old = j.old
  BY DEF Reached, Job

\* The outbox operations of a worker keep the types.
LEMMA QueueKeepsTypes ==
    ASSUME TInv, NEW w \in Worker
    PROVE  /\ \A f \in Fact, v \in Version : Claim(w, f, v) => TInv'
           /\ Renew(w) => TInv'
           /\ Ack(w) => TInv'
           /\ Fail(w) => TInv'
<1> USE DEF TInv, TypeOK
<1> DEFINE f == worker[w].fact
           v == worker[w].version
<1>0. {"claimed", "failing", "ack"} \subseteq Stage
  BY DEF Stage
<1>1. ASSUME NEW g \in Fact, NEW u \in Version, Claim(w, g, u)  PROVE TInv'
  <2>1. worker' \in [Worker -> Job] /\ ClaimInv'
    BY <1>0, <1>1, MovesTo DEF Claim
  <2>2. Leased(outbox[g][u], w) \in Event
    BY LeasedRow
  <2>3. outbox' = [outbox EXCEPT ![g][u] = Leased(outbox[g][u], w)]
    BY <1>1 DEF Claim
  <2> QED  BY <1>1, <2>1, <2>2, <2>3, RowStepKeepsTypes DEF Claim, dbVars
<1>2. ASSUME Renew(w)  PROVE TInv'
  <2>1. f \in Fact /\ v \in Version
    BY <1>2 DEF Renew, ClaimInv
  <2>2. [outbox[f][v] EXCEPT !.live = TRUE] \in Event
    <3>1. outbox[f][v] \in Event
      BY <2>1
    <3> QED  BY <3>1, OneFlag
  <2> QED  BY <1>2, <2>1, <2>2, RowStepKeepsTypes DEF Renew, ClaimInv, dbVars
<1>3. ASSUME Ack(w)  PROVE TInv'
  <2>1. f \in Fact /\ v \in Version
    BY <1>3 DEF Ack, ClaimInv
  <2>2. worker' \in [Worker -> Job] /\ ClaimInv'
    BY <1>0, <1>3, <2>1, MovesTo, GoesIdle DEF Ack
  <2>3. Acked(outbox[f][v]) \in Event
    BY <2>1, AckedRow
  <2>4. CASE UNCHANGED outbox
    BY <1>3, <2>2, <2>4 DEF Ack, HeadInv, dbVars
  <2>5. CASE outbox' = [outbox EXCEPT ![f][v] = Acked(@)]
    BY <1>3, <2>1, <2>2, <2>3, <2>5, RowStepKeepsTypes DEF Ack, dbVars
  <2> QED  BY <1>3, <2>4, <2>5 DEF Ack
<1>4. ASSUME Fail(w)  PROVE TInv'
  <2>1. f \in Fact /\ v \in Version
    BY <1>4 DEF Fail, ClaimInv
  <2>2. worker' \in [Worker -> Job] /\ ClaimInv'
    BY <1>4, GoesIdle DEF Fail
  <2>3. Failed(outbox[f][v]) \in Event
    BY <2>1, FailedRow
  <2>4. CASE UNCHANGED outbox
    BY <1>4, <2>2, <2>4 DEF Fail, HeadInv, dbVars
  <2>5. CASE outbox' = [outbox EXCEPT ![f][v] = Failed(@)]
    BY <1>4, <2>1, <2>2, <2>3, <2>5, RowStepKeepsTypes DEF Fail, dbVars
  <2> QED  BY <1>4, <2>4, <2>5 DEF Fail
<1> QED  BY <1>1, <1>2, <1>3, <1>4

\* The entry a worker is about to put.
LEMMA NewEntryFields ==
    ASSUME NEW w \in Worker, worker[w] \in Job, worker[w].target \in Version
    PROVE  /\ NewEntry(w) \in Entry
           /\ NewEntry(w).version = worker[w].target
           /\ NewEntry(w).refs = IF worker[w].seen = "invalidated" THEN {} ELSE {worker[w].target}
<1> DEFINE r == IF worker[w].seen = "invalidated" THEN {} ELSE {worker[w].target}
<1>1. r \in SUBSET Version
  OBVIOUS
<1> HIDE DEF r
<1>2. NewEntry(w) = [version |-> worker[w].target, refs |-> r]
  BY DEF NewEntry, r
<1>3. NewEntry(w) \in Entry /\ NewEntry(w).version = worker[w].target /\ NewEntry(w).refs = r
  BY <1>1, <1>2 DEF Entry
<1> QED  BY <1>3 DEF r

\* A worker that is projecting has a claim and, once it has read the head, a
\* revision to project.
LEMMA ProjectingFacts ==
    ASSUME TInv, WorkerInv, NEW w \in Worker, worker[w].stage # "idle"
    PROVE  /\ worker[w] \in Job
           /\ worker[w].fact \in Fact
           /\ worker[w].version \in Version
           /\ head[worker[w].fact] \in Version
           /\ worker[w].stage \in Reading => worker[w].target \in Version
  BY DEF TInv, TypeOK, ClaimInv, WorkerInv, Recalls, Version

\* The steps of a projection keep the types.
LEMMA ProjectionKeepsTypes ==
    ASSUME TInv, WorkerInv, NEW w \in Worker
    PROVE  /\ ReadHead(w) => TInv'
           /\ ReadState(w) => TInv'
           /\ CreateEpisode(w) => TInv'
           /\ DeleteOld(w) => TInv'
           /\ PutIfNewer(w) => TInv'
           /\ Raise(w) => TInv'
<1> USE DEF TInv, TypeOK
<1> DEFINE f == worker[w].fact
           v == worker[w].version
<1>0. {"create", "delete", "put", "failing", "ack"} \subseteq Stage
  BY DEF Stage
<1>1. worker[w].stage # "idle" => /\ worker[w] \in Job
                                  /\ f \in Fact
                                  /\ v \in Version
                                  /\ head[f] \in Version
                                  /\ worker[w].stage \in Reading => worker[w].target \in Version
  BY ProjectingFacts
<1>3. ASSUME ReadHead(w)  PROVE TInv'
  <2> DEFINE j == SawHead(worker[w], head[f], status[f])
  <2>1. worker' = [worker EXCEPT ![w] = j]
    BY <1>3 DEF ReadHead
  <2>2. worker[w].stage = "claimed"
    BY <1>3 DEF ReadHead
  <2>3. j \in Job /\ j.fact = f /\ j.version = v
    BY <1>1, <2>2, HeadRead
  <2> HIDE DEF j
  <2>4. worker' \in [Worker -> Job] /\ ClaimInv'
    BY <1>1, <2>1, <2>2, <2>3, OneJob
  <2> QED  BY <1>3, <2>4 DEF ReadHead, HeadInv, dbVars
<1>4. ASSUME ReadState(w)  PROVE TInv'
  <2>1. state[f] \in Entry
    BY <1>1, <1>4 DEF ReadState
  <2>2. worker' \in [Worker -> Job] /\ ClaimInv'
    <3>1. CASE worker' = [worker EXCEPT ![w] = Holding(f, v, "ack")]
      BY <1>0, <1>1, <1>4, <3>1, MovesTo DEF ReadState
    <3>2. CASE worker' = [worker EXCEPT ![w] = SawState(worker[w], state[f])]
      BY <1>1, <1>4, <2>1, <3>2, SawStateFields, OneJob DEF ReadState
    <3> QED  BY <1>4, <3>1, <3>2 DEF ReadState
  <2> QED  BY <1>4, <2>2 DEF ReadState, HeadInv, dbVars
<1>5. ASSUME CreateEpisode(w)  PROVE TInv'
  <2>1. worker' \in [Worker -> Job] /\ ClaimInv'
    BY <1>0, <1>1, <1>5, ReachedFields, OneJob DEF CreateEpisode
  <2>2. graph' \in [Fact -> SUBSET Version]
    BY <1>1, <1>5 DEF CreateEpisode, Reading
  <2> QED  BY <1>5, <2>1, <2>2 DEF CreateEpisode, HeadInv, dbVars
<1>6. ASSUME DeleteOld(w)  PROVE TInv'
  <2>1. worker' \in [Worker -> Job] /\ ClaimInv'
    BY <1>0, <1>1, <1>6, ReachedFields, OneJob DEF DeleteOld
  <2>2. graph' \in [Fact -> SUBSET Version]
    BY <1>1, <1>6 DEF DeleteOld
  <2> QED  BY <1>6, <2>1, <2>2 DEF DeleteOld, HeadInv, dbVars
<1>7. ASSUME PutIfNewer(w)  PROVE TInv'
  <2>1. worker' \in [Worker -> Job] /\ ClaimInv'
    BY <1>0, <1>1, <1>7, MovesTo DEF PutIfNewer
  <2>2. NewEntry(w) \in Entry
    BY <1>1, <1>7, NewEntryFields DEF PutIfNewer, Reading
  <2>3. state' \in [Fact -> Entry]
    BY <1>7, <2>2 DEF PutIfNewer
  <2> QED  BY <1>7, <2>1, <2>3 DEF PutIfNewer, HeadInv, dbVars
<1>8. ASSUME Raise(w)  PROVE TInv'
  <2>1. worker' \in [Worker -> Job] /\ ClaimInv'
    BY <1>0, <1>1, <1>8, MovesTo DEF Raise
  <2> QED  BY <1>8, <2>1 DEF Raise, HeadInv, dbVars
<1> QED  BY <1>3, <1>4, <1>5, <1>6, <1>7, <1>8

\* Time and faults.
LEMMA FaultsKeepTypes ==
    ASSUME TInv, NEW w \in Worker, NEW f \in Fact, NEW v \in Version
    PROVE  /\ Tick(f, v) => TInv'
           /\ Stall(w, f, v) => TInv'
           /\ Crash(w) => TInv'
           /\ FailLost(w) => TInv'
<1> USE DEF TInv, TypeOK
<1>1. outbox[f][v] \in Event
  OBVIOUS
<1>2. /\ [outbox[f][v] EXCEPT !.live = FALSE] \in Event
      /\ [outbox[f][v] EXCEPT !.available = TRUE] \in Event
  BY <1>1, OneFlag
<1>3. ASSUME RetryDue(f, v)  PROVE TInv'
  BY <1>2, <1>3, RowStepKeepsTypes DEF RetryDue, ClaimInv, dbVars
<1>4. ASSUME AbandonedLapses(f, v)  PROVE TInv'
  BY <1>2, <1>4, RowStepKeepsTypes DEF AbandonedLapses, LeaseLapses, ClaimInv, dbVars
<1>5. ASSUME faults < MaxFaults  PROVE faults + 1 \in 0..MaxFaults
  BY <1>5, ConstantsAssumption
<1>6. ASSUME Stall(w, f, v)  PROVE TInv'
  BY <1>2, <1>5, <1>6, RowStepKeepsTypes DEF Stall, LeaseLapses, ClaimInv, dbVars
<1>7. ASSUME Crash(w)  PROVE TInv'
  BY <1>5, <1>7, GoesIdle DEF Crash, HeadInv, dbVars
<1>8. ASSUME FailLost(w)  PROVE TInv'
  BY <1>5, <1>8, GoesIdle DEF FailLost, HeadInv, dbVars
<1> QED  BY <1>3, <1>4, <1>6, <1>7, <1>8 DEF Tick

-----------------------------------------------------------------------------
(* The outbox rows.                                                         *)

\* An update of one row keeps RowInv when it keeps the row's own part of it
\* and never unsettles the row.
LEMMA RowUpdateKeepsRows ==
    ASSUME outbox \in [Fact -> [Version -> Event]], RowInv,
           NEW f \in Fact, NEW v \in Version, NEW e \in Event,
           outbox' = [outbox EXCEPT ![f][v] = e],
           head' = head,
           e.emitted = outbox[f][v].emitted,
           Settled(f, v) => e.processed \/ e.dead,
           ~e.emitted => ~e.processed /\ ~e.dead,
           e.holder # NoWorker =>
                /\ e.emitted
                /\ ~(e.processed \/ e.dead)
                /\ \A u \in Version : u < v => Settled(f, u),
           e.live => e.holder # NoWorker,
           ~(e.processed /\ e.dead)
    PROVE  RowInv'
<1>1. /\ outbox'[f][v] = e
      /\ \A g \in Fact, u \in Version : (g # f \/ u # v) => outbox'[g][u] = outbox[g][u]
  BY OneRow
<1>2. \A g \in Fact, u \in Version : Settled(g, u) => Settled(g, u)'
  BY <1>1 DEF Settled
<1>3. ASSUME NEW g \in Fact, NEW u \in Version, g # f \/ u # v
      PROVE  LET row == outbox'[g][u]
             IN  /\ row.emitted <=> u <= head'[g]
                 /\ ~row.emitted => ~row.processed /\ ~row.dead
                 /\ row.holder # NoWorker =>
                         /\ row.emitted
                         /\ ~Settled(g, u)'
                         /\ \A x \in Version : x < u => Settled(g, x)'
                 /\ row.live => row.holder # NoWorker
                 /\ ~(row.processed /\ row.dead)
  <2>1. outbox'[g][u] = outbox[g][u]
    BY <1>1, <1>3
  <2>2. Settled(g, u)' <=> Settled(g, u)
    BY <2>1 DEF Settled
  <2> QED  BY <1>2, <2>1, <2>2 DEF RowInv
<1>4. LET row == outbox'[f][v]
      IN  /\ row.emitted <=> v <= head'[f]
          /\ ~row.emitted => ~row.processed /\ ~row.dead
          /\ row.holder # NoWorker =>
                  /\ row.emitted
                  /\ ~Settled(f, v)'
                  /\ \A x \in Version : x < v => Settled(f, x)'
          /\ row.live => row.holder # NoWorker
          /\ ~(row.processed /\ row.dead)
  <2>1. Settled(f, v)' <=> (e.processed \/ e.dead)
    BY <1>1 DEF Settled
  <2> QED  BY <1>1, <1>2, <2>1 DEF RowInv
<1> QED  BY <1>3, <1>4 DEF RowInv

\* The row a worker holds is emitted, unsettled and the oldest such of its fact.
LEMMA HeldRow ==
    ASSUME TInv, RowInv, NEW w \in Worker, worker[w].stage # "idle", Owns(w)
    PROVE  LET f == worker[w].fact
               v == worker[w].version
           IN  /\ f \in Fact
               /\ v \in Version
               /\ outbox[f][v].holder # NoWorker
               /\ outbox[f][v].emitted
               /\ ~Settled(f, v)
               /\ \A u \in Version : u < v => Settled(f, u)
  BY DEF TInv, ClaimInv, RowInv, Owns

\* The outbox operations of a worker keep the rows consistent.
LEMMA QueueKeepsRows ==
    ASSUME TInv, RowInv, NEW w \in Worker
    PROVE  /\ \A f \in Fact, v \in Version : Claim(w, f, v) => RowInv'
           /\ Renew(w) => RowInv'
           /\ Ack(w) => RowInv'
           /\ Fail(w) => RowInv'
<1> DEFINE f == worker[w].fact
           v == worker[w].version
<1>0. outbox \in [Fact -> [Version -> Event]] /\ NoWorker \notin Worker
  BY DEF TInv, TypeOK
<1>1. ASSUME NEW g \in Fact, NEW u \in Version, Claim(w, g, u)  PROVE RowInv'
  <2> DEFINE e == Leased(outbox[g][u], w)
  <2>1. outbox' = [outbox EXCEPT ![g][u] = e] /\ head' = head /\ Claimable(g, u)
    BY <1>1 DEF Claim, dbVars
  <2>2. outbox[g][u] \in Event
    BY <1>0
  <2>3. e \in Event /\ e.holder = w
    BY <2>2, LeasedRow
  <2>4. e.emitted = outbox[g][u].emitted /\ e.processed = outbox[g][u].processed
    BY <2>2, LeasedRow
  <2>5. e.dead = outbox[g][u].dead
    BY <2>2, LeasedRow
  <2> HIDE DEF e
  <2>6. outbox[g][u].emitted /\ ~Settled(g, u) /\ \A x \in Version : x < u => Settled(g, x)
    BY <2>1 DEF Claimable
  <2> QED  BY <1>0, <2>1, <2>3, <2>4, <2>5, <2>6, RowUpdateKeepsRows DEF Settled
<1>2. ASSUME Renew(w)  PROVE RowInv'
  <2> DEFINE e == [outbox[f][v] EXCEPT !.live = TRUE]
  <2>1. outbox' = [outbox EXCEPT ![f][v] = e] /\ head' = head /\ Owns(w)
        /\ worker[w].stage # "idle"
    BY <1>2 DEF Renew, dbVars
  <2>2. /\ f \in Fact /\ v \in Version /\ outbox[f][v].holder # NoWorker
        /\ outbox[f][v].emitted /\ ~Settled(f, v) /\ \A x \in Version : x < v => Settled(f, x)
    BY <2>1, HeldRow
  <2>3. outbox[f][v] \in Event
    BY <1>0, <2>2
  <2>4. e \in Event /\ e.live /\ e.holder = outbox[f][v].holder
        /\ e.emitted = outbox[f][v].emitted /\ e.processed = outbox[f][v].processed
        /\ e.dead = outbox[f][v].dead
    BY <2>3 DEF Event
  <2> HIDE DEF e
  <2> QED  BY <1>0, <2>1, <2>2, <2>4, RowUpdateKeepsRows DEF Settled
<1>3. ASSUME Ack(w)  PROVE RowInv'
  <2>1. CASE UNCHANGED outbox
    BY <1>3, <2>1 DEF Ack, dbVars, RowInv, Settled
  <2>2. CASE Owns(w) /\ outbox' = [outbox EXCEPT ![f][v] = Acked(outbox[f][v])]
    <3> DEFINE e == Acked(outbox[f][v])
    <3>1. outbox' = [outbox EXCEPT ![f][v] = e] /\ head' = head /\ worker[w].stage # "idle"
      BY <1>3, <2>2 DEF Ack, dbVars
    <3>2. f \in Fact /\ v \in Version /\ outbox[f][v].emitted /\ ~Settled(f, v)
      BY <2>2, <3>1, HeldRow
    <3>3. outbox[f][v] \in Event
      BY <1>0, <3>2
    <3>4. e \in Event /\ e.holder = NoWorker /\ ~e.live /\ e.processed
      BY <3>3, AckedRow
    <3>5. e.emitted = outbox[f][v].emitted /\ e.dead = outbox[f][v].dead
      BY <3>3, AckedRow
    <3> HIDE DEF e
    <3> QED  BY <1>0, <3>1, <3>2, <3>4, <3>5, RowUpdateKeepsRows DEF Settled
  <2> QED  BY <1>3, <2>1, <2>2 DEF Ack
<1>4. ASSUME Fail(w)  PROVE RowInv'
  <2>1. CASE UNCHANGED outbox
    BY <1>4, <2>1 DEF Fail, dbVars, RowInv, Settled
  <2>2. CASE Owns(w) /\ outbox' = [outbox EXCEPT ![f][v] = Failed(outbox[f][v])]
    <3> DEFINE e == Failed(outbox[f][v])
    <3>1. outbox' = [outbox EXCEPT ![f][v] = e] /\ head' = head /\ worker[w].stage # "idle"
      BY <1>4, <2>2 DEF Fail, dbVars
    <3>2. f \in Fact /\ v \in Version /\ outbox[f][v].emitted /\ ~Settled(f, v)
      BY <2>2, <3>1, HeldRow
    <3>3. outbox[f][v] \in Event
      BY <1>0, <3>2
    <3>4. e \in Event /\ e.holder = NoWorker /\ ~e.live
      BY <3>3, FailedRow
    <3>5. e.emitted = outbox[f][v].emitted /\ e.processed = outbox[f][v].processed
      BY <3>3, FailedRow
    <3> HIDE DEF e
    <3> QED  BY <1>0, <3>1, <3>2, <3>4, <3>5, RowUpdateKeepsRows DEF Settled
  <2> QED  BY <1>4, <2>1, <2>2 DEF Fail
<1> QED  BY <1>1, <1>2, <1>3, <1>4

\* Time and faults keep the rows consistent.
LEMMA FaultsKeepRows ==
    ASSUME TInv, RowInv, NEW w \in Worker, NEW f \in Fact, NEW v \in Version
    PROVE  /\ Tick(f, v) => RowInv'
           /\ Stall(w, f, v) => RowInv'
           /\ Crash(w) => RowInv'
           /\ FailLost(w) => RowInv'
<1>0. outbox \in [Fact -> [Version -> Event]] /\ outbox[f][v] \in Event
  BY DEF TInv, TypeOK
<1>1. ASSUME RetryDue(f, v)  PROVE RowInv'
  <2> DEFINE e == [outbox[f][v] EXCEPT !.available = TRUE]
  <2>1. outbox' = [outbox EXCEPT ![f][v] = e] /\ head' = head
    BY <1>1 DEF RetryDue, dbVars
  <2>2. e \in Event /\ e.live = outbox[f][v].live /\ e.holder = outbox[f][v].holder
        /\ e.emitted = outbox[f][v].emitted /\ e.processed = outbox[f][v].processed
        /\ e.dead = outbox[f][v].dead
    BY <1>0 DEF Event
  <2> HIDE DEF e
  <2> QED  BY <1>0, <2>1, <2>2, RowUpdateKeepsRows DEF Settled, RowInv
<1>2. ASSUME LeaseLapses(f, v), head' = head  PROVE RowInv'
  <2> DEFINE e == [outbox[f][v] EXCEPT !.live = FALSE]
  <2>1. outbox' = [outbox EXCEPT ![f][v] = e] /\ head' = head
    BY <1>2 DEF LeaseLapses
  <2>2. e \in Event /\ ~e.live /\ e.holder = outbox[f][v].holder
        /\ e.emitted = outbox[f][v].emitted /\ e.processed = outbox[f][v].processed
        /\ e.dead = outbox[f][v].dead
    BY <1>0 DEF Event
  <2> HIDE DEF e
  <2> QED  BY <1>0, <2>1, <2>2, RowUpdateKeepsRows DEF Settled, RowInv
<1>3. ASSUME UNCHANGED <<head, outbox>>  PROVE RowInv'
  BY <1>3 DEF RowInv, Settled
<1> QED  BY <1>1, <1>2, <1>3 DEF Tick, AbandonedLapses, Stall, Crash, FailLost, dbVars

\* A projection reads the rows and never writes them.
LEMMA ProjectionKeepsRows ==
    ASSUME RowInv, NEW w \in Worker,
           \/ ReadHead(w) \/ ReadState(w) \/ CreateEpisode(w)
           \/ DeleteOld(w) \/ PutIfNewer(w) \/ Raise(w)
    PROVE  RowInv'
<1>1. UNCHANGED <<head, outbox>>
  BY DEF ReadHead, ReadState, CreateEpisode, DeleteOld, PutIfNewer, Raise, dbVars
<1> QED  BY <1>1 DEF RowInv, Settled

\* What a committed write does.
LEMMA WriteEffect ==
    ASSUME TInv, NEW f \in Fact, Write(f)
    PROVE  /\ head[f] + 1 \in Version
           /\ head' = [head EXCEPT ![f] = head[f] + 1]
           /\ status[f] # "invalidated"
           /\ \E s \in Status : status' = [status EXCEPT ![f] = s]
           /\ outbox' = [outbox EXCEPT ![f][head[f] + 1] = FreshEvent]
           /\ UNCHANGED <<state, graph, worker, faults>>
<1>1. head[f] + 1 \in Version
  BY RoomForRevision DEF TInv, Write, CreateFact, PromoteFact, InvalidateFact
<1> QED
  BY <1>1 DEF Write, CreateFact, PromoteFact, InvalidateFact, NewRevision, EmitEvent, Status

\* A write, which adds a fresh row, keeps the rows consistent.
LEMMA WriteKeepsRows ==
    ASSUME TInv, RowInv, NEW f \in Fact, Write(f)
    PROVE  RowInv'
<1> DEFINE n == head[f] + 1
<1>1. /\ n \in Version /\ head' = [head EXCEPT ![f] = n]
      /\ outbox' = [outbox EXCEPT ![f][n] = FreshEvent]
  BY WriteEffect
<1>2. head \in [Fact -> {0} \cup Version] /\ outbox \in [Fact -> [Version -> Event]]
      /\ FreshEvent \in Event
  BY ConstantRecords DEF TInv, TypeOK
<1>3. /\ outbox'[f][n] = FreshEvent
      /\ \A g \in Fact, u \in Version : (g # f \/ u # n) => outbox'[g][u] = outbox[g][u]
  BY <1>1, <1>2, OneRow
<1>4. head'[f] = n /\ \A g \in Fact : g # f => head'[g] = head[g]
  BY <1>1, <1>2
<1>5. ~outbox[f][n].emitted /\ ~Settled(f, n)
  <2>1. ~(n <= head[f])
    BY <1>2 DEF Version
  <2> QED  BY <1>1, <2>1 DEF RowInv, Settled
<1>6. \A g \in Fact, u \in Version : Settled(g, u)' <=> Settled(g, u)
  BY <1>3, <1>5 DEF Settled, FreshEvent
<1>7. ASSUME NEW g \in Fact, NEW u \in Version
      PROVE  LET row == outbox'[g][u]
             IN  /\ row.emitted <=> u <= head'[g]
                 /\ ~row.emitted => ~row.processed /\ ~row.dead
                 /\ row.holder # NoWorker =>
                         /\ row.emitted
                         /\ ~Settled(g, u)'
                         /\ \A x \in Version : x < u => Settled(g, x)'
                 /\ row.live => row.holder # NoWorker
                 /\ ~(row.processed /\ row.dead)
  <2>1. CASE g = f /\ u = n
    BY <1>3, <1>4, <2>1 DEF FreshEvent, Version
  <2>2. CASE g # f
    BY <1>3, <1>4, <1>6, <2>2 DEF RowInv
  <2>3. CASE g = f /\ u # n
    <3>1. u <= head'[f] <=> u <= head[f]
      BY <1>2, <1>4, <2>3 DEF Version
    <3> QED  BY <1>3, <1>6, <2>3, <3>1 DEF RowInv
  <2> QED  BY <2>1, <2>2, <2>3
<1> QED  BY <1>7 DEF RowInv

-----------------------------------------------------------------------------
(* The projection.                                                          *)

\* What no step undoes: heads and projection states only grow, a revision of
\* an invalidated fact is its last, and only superseded episodes are deleted.
OnlyForward ==
    \A f \in Fact :
        /\ head[f] <= head'[f]
        /\ state[f].version <= state'[f].version
        /\ status[f] = "invalidated" => status'[f] = "invalidated" /\ head'[f] = head[f]
        /\ status'[f] = "invalidated" => status[f] = "invalidated" \/ head[f] < head'[f]
        /\ \A r \in graph[f] : r \in graph'[f] \/ r < head'[f]

\* A worker's stale memory stays as sound as it was while others move.
LEMMA ForwardKeepsMemory ==
    ASSUME TInv, TInv', NEW w \in Worker, Recalls(w), OnlyForward, worker'[w] = worker[w]
    PROVE  Recalls(w)'
<1> DEFINE job == worker[w]
           f == job.fact
<1>1. CASE job.stage = "idle"
  BY <1>1 DEF Recalls, Reading, Projecting
<1>2. CASE job.stage # "idle"
  <2>1. f \in Fact /\ job \in Job
    BY <1>2 DEF TInv, TypeOK, ClaimInv
  <2>2. /\ head[f] \in 0..3 /\ head'[f] \in 0..3 /\ job.version \in 0..3 /\ job.target \in 0..3
        /\ state[f].version \in 0..3 /\ state'[f].version \in 0..3
    BY <2>1 DEF TInv, TypeOK, Job, Entry, Version
  <2>3. /\ head[f] <= head'[f]
        /\ state[f].version <= state'[f].version
        /\ status[f] = "invalidated" => status'[f] = "invalidated" /\ head'[f] = head[f]
        /\ status'[f] = "invalidated" => status[f] = "invalidated" \/ head[f] < head'[f]
        /\ job.target \in graph[f] => job.target \in graph'[f] \/ job.target < head'[f]
    BY <2>1 DEF OnlyForward
  <2>4. job.stage # "idle" => job.version <= head'[f]
    BY <2>2, <2>3 DEF Recalls
  <2>5. job.stage \in Reading =>
            /\ job.target \in Version
            /\ job.version <= job.target
            /\ job.target <= head'[f]
            /\ job.seen = "invalidated" =>
                    status'[f] = "invalidated" /\ job.target = head'[f]
            /\ (job.seen # "invalidated" /\ status'[f] = "invalidated") =>
                    job.target < head'[f]
    BY <2>2, <2>3 DEF Recalls
  <2>6. job.stage \in Projecting =>
            /\ job.old.version < job.target
            /\ job.old.refs \subseteq {job.old.version}
    BY DEF Recalls
  <2>7. (job.stage \in {"delete", "put"} /\ job.seen # "invalidated") =>
            job.target \in graph'[f] \/ job.target < head'[f]
    BY <2>2, <2>3 DEF Recalls
  <2>8. job.stage = "ack" => job.version <= state'[f].version
    BY <2>2, <2>3 DEF Recalls
  <2>9. job.stage = "create" => job.seen # "invalidated"
    BY DEF Recalls
  <2> QED  BY <2>4, <2>5, <2>6, <2>7, <2>8, <2>9 DEF Recalls
<1> QED  BY <1>1, <1>2

\* A step that only adds episodes moves forward.
LEMMA StillForward ==
    ASSUME TInv, UNCHANGED <<head, status, state>>,
           \A f \in Fact : graph[f] \subseteq graph'[f]
    PROVE  OnlyForward
  BY DEF OnlyForward, TInv, TypeOK, Entry, Version

\* A write moves forward.
LEMMA WriteForward ==
    ASSUME TInv, NEW f \in Fact, Write(f)
    PROVE  OnlyForward
<1>1. PICK s \in Status : status' = [status EXCEPT ![f] = s]
  BY WriteEffect
<1>2. /\ head' = [head EXCEPT ![f] = head[f] + 1] /\ status[f] # "invalidated"
      /\ UNCHANGED <<state, graph>>
  BY WriteEffect
<1>3. /\ head \in [Fact -> 0..3] /\ status \in [Fact -> Status]
      /\ \A g \in Fact : state[g].version \in 0..3
  BY DEF TInv, TypeOK, Version, Entry
<1> QED  BY <1>1, <1>2, <1>3 DEF OnlyForward

\* Deleting replaced episodes moves forward: none of them is the head's.
LEMMA DeleteForward ==
    ASSUME TInv, WorkerInv, NEW w \in Worker, DeleteOld(w)
    PROVE  OnlyForward
<1> DEFINE f == worker[w].fact
<1>1. /\ f \in Fact /\ worker[w].target \in Version /\ head[f] \in Version
      /\ worker[w] \in Job
  BY ProjectingFacts DEF DeleteOld, Reading
<1>2. /\ worker[w].old.version < worker[w].target
      /\ worker[w].target <= head[f]
      /\ worker[w].old.refs \subseteq {worker[w].old.version}
  BY DEF WorkerInv, Recalls, DeleteOld, Reading, Projecting
<1>3. /\ graph' = [graph EXCEPT ![f] = graph[f] \ worker[w].old.refs]
      /\ UNCHANGED <<head, status, state>>
  BY DEF DeleteOld, dbVars
<1>4. worker[w].old.version \in 0..3 /\ \A g \in Fact : state[g].version \in 0..3
  BY <1>1 DEF TInv, TypeOK, Job, Entry, Version
<1>5. \A r \in worker[w].old.refs : r < head[f]
  BY <1>1, <1>2, <1>4 DEF Version
<1>6. graph \in [Fact -> SUBSET Version] /\ head \in [Fact -> 0..3]
  BY DEF TInv, TypeOK, Version
<1> QED  BY <1>1, <1>3, <1>4, <1>5, <1>6 DEF OnlyForward

\* What put_if_newer does to the state of its fact.
LEMMA PutEffect ==
    ASSUME TInv, WorkerInv, NEW w \in Worker, PutIfNewer(w)
    PROVE  LET f == worker[w].fact
           IN  /\ f \in Fact
               /\ worker[w] \in Job
               /\ worker[w].target \in Version
               /\ NewEntry(w).version = worker[w].target
               /\ NewEntry(w).refs = IF worker[w].seen = "invalidated" THEN {} ELSE {worker[w].target}
               /\ state' = [state EXCEPT ![f] = IF worker[w].target > state[f].version
                                               THEN NewEntry(w) ELSE state[f]]
               /\ UNCHANGED <<head, status, graph, outbox>>
  BY ProjectingFacts, NewEntryFields DEF PutIfNewer, Reading, dbVars

\* put_if_newer moves forward.
LEMMA PutForward ==
    ASSUME TInv, WorkerInv, NEW w \in Worker, PutIfNewer(w)
    PROVE  OnlyForward
<1> DEFINE f == worker[w].fact
<1>1. /\ f \in Fact /\ worker[w].target \in Version /\ NewEntry(w).version = worker[w].target
      /\ state' = [state EXCEPT ![f] = IF worker[w].target > state[f].version
                                      THEN NewEntry(w) ELSE state[f]]
      /\ UNCHANGED <<head, status, graph>>
  BY PutEffect
<1>2. state \in [Fact -> Entry] /\ \A g \in Fact : state[g].version \in 0..3 /\ head[g] \in 0..3
  BY DEF TInv, TypeOK, Entry, Version
<1>3. \A g \in Fact : state[g].version <= state'[g].version
  BY <1>1, <1>2 DEF Version
<1> QED  BY <1>1, <1>2, <1>3 DEF OnlyForward

\* A worker that keeps only its claim has nothing to be wrong about, except
\* that it must not be about to acknowledge what is not in the index.
LEMMA HoldingRecalls ==
    ASSUME TInv, TInv', NEW w \in Worker, NEW f \in Fact, NEW v \in Version, NEW s \in Stage,
           worker' = [worker EXCEPT ![w] = Holding(f, v, s)],
           v <= head'[f],
           s \in {"claimed", "ack", "failing"},
           s = "ack" => v <= state'[f].version
    PROVE  Recalls(w)'
<1>1. worker'[w] = Holding(f, v, s)
  BY MovesTo DEF TInv, TypeOK
<1>2. worker'[w].stage = s /\ worker'[w].fact = f /\ worker'[w].version = v
  BY <1>1, HoldingFields
<1> QED  BY <1>2 DEF Recalls, Reading, Projecting

\* An idle worker remembers nothing that could be wrong.
LEMMA IdleRecalls ==
    ASSUME TInv, NEW w \in Worker, worker' = [worker EXCEPT ![w] = Idle]
    PROVE  Recalls(w)'
<1>1. worker'[w].stage = "idle"
  BY GoesIdle, ConstantRecords DEF TInv, TypeOK
<1> QED  BY <1>1 DEF Recalls, Reading, Projecting

\* Each step of a projection leaves its worker with a sound memory.
LEMMA StepRecalls ==
    ASSUME TInv, TInv', RowInv, WorkerInv, StateInv, NEW w \in Worker
    PROVE  /\ ReadHead(w) => Recalls(w)'
           /\ ReadState(w) => Recalls(w)'
           /\ CreateEpisode(w) => Recalls(w)'
           /\ DeleteOld(w) => Recalls(w)'
           /\ PutIfNewer(w) => Recalls(w)'
<1> DEFINE job == worker[w]
           f == job.fact
           v == job.version
<1>1. job.stage # "idle" => /\ job \in Job
                            /\ f \in Fact
                            /\ v \in Version
                            /\ head[f] \in Version
                            /\ job.stage \in Reading => job.target \in Version
  BY ProjectingFacts
<1>2. worker \in [Worker -> Job] /\ ClaimInv /\ {"delete", "put", "ack"} \subseteq Stage
  BY DEF TInv, TypeOK, Stage
<1>3. ASSUME ReadHead(w)  PROVE Recalls(w)'
  <2> DEFINE j == SawHead(job, head[f], status[f])
  <2>1. worker' = [worker EXCEPT ![w] = j] /\ UNCHANGED <<head, status>>
        /\ job.stage = "claimed"
    BY <1>3 DEF ReadHead, dbVars
  <2>2. TypeOK /\ job \in Job /\ f \in Fact
    BY <1>1, <2>1 DEF TInv
  <2>3. j.stage = "read" /\ j.fact = f /\ j.version = v /\ j.target = head[f] /\ j.seen = status[f]
    BY <2>2, HeadRead
  <2>4. v <= head[f]
    BY <2>1 DEF WorkerInv, Recalls
  <2> HIDE DEF j
  <2>5. worker'[w] = j
    BY <1>2, <2>1
  <2> QED  BY <1>1, <2>1, <2>3, <2>4, <2>5 DEF Recalls, Reading, Projecting, Version
<1>4. ASSUME ReadState(w)  PROVE Recalls(w)'
  <2>1. /\ job.stage = "read" /\ job.target \in Version /\ f \in Fact /\ v \in Version
        /\ UNCHANGED <<head, status, state>>
    BY <1>1, <1>4 DEF ReadState, Reading, dbVars
  <2>2. v <= head[f] /\ v <= job.target
    BY <2>1 DEF WorkerInv, Recalls, Reading
  <2>3. CASE /\ state[f].version >= job.target
             /\ worker' = [worker EXCEPT ![w] = Holding(f, v, "ack")]
    <3>1. v <= state[f].version
      <4>1. state[f].version \in 0..3
        BY <2>1 DEF TInv, TypeOK, Entry, Version
      <4> QED  BY <2>1, <2>2, <2>3, <4>1 DEF Version
    <3> QED  BY <1>2, <2>1, <2>2, <2>3, <3>1, HoldingRecalls
  <2>4. CASE /\ state[f].version < job.target
             /\ worker' = [worker EXCEPT ![w] = SawState(job, state[f])]
    <3> DEFINE j == SawState(job, state[f])
    <3>1. job \in Job /\ state[f] \in Entry
      BY <2>1, <1>1 DEF TInv, TypeOK
    <3>2. j.stage = IF job.seen = "invalidated" THEN "delete" ELSE "create"
      BY <3>1, SawStateFields
    <3>3. j.fact = f /\ j.version = v /\ j.target = job.target
      BY <3>1, SawStateFields
    <3>4. j.seen = job.seen /\ j.old = state[f]
      BY <3>1, SawStateFields
    <3> HIDE DEF j
    <3>5. worker'[w] = j
      BY <1>2, <2>4 DEF j
    <3>6. state[f].refs \subseteq {state[f].version}
      BY <2>1 DEF StateInv
    <3> QED  BY <2>1, <2>2, <2>4, <3>2, <3>3, <3>4, <3>5, <3>6
             DEF WorkerInv, Recalls, Reading, Projecting
  <2> QED  BY <1>4, <2>3, <2>4 DEF ReadState
<1>5. ASSUME CreateEpisode(w)  PROVE Recalls(w)'
  <2> DEFINE j == Reached(job, "delete")
  <2>1. /\ job.stage = "create" /\ job \in Job /\ f \in Fact
        /\ graph' = [graph EXCEPT ![f] = graph[f] \cup {job.target}]
        /\ worker' = [worker EXCEPT ![w] = j]
        /\ UNCHANGED <<head, status, state>>
    BY <1>1, <1>5 DEF CreateEpisode, dbVars
  <2>2. /\ j.stage = "delete" /\ j.fact = f /\ j.version = v /\ j.target = job.target
    BY <1>2, <2>1, ReachedFields
  <2>3. j.seen = job.seen /\ j.old = job.old
    BY <1>2, <2>1, ReachedFields
  <2> HIDE DEF j
  <2>4. worker'[w] = j
    BY <1>2, <2>1
  <2>5. job.target \in graph'[f]
    BY <2>1 DEF TInv, TypeOK
  <2> QED  BY <2>1, <2>2, <2>3, <2>4, <2>5 DEF WorkerInv, Recalls, Reading, Projecting
<1>6. ASSUME DeleteOld(w)  PROVE Recalls(w)'
  <2> DEFINE j == Reached(job, "put")
  <2>1. /\ job.stage = "delete" /\ job \in Job /\ f \in Fact /\ job.target \in Version
        /\ graph' = [graph EXCEPT ![f] = graph[f] \ job.old.refs]
        /\ worker' = [worker EXCEPT ![w] = j]
        /\ UNCHANGED <<head, status, state>>
    BY <1>1, <1>6 DEF DeleteOld, dbVars, Reading
  <2>2. /\ j.stage = "put" /\ j.fact = f /\ j.version = v /\ j.target = job.target
    BY <1>2, <2>1, ReachedFields
  <2>3. j.seen = job.seen /\ j.old = job.old
    BY <1>2, <2>1, ReachedFields
  <2> HIDE DEF j
  <2>4. worker'[w] = j
    BY <1>2, <2>1
  <2>5. job.old.version < job.target /\ job.old.refs \subseteq {job.old.version}
    BY <2>1 DEF WorkerInv, Recalls, Projecting
  <2>6. job.target \in graph[f] => job.target \in graph'[f]
    <3>1. job.old.version \in 0..3
      BY <2>1 DEF Job, Entry, Version
    <3>2. job.target \notin job.old.refs
      BY <2>1, <2>5, <3>1 DEF Version
    <3> QED  BY <2>1, <3>2 DEF TInv, TypeOK
  <2> QED  BY <2>1, <2>2, <2>3, <2>4, <2>5, <2>6 DEF WorkerInv, Recalls, Reading, Projecting
<1>7. ASSUME PutIfNewer(w)  PROVE Recalls(w)'
  <2>1. /\ job.stage = "put" /\ f \in Fact /\ v \in Version /\ job.target \in Version
        /\ worker' = [worker EXCEPT ![w] = Holding(f, v, "ack")]
        /\ UNCHANGED <<head, status>>
    BY <1>1, <1>7 DEF PutIfNewer, dbVars, Reading
  <2>2. v <= head[f] /\ v <= job.target
    BY <2>1 DEF WorkerInv, Recalls, Reading
  <2>3. NewEntry(w).version = job.target
        /\ state' = [state EXCEPT ![f] = IF job.target > state[f].version
                                        THEN NewEntry(w) ELSE state[f]]
    BY <1>7, PutEffect
  <2>4. state \in [Fact -> Entry] /\ state[f].version \in 0..3
    BY <2>1 DEF TInv, TypeOK, Entry, Version
  <2>5. v <= state'[f].version
    BY <2>1, <2>2, <2>3, <2>4 DEF Version
  <2> QED  BY <1>2, <2>1, <2>2, <2>5, HoldingRecalls
<1> QED  BY <1>3, <1>4, <1>5, <1>6, <1>7

\* So every step of worker w keeps every worker's memory sound.
LEMMA OneWorkerMoves ==
    ASSUME TInv, TInv', WorkerInv, OnlyForward, NEW w \in Worker,
           \A x \in Worker : x # w => worker'[x] = worker[x],
           Recalls(w)'
    PROVE  WorkerInv'
<1>1. ASSUME NEW x \in Worker, x # w  PROVE Recalls(x)'
  BY <1>1, ForwardKeepsMemory DEF WorkerInv
<1> QED  BY <1>1 DEF WorkerInv

\* A forward step that moves no worker leaves every memory true.
LEMMA NoWorkerMoves ==
    ASSUME TInv, TInv', WorkerInv, OnlyForward, UNCHANGED worker
    PROVE  WorkerInv'
<1>1. ASSUME NEW x \in Worker  PROVE Recalls(x)'
  BY <1>1, ForwardKeepsMemory DEF WorkerInv
<1> QED  BY <1>1 DEF WorkerInv

\* The steps of a projection leave every worker's memory true.
LEMMA ProjectionKeepsMemory ==
    ASSUME TInv, TInv', RowInv, WorkerInv, StateInv, NEW w \in Worker,
           \/ ReadHead(w) \/ ReadState(w) \/ CreateEpisode(w)
           \/ DeleteOld(w) \/ PutIfNewer(w)
    PROVE  WorkerInv' /\ OnlyForward
<1>1. Recalls(w)'
  BY StepRecalls
<1>2. \A x \in Worker : x # w => worker'[x] = worker[x]
  BY DEF TInv, TypeOK, ReadHead, ReadState, CreateEpisode, DeleteOld, PutIfNewer
<1>3. OnlyForward
  <2>1. CASE ReadHead(w) \/ ReadState(w)
    BY <2>1, StillForward DEF ReadHead, ReadState, dbVars
  <2>2. CASE CreateEpisode(w)
    <3>1. \A f \in Fact : graph[f] \subseteq graph'[f]
      BY <2>2 DEF CreateEpisode, TInv, TypeOK
    <3> QED  BY <2>2, <3>1, StillForward DEF CreateEpisode, dbVars
  <2> QED  BY <2>1, <2>2, DeleteForward, PutForward
<1> QED  BY <1>1, <1>2, <1>3, OneWorkerMoves

\* The queue, the clock and the faults leave the tables and the graph alone.
LEMMA QueueForward ==
    ASSUME TInv, UNCHANGED <<head, status, state, graph>>
    PROVE  OnlyForward
  BY StillForward

\* The queue, time and faults leave every worker's memory true.
LEMMA QueueKeepsMemory ==
    ASSUME TInv, TInv', RowInv, WorkerInv, NEW w \in Worker, NEW f \in Fact, NEW v \in Version,
           \/ Claim(w, f, v) \/ Renew(w) \/ Ack(w) \/ Fail(w) \/ Raise(w)
           \/ Tick(f, v) \/ Stall(w, f, v) \/ Crash(w) \/ FailLost(w)
    PROVE  WorkerInv' /\ OnlyForward
<1>1. OnlyForward /\ UNCHANGED <<head, state>>
  BY QueueForward DEF Claim, Renew, Ack, Fail, Raise, Tick, RetryDue, AbandonedLapses, Stall,
                      Crash, FailLost, dbVars
<1>2. worker \in [Worker -> Job] /\ {"claimed", "failing"} \subseteq Stage
  BY DEF TInv, TypeOK, Stage
<1>3. CASE UNCHANGED worker
  BY <1>1, <1>3, NoWorkerMoves
<1>4. CASE worker' = [worker EXCEPT ![w] = Idle]
  <2>1. Recalls(w)'
    BY <1>4, IdleRecalls
  <2>2. \A x \in Worker : x # w => worker'[x] = worker[x]
    BY <1>2, <1>4
  <2> QED  BY <1>1, <2>1, <2>2, OneWorkerMoves
<1>5. CASE Claim(w, f, v)
  <2>1. worker' = [worker EXCEPT ![w] = Holding(f, v, "claimed")] /\ outbox[f][v].emitted
    BY <1>5 DEF Claim, Claimable
  <2>2. v <= head'[f]
    BY <1>1, <2>1 DEF RowInv
  <2>3. Recalls(w)'
    BY <1>2, <2>1, <2>2, HoldingRecalls
  <2>4. \A x \in Worker : x # w => worker'[x] = worker[x]
    BY <1>2, <2>1
  <2> QED  BY <1>1, <2>3, <2>4, OneWorkerMoves
<1>6. CASE /\ worker[w].stage # "idle"
           /\ worker' = [worker EXCEPT ![w] = Holding(worker[w].fact, worker[w].version, "failing")]
  <2>1. worker[w].fact \in Fact /\ worker[w].version \in Version
    BY <1>6 DEF TInv, ClaimInv
  <2>2. worker[w].version <= head'[worker[w].fact]
    BY <1>1, <1>6 DEF WorkerInv, Recalls
  <2>3. Recalls(w)'
    BY <1>2, <1>6, <2>1, <2>2, HoldingRecalls
  <2>4. \A x \in Worker : x # w => worker'[x] = worker[x]
    BY <1>2, <1>6
  <2> QED  BY <1>1, <2>3, <2>4, OneWorkerMoves
<1> QED
  BY <1>1, <1>3, <1>4, <1>5, <1>6
  DEF Renew, Ack, Fail, Raise, Tick, RetryDue, AbandonedLapses, Stall, Crash, FailLost

\* A write leaves every worker's memory true.
LEMMA WriteKeepsMemory ==
    ASSUME TInv, TInv', WorkerInv, NEW f \in Fact, Write(f)
    PROVE  WorkerInv' /\ OnlyForward
  BY WriteForward, WriteEffect, NoWorkerMoves

-----------------------------------------------------------------------------
(* The projection state and what it promises.                               *)

\* Steps that leave the projection state alone keep its invariant.
LEMMA SameStateInv ==
    ASSUME TInv, TInv', StateInv, OnlyForward, UNCHANGED state
    PROVE  StateInv'
<1>1. \A f \in Fact : head[f] \in 0..3 /\ head'[f] \in 0..3 /\ state[f].version \in 0..3
  BY DEF TInv, TypeOK, Entry, Version
<1> QED  BY <1>1 DEF StateInv, OnlyForward

\* put_if_newer never names a revision past the head.
LEMMA PutKeepsState ==
    ASSUME TInv, WorkerInv, StateInv, NEW w \in Worker, PutIfNewer(w)
    PROVE  StateInv'
<1> DEFINE f == worker[w].fact
           e == NewEntry(w)
<1>1. /\ f \in Fact /\ worker[w].target \in Version /\ e.version = worker[w].target
      /\ e.refs = IF worker[w].seen = "invalidated" THEN {} ELSE {worker[w].target}
      /\ state' = [state EXCEPT ![f] = IF worker[w].target > state[f].version
                                      THEN e ELSE state[f]]
      /\ head' = head
  BY PutEffect
<1> HIDE DEF e
<1>2. e.version <= head[f] /\ e.refs \subseteq {e.version}
  BY <1>1 DEF PutIfNewer, WorkerInv, Recalls, Reading
<1>3. state \in [Fact -> Entry]
  BY DEF TInv, TypeOK
<1> QED  BY <1>1, <1>2, <1>3 DEF StateInv

\* A forward step that acknowledges only what is indexed keeps AckedMeansIndexed.
LEMMA SameAcked ==
    ASSUME TInv, TInv', AckedMeansIndexed, OnlyForward,
           \A f \in Fact, v \in Version :
               outbox'[f][v].processed => outbox[f][v].processed \/ v <= state'[f].version
    PROVE  AckedMeansIndexed'
<1>1. \A f \in Fact : state[f].version \in 0..3 /\ state'[f].version \in 0..3
                      /\ state[f].version <= state'[f].version
  BY DEF TInv, TypeOK, Entry, Version, OnlyForward
<1> QED  BY <1>1 DEF AckedMeansIndexed, Version

\* Only an acknowledgement marks a row processed, and its worker made sure.
LEMMA QueueKeepsAcked ==
    ASSUME TInv, WorkerInv, NEW w \in Worker, NEW f \in Fact, NEW v \in Version,
           \/ Claim(w, f, v) \/ Renew(w) \/ Ack(w) \/ Fail(w) \/ Raise(w)
           \/ Tick(f, v) \/ Stall(w, f, v) \/ Crash(w) \/ FailLost(w)
    PROVE  \A g \in Fact, u \in Version :
               outbox'[g][u].processed => outbox[g][u].processed \/ u <= state'[g].version
<1>1. outbox \in [Fact -> [Version -> Event]]
  BY DEF TInv, TypeOK
<1>2. worker[w].stage # "idle" => worker[w].fact \in Fact /\ worker[w].version \in Version
  BY DEF TInv, ClaimInv
<1>3. ASSUME NEW g \in Fact, NEW u \in Version, NEW e \in Event,
             outbox' = [outbox EXCEPT ![g][u] = e],
             e.processed => outbox[g][u].processed \/ u <= state'[g].version
      PROVE  \A h \in Fact, x \in Version :
                 outbox'[h][x].processed => outbox[h][x].processed \/ x <= state'[h].version
  BY <1>1, <1>3, OneRow
<1>4. \A g \in Fact, u \in Version : outbox[g][u] \in Event
  BY <1>1
<1>5. CASE Claim(w, f, v)
  <2>1. Leased(outbox[f][v], w) \in Event
        /\ Leased(outbox[f][v], w).processed = outbox[f][v].processed
    BY <1>4, LeasedRow
  <2>2. outbox' = [outbox EXCEPT ![f][v] = Leased(outbox[f][v], w)]
    BY <1>5 DEF Claim
  <2> QED  BY <1>3, <2>1, <2>2
<1>6. CASE Renew(w)
  <2> DEFINE g == worker[w].fact
             u == worker[w].version
             e == [outbox[g][u] EXCEPT !.live = TRUE]
  <2>1. g \in Fact /\ u \in Version /\ outbox' = [outbox EXCEPT ![g][u] = e]
    BY <1>2, <1>6 DEF Renew
  <2>2. e \in Event /\ e.processed = outbox[g][u].processed
    <3>1. outbox[g][u] \in Event
      BY <1>4, <2>1
    <3> QED  BY <3>1 DEF Event
  <2> HIDE DEF e
  <2> QED  BY <1>3, <2>1, <2>2
<1>7. CASE Ack(w)
  <2> DEFINE g == worker[w].fact
             u == worker[w].version
  <2>1. g \in Fact /\ u \in Version /\ state' = state
    BY <1>2, <1>7 DEF Ack
  <2>2. u <= state'[g].version
    BY <1>7, <2>1 DEF Ack, WorkerInv, Recalls
  <2>3. Acked(outbox[g][u]) \in Event
    BY <1>4, <2>1, AckedRow
  <2>4. CASE outbox' = [outbox EXCEPT ![g][u] = Acked(outbox[g][u])]
    BY <1>3, <2>1, <2>2, <2>3, <2>4
  <2> QED  BY <1>7, <2>4 DEF Ack
<1>8. CASE Fail(w)
  <2> DEFINE g == worker[w].fact
             u == worker[w].version
  <2>1. g \in Fact /\ u \in Version
    BY <1>2, <1>8 DEF Fail
  <2>2. Failed(outbox[g][u]) \in Event
        /\ Failed(outbox[g][u]).processed = outbox[g][u].processed
    BY <1>4, <2>1, FailedRow
  <2>3. CASE outbox' = [outbox EXCEPT ![g][u] = Failed(outbox[g][u])]
    BY <1>3, <2>1, <2>2, <2>3
  <2> QED  BY <1>8, <2>3 DEF Fail
<1>9. CASE RetryDue(f, v) \/ LeaseLapses(f, v)
  <2>1. PICK e \in Event : /\ outbox' = [outbox EXCEPT ![f][v] = e]
                           /\ e.processed = outbox[f][v].processed
    <3> DEFINE d == [outbox[f][v] EXCEPT !.available = TRUE]
               l == [outbox[f][v] EXCEPT !.live = FALSE]
    <3>1. /\ d \in Event /\ d.processed = outbox[f][v].processed
          /\ l \in Event /\ l.processed = outbox[f][v].processed
      BY <1>4 DEF Event
    <3>2. outbox' = [outbox EXCEPT ![f][v] = d] \/ outbox' = [outbox EXCEPT ![f][v] = l]
      BY <1>9 DEF RetryDue, LeaseLapses
    <3> HIDE DEF d, l
    <3> QED  BY <3>1, <3>2
  <2> QED  BY <1>3, <2>1
<1> QED
  BY <1>5, <1>6, <1>7, <1>8, <1>9
  DEF Raise, Tick, AbandonedLapses, Stall, Crash, FailLost

\* With the tables alone, only a deletion could spoil what is served, and
\* what is deleted is older than the head.
LEMMA SameServed ==
    ASSUME TInv, TInv', StateInv, CaughtUpIsServed, OnlyForward,
           \A f \in Fact : head'[f] = head[f] => status'[f] = status[f],
           UNCHANGED state
    PROVE  CaughtUpIsServed'
<1>1. \A f \in Fact : head[f] \in 0..3 /\ head'[f] \in 0..3 /\ state[f].version \in 0..3
  BY DEF TInv, TypeOK, Entry, Version
<1>2. ASSUME NEW f \in Fact, head'[f] > 0, state'[f].version = head'[f]
      PROVE  IF status'[f] = "invalidated"
             THEN state'[f].refs = {}
             ELSE state'[f].refs = {head'[f]} /\ head'[f] \in graph'[f]
  <2>1. head'[f] = head[f] /\ status'[f] = status[f]
    BY <1>1, <1>2 DEF StateInv, OnlyForward
  <2>2. head[f] \in graph[f] => head[f] \in graph'[f]
    BY <1>1, <2>1 DEF OnlyForward
  <2> QED  BY <1>2, <2>1, <2>2 DEF CaughtUpIsServed
<1> QED  BY <1>2 DEF CaughtUpIsServed

\* put_if_newer writes the head's own episode when it catches up.
LEMMA PutKeepsServed ==
    ASSUME TInv, WorkerInv, CaughtUpIsServed, NEW w \in Worker, PutIfNewer(w)
    PROVE  CaughtUpIsServed'
<1> DEFINE f == worker[w].fact
           t == worker[w].target
           e == NewEntry(w)
<1>1. /\ f \in Fact /\ t \in Version /\ e.version = t
      /\ e.refs = IF worker[w].seen = "invalidated" THEN {} ELSE {t}
      /\ state' = [state EXCEPT ![f] = IF t > state[f].version THEN e ELSE state[f]]
      /\ UNCHANGED <<head, status, graph>>
  BY PutEffect
<1> HIDE DEF e
<1>2. /\ t <= head[f]
      /\ worker[w].seen = "invalidated" => status[f] = "invalidated" /\ t = head[f]
      /\ (worker[w].seen # "invalidated" /\ status[f] = "invalidated") => t < head[f]
      /\ worker[w].seen # "invalidated" => t \in graph[f] \/ t < head[f]
  BY DEF PutIfNewer, WorkerInv, Recalls, Reading
<1>3. state \in [Fact -> Entry] /\ head[f] \in 0..3
  BY <1>1 DEF TInv, TypeOK, Version
<1>4. ASSUME NEW g \in Fact, head'[g] > 0, state'[g].version = head'[g]
      PROVE  IF status'[g] = "invalidated"
             THEN state'[g].refs = {}
             ELSE state'[g].refs = {head'[g]} /\ head'[g] \in graph'[g]
  <2>1. CASE g = f /\ t > state[f].version
    <3>1. state'[f] = e
      BY <1>1, <1>3, <2>1
    <3>2. t = head[f] /\ ~(t < head[f])
      BY <1>1, <1>3, <1>4, <2>1, <3>1 DEF Version
    <3> QED  BY <1>1, <1>2, <2>1, <3>1, <3>2
  <2>2. CASE ~(g = f /\ t > state[f].version)
    <3>1. state'[g] = state[g]
      BY <1>1, <1>3, <2>2
    <3> QED  BY <1>1, <1>4, <3>1 DEF CaughtUpIsServed
  <2> QED  BY <2>1, <2>2
<1> QED  BY <1>4 DEF CaughtUpIsServed

-----------------------------------------------------------------------------
(* The inductive invariant.                                                 *)

\* The inductive invariant holds at the start.
LEMMA InitIInv ==
    ASSUME Init
    PROVE  IInv
<1> USE DEF Init
<1>1. TInv
  BY ConstantRecords DEF TInv, TypeOK, HeadInv, ClaimInv, Status
<1>2. RowInv
  BY DEF RowInv, Settled, NoEvent, Version
<1>3. WorkerInv
  BY ConstantRecords DEF WorkerInv, Recalls, Reading, Projecting
<1>4. StateInv /\ AckedMeansIndexed /\ CaughtUpIsServed
  BY DEF StateInv, AckedMeansIndexed, CaughtUpIsServed, NoEntry, NoEvent
<1> QED  BY <1>1, <1>2, <1>3, <1>4 DEF IInv

\* A write keeps the inductive invariant.
LEMMA WriteKeepsIInv ==
    ASSUME IInv, NEW f \in Fact, Write(f)
    PROVE  IInv'
<1> USE DEF IInv
<1>1. TInv' /\ RowInv'
  BY WriteKeepsTypes, WriteKeepsRows
<1>2. WorkerInv' /\ OnlyForward
  BY <1>1, WriteKeepsMemory
<1>3. UNCHANGED state /\ \A g \in Fact : g # f => status'[g] = status[g]
  BY WriteEffect DEF TInv, TypeOK
<1>4. head'[f] # head[f]
  BY WriteEffect DEF TInv, TypeOK, Version
<1>5. StateInv' /\ CaughtUpIsServed'
  BY <1>1, <1>2, <1>3, <1>4, SameStateInv, SameServed
<1>6. \A g \in Fact, u \in Version :
          outbox'[g][u].processed => outbox[g][u].processed \/ u <= state'[g].version
  <2>1. /\ FreshEvent \in Event /\ ~FreshEvent.processed
        /\ outbox \in [Fact -> [Version -> Event]]
        /\ head[f] + 1 \in Version
        /\ outbox' = [outbox EXCEPT ![f][head[f] + 1] = FreshEvent]
    BY ConstantRecords, WriteEffect DEF TInv, TypeOK, FreshEvent
  <2> QED  BY <2>1, OneRow
<1>7. AckedMeansIndexed'
  BY <1>1, <1>2, <1>6, SameAcked
<1> QED  BY <1>1, <1>2, <1>5, <1>7

\* The steps of a projection keep the inductive invariant.
LEMMA ProjectionKeepsIInv ==
    ASSUME IInv, NEW w \in Worker,
           \/ ReadHead(w) \/ ReadState(w) \/ CreateEpisode(w)
           \/ DeleteOld(w) \/ PutIfNewer(w)
    PROVE  IInv'
<1> USE DEF IInv
<1>1. TInv' /\ RowInv'
  BY ProjectionKeepsTypes, ProjectionKeepsRows
<1>2. WorkerInv' /\ OnlyForward
  BY <1>1, ProjectionKeepsMemory
<1>3. AckedMeansIndexed'
  <2>1. UNCHANGED outbox
    BY DEF ReadHead, ReadState, CreateEpisode, DeleteOld, PutIfNewer
  <2> QED  BY <1>1, <1>2, <2>1, SameAcked
<1>4. StateInv' /\ CaughtUpIsServed'
  <2>1. CASE PutIfNewer(w)
    BY <2>1, PutKeepsState, PutKeepsServed
  <2>2. CASE UNCHANGED <<status, state>>
    BY <1>1, <1>2, <2>2, SameStateInv, SameServed
  <2> QED  BY <2>1, <2>2 DEF ReadHead, ReadState, CreateEpisode, DeleteOld, dbVars
<1> QED  BY <1>1, <1>2, <1>3, <1>4

\* The queue, time and faults keep the inductive invariant.
LEMMA QueueKeepsIInv ==
    ASSUME IInv, NEW w \in Worker, NEW f \in Fact, NEW v \in Version,
           \/ Claim(w, f, v) \/ Renew(w) \/ Ack(w) \/ Fail(w) \/ Raise(w)
           \/ Tick(f, v) \/ Stall(w, f, v) \/ Crash(w) \/ FailLost(w)
    PROVE  IInv'
<1> USE DEF IInv
<1>1. TInv'
  BY QueueKeepsTypes, ProjectionKeepsTypes, FaultsKeepTypes
<1>2. RowInv'
  BY QueueKeepsRows, ProjectionKeepsRows, FaultsKeepRows
<1>3. WorkerInv' /\ OnlyForward
  BY <1>1, QueueKeepsMemory
<1>4. UNCHANGED <<status, state>>
  BY DEF Claim, Renew, Ack, Fail, Raise, Tick, RetryDue, AbandonedLapses, Stall, Crash, FailLost,
         dbVars
<1>5. StateInv' /\ CaughtUpIsServed'
  BY <1>1, <1>3, <1>4, SameStateInv, SameServed
<1>6. AckedMeansIndexed'
  BY <1>1, <1>3, QueueKeepsAcked, SameAcked
<1> QED  BY <1>1, <1>2, <1>3, <1>5, <1>6

\* The inductive invariant is kept by every step.
LEMMA NextIInv ==
    ASSUME IInv, [Next]_vars
    PROVE  IInv'
<1>1. CASE Next
  <2>1. ASSUME NEW f \in Fact, Write(f)  PROVE IInv'
    BY <2>1, WriteKeepsIInv
  <2>2. ASSUME NEW f \in Fact, NEW v \in Version, Tick(f, v)  PROVE IInv'
    <3>1. PICK w \in Worker : TRUE
      BY ConstantsAssumption
    <3> QED  BY <2>2, <3>1, QueueKeepsIInv
  <2>3. ASSUME NEW w \in Worker, WorkerStep(w)  PROVE IInv'
    <3>1. CASE \/ ReadHead(w) \/ ReadState(w) \/ CreateEpisode(w)
               \/ DeleteOld(w) \/ PutIfNewer(w)
      BY <3>1, ProjectionKeepsIInv
    <3>2. ASSUME NEW f \in Fact, NEW v \in Version, Claim(w, f, v) \/ Stall(w, f, v)
          PROVE  IInv'
      BY <3>2, QueueKeepsIInv
    <3>3. CASE Ack(w) \/ Fail(w) \/ Raise(w) \/ Renew(w) \/ Crash(w) \/ FailLost(w)
      <4>1. worker[w].fact \in Fact /\ worker[w].version \in Version
        BY <3>3 DEF Ack, Fail, Raise, Renew, Crash, FailLost, IInv, TInv, ClaimInv
      <4> QED  BY <3>3, <4>1, QueueKeepsIInv
    <3> QED  BY <2>3, <3>1, <3>2, <3>3 DEF WorkerStep, Project
  <2> QED  BY <1>1, <2>1, <2>2, <2>3 DEF Next
<1>2. CASE UNCHANGED vars
  BY <1>2 DEF vars, IInv, TInv, TypeOK, HeadInv, ClaimInv, RowInv, Settled, WorkerInv, Recalls,
              StateInv, AckedMeansIndexed, CaughtUpIsServed
<1> QED  BY <1>1, <1>2

\* The inductive invariant holds in every behaviour, for any facts and workers.
THEOREM Inductive == Spec => []IInv
<1>1. Init => IInv
  BY InitIInv
<1>2. IInv /\ [Next]_vars => IInv'
  BY NextIInv
<1> QED  BY <1>1, <1>2, PTL DEF Spec

-----------------------------------------------------------------------------
(* The results.                                                             *)

\* Every reachable state is well typed.
THEOREM TypeCorrect == Spec => []TypeOK
<1>1. IInv => TypeOK
  BY DEF IInv, TInv
<1> QED  BY <1>1, Inductive, PTL

\* An acknowledged event's revision, or a later one, is in the index: no
\* interleaving of stale workers, crashes and lapsed leases loses a wake-up.
THEOREM AckedNotLost == Spec => []AckedMeansIndexed
<1>1. IInv => AckedMeansIndexed
  BY DEF IInv
<1> QED  BY <1>1, Inductive, PTL

\* A fact whose projection has caught up is served from its head's episode,
\* which no stale worker has deleted.
THEOREM ServedWhenCaughtUp == Spec => []CaughtUpIsServed
<1>1. IInv => CaughtUpIsServed
  BY DEF IInv
<1> QED  BY <1>1, Inductive, PTL

\* No two events of one fact are ever leased.
THEOREM OneLease == Spec => []OneLeasePerFact
<1>1. IInv => OneLeasePerFact
  <2> SUFFICES ASSUME IInv, NEW f \in Fact, NEW u \in Version, NEW v \in Version,
                      outbox[f][u].holder # NoWorker, outbox[f][v].holder # NoWorker
               PROVE  u = v
    BY DEF OneLeasePerFact
  <2>1. /\ ~Settled(f, u) /\ \A x \in Version : x < u => Settled(f, x)
        /\ ~Settled(f, v) /\ \A x \in Version : x < v => Settled(f, x)
    BY DEF IInv, RowInv
  <2> QED  BY <2>1 DEF Version
<1> QED  BY <1>1, Inductive, PTL

\* An event is settled once, and a settled event carries no lease.
THEOREM SettledForGood == Spec => []SettledOnce
<1>1. IInv => SettledOnce
  BY DEF IInv, RowInv, SettledOnce
<1> QED  BY <1>1, Inductive, PTL

-----------------------------------------------------------------------------
(* Attempts.                                                                *)

\* A fault pays for one more attempt of every row.
LEMMA FaultPays ==
    ASSUME TInv, TInv', AttemptInv, faults' = faults + 1,
           \A f \in Fact, v \in Version : outbox'[f][v].attempts = outbox[f][v].attempts
    PROVE  AttemptInv'
<1>1. /\ MaxAttempts \in Nat /\ faults \in Nat
      /\ \A f \in Fact, v \in Version : outbox[f][v].attempts \in Nat
  BY ConstantsAssumption DEF TInv, TypeOK, Event
<1>2. \A f \in Fact, v \in Version : outbox[f][v].attempts <= MaxAttempts + faults
  BY DEF AttemptInv, RowBounded
<1>3. \A f \in Fact, v \in Version : outbox'[f][v].attempts < MaxAttempts + faults'
  BY <1>1, <1>2
<1>4. \A f \in Fact, v \in Version : outbox'[f][v].attempts <= MaxAttempts + faults'
  BY <1>1, <1>2
<1> QED  BY <1>3, <1>4 DEF AttemptInv, RowBounded

\* A row that is left alone stays within bounds while its holder, if it was
\* working on it, still is.
LEMMA UntouchedBounded ==
    ASSUME NEW f \in Fact, NEW v \in Version, RowBounded(f, v),
           outbox'[f][v] = outbox[f][v], faults' = faults,
           Working(outbox[f][v].holder, f, v) => Working(outbox[f][v].holder, f, v)'
    PROVE  RowBounded(f, v)'
<1>1. Settled(f, v)' <=> Settled(f, v)
  BY DEF Settled
<1> QED  BY <1>1 DEF RowBounded, Working

\* A write, whose event has no attempts, keeps the attempts bounded.
LEMMA WriteKeepsAttempts ==
    ASSUME TInv, AttemptInv, NEW f \in Fact, Write(f)
    PROVE  AttemptInv'
<1>1. PICK n \in Version : /\ outbox' = [outbox EXCEPT ![f][n] = FreshEvent]
                          /\ UNCHANGED <<worker, faults>>
  BY WriteEffect
<1>2. outbox \in [Fact -> [Version -> Event]] /\ FreshEvent \in Event
  BY ConstantRecords DEF TInv, TypeOK
<1>3. /\ outbox'[f][n] = FreshEvent
      /\ \A g \in Fact, u \in Version : (g # f \/ u # n) => outbox'[g][u] = outbox[g][u]
  BY <1>1, <1>2, OneRow
<1>4. RowBounded(f, n)'
  <2>1. MaxAttempts \in Nat \ {0} /\ faults \in Nat
    BY ConstantsAssumption DEF TInv, TypeOK
  <2>2. outbox'[f][n].attempts = 0 /\ faults' = faults
    BY <1>1, <1>3 DEF FreshEvent
  <2>3. /\ outbox'[f][n].attempts <= MaxAttempts + faults'
        /\ outbox'[f][n].attempts < MaxAttempts + faults'
    BY <2>1, <2>2
  <2> QED  BY <2>3 DEF RowBounded
<1>5. ASSUME NEW g \in Fact, NEW u \in Version, g # f \/ u # n
      PROVE  RowBounded(g, u)'
  BY <1>1, <1>3, <1>5, UntouchedBounded DEF AttemptInv, Working
<1>6. ASSUME NEW g \in Fact, NEW u \in Version  PROVE RowBounded(g, u)'
  BY <1>4, <1>5
<1> QED  BY <1>6 DEF AttemptInv

\* A projection step keeps its worker at work on its claim.
LEMMA ProjectionKeepsAttempts ==
    ASSUME TInv, WorkerInv, AttemptInv, NEW w \in Worker,
           \/ ReadHead(w) \/ ReadState(w) \/ CreateEpisode(w)
           \/ DeleteOld(w) \/ PutIfNewer(w) \/ Raise(w)
    PROVE  AttemptInv'
<1>1. /\ worker[w].stage # "idle"
      /\ UNCHANGED <<outbox, faults>>
  BY DEF ReadHead, ReadState, CreateEpisode, DeleteOld, PutIfNewer, Raise
<1>2. /\ worker[w] \in Job /\ worker[w].fact \in Fact /\ worker[w].version \in Version
      /\ TypeOK /\ worker \in [Worker -> Job]
  BY <1>1, ProjectingFacts DEF TInv, TypeOK
<1>3. /\ worker'[w].stage # "idle"
      /\ worker'[w].fact = worker[w].fact
      /\ worker'[w].version = worker[w].version
  <2>1. CASE ReadHead(w)
    BY <1>2, <2>1, HeadRead DEF ReadHead
  <2>2. CASE worker' = [worker EXCEPT ![w] = SawState(worker[w], state[worker[w].fact])]
    <3>1. state[worker[w].fact] \in Entry
      BY <1>2 DEF TypeOK
    <3>2. SawState(worker[w], state[worker[w].fact]).stage \in {"create", "delete"}
      BY <1>2, <3>1, SawStateFields
    <3>3. /\ SawState(worker[w], state[worker[w].fact]).fact = worker[w].fact
          /\ SawState(worker[w], state[worker[w].fact]).version = worker[w].version
      BY <1>2, <3>1, SawStateFields
    <3> QED  BY <1>2, <2>2, <3>2, <3>3
  <2>3. ASSUME NEW s \in {"delete", "put"}, worker' = [worker EXCEPT ![w] = Reached(worker[w], s)]
        PROVE  /\ worker'[w].stage # "idle"
               /\ worker'[w].fact = worker[w].fact
               /\ worker'[w].version = worker[w].version
    <3>1. s \in Stage
      BY DEF Stage
    <3>2. Reached(worker[w], s).stage = s
      BY <1>2, <3>1, ReachedFields
    <3>3. /\ Reached(worker[w], s).fact = worker[w].fact
          /\ Reached(worker[w], s).version = worker[w].version
      BY <1>2, <3>1, ReachedFields
    <3> QED  BY <1>2, <2>3, <3>2, <3>3
  <2>4. ASSUME NEW s \in {"ack", "failing"},
               worker' = [worker EXCEPT ![w] = Holding(worker[w].fact, worker[w].version, s)]
        PROVE  /\ worker'[w].stage # "idle"
               /\ worker'[w].fact = worker[w].fact
               /\ worker'[w].version = worker[w].version
    <3>1. s \in Stage
      BY DEF Stage
    <3>2. /\ Holding(worker[w].fact, worker[w].version, s).stage = s
          /\ Holding(worker[w].fact, worker[w].version, s).fact = worker[w].fact
          /\ Holding(worker[w].fact, worker[w].version, s).version = worker[w].version
      BY <1>2, <3>1, HoldingFields
    <3> QED  BY <1>2, <2>4, <3>2
  <2> QED  BY <2>1, <2>2, <2>3, <2>4
           DEF ReadState, CreateEpisode, DeleteOld, PutIfNewer, Raise
<1>4. \A x \in Worker : x # w => worker'[x] = worker[x]
  BY <1>2 DEF ReadHead, ReadState, CreateEpisode, DeleteOld, PutIfNewer, Raise
<1>5. ASSUME NEW f \in Fact, NEW v \in Version  PROVE RowBounded(f, v)'
  <2>1. CASE outbox[f][v].holder = NoWorker
    <3>1. Settled(f, v)' <=> Settled(f, v)
      BY <1>1 DEF Settled
    <3> QED  BY <1>1, <2>1, <3>1 DEF AttemptInv, RowBounded
  <2>2. CASE outbox[f][v].holder # NoWorker
    <3>1. outbox[f][v].holder \in Worker
      BY <2>2 DEF TInv, TypeOK, Event
    <3>2. Working(outbox[f][v].holder, f, v) => Working(outbox[f][v].holder, f, v)'
      BY <1>1, <1>3, <1>4, <3>1 DEF Working
    <3> QED  BY <1>1, <3>2, UntouchedBounded DEF AttemptInv
  <2> QED  BY <2>1, <2>2
<1> QED  BY <1>5 DEF AttemptInv

\* A step of the queue or the clock rewrites one row (f, v) and moves at most
\* one worker: off that row, onto it, or not at all.
LEMMA RowStepKeepsAttempts ==
    ASSUME TInv, AttemptInv, NEW f \in Fact, NEW v \in Version, NEW e \in Event,
           outbox' = [outbox EXCEPT ![f][v] = e], faults' = faults,
           RowBounded(f, v)',
           \A x \in Worker, g \in Fact, u \in Version :
               (Working(x, g, u) /\ (g # f \/ u # v)) => Working(x, g, u)'
    PROVE  AttemptInv'
<1>1. \A g \in Fact, u \in Version : (g # f \/ u # v) => outbox'[g][u] = outbox[g][u]
  BY OneRow DEF TInv, TypeOK
<1>2. ASSUME NEW g \in Fact, NEW u \in Version, g # f \/ u # v  PROVE RowBounded(g, u)'
  <2>1. outbox'[g][u] = outbox[g][u] /\ RowBounded(g, u)
    BY <1>1, <1>2 DEF AttemptInv
  <2>2. CASE outbox[g][u].holder = NoWorker
    <3>1. Settled(g, u)' <=> Settled(g, u)
      BY <2>1 DEF Settled
    <3> QED  BY <2>1, <2>2, <3>1 DEF RowBounded
  <2>3. CASE outbox[g][u].holder # NoWorker
    <3>1. outbox[g][u].holder \in Worker
      BY <2>3 DEF TInv, TypeOK, Event
    <3>2. Working(outbox[g][u].holder, g, u) => Working(outbox[g][u].holder, g, u)'
      <4>1. PICK x \in Worker : x = outbox[g][u].holder
        BY <3>1
      <4>2. Working(x, g, u) => Working(x, g, u)'
        BY <1>2
      <4> QED  BY <2>1, <4>1, <4>2 DEF Working
    <3> QED  BY <2>1, <3>2, UntouchedBounded
  <2> QED  BY <2>2, <2>3
<1>3. ASSUME NEW g \in Fact, NEW u \in Version  PROVE RowBounded(g, u)'
  BY <1>2
<1> QED  BY <1>3 DEF AttemptInv

\* Numbers in play.
LEMMA AttemptTypes ==
    ASSUME TInv
    PROVE  /\ MaxAttempts \in Nat \ {0}
           /\ faults \in Nat
           /\ \A f \in Fact, v \in Version : outbox[f][v] \in Event /\ outbox[f][v].attempts \in Nat
  BY ConstantsAssumption DEF TInv, TypeOK, Event

\* A claim adds an attempt that its own event can afford.
LEMMA ClaimKeepsAttempts ==
    ASSUME TInv, AttemptInv, NEW w \in Worker, NEW f \in Fact, NEW v \in Version, Claim(w, f, v)
    PROVE  AttemptInv'
<1>1. /\ outbox' = [outbox EXCEPT ![f][v] = Leased(outbox[f][v], w)]
      /\ worker' = [worker EXCEPT ![w] = Holding(f, v, "claimed")]
      /\ faults' = faults /\ worker[w].stage = "idle"
      /\ outbox[f][v].emitted /\ ~Settled(f, v) /\ ~outbox[f][v].live
  BY DEF Claim, Claimable
<1>2. PICK e \in Event : /\ e = Leased(outbox[f][v], w)
                         /\ e.holder = w /\ e.live /\ e.attempts = outbox[f][v].attempts + 1
  BY AttemptTypes, LeasedRow
<1>3. /\ outbox'[f][v] = e
      /\ outbox' = [outbox EXCEPT ![f][v] = e]
  BY <1>1, <1>2, OneRow DEF TInv, TypeOK
<1>4. /\ worker'[w].stage = "claimed" /\ worker'[w].fact = f /\ worker'[w].version = v
      /\ \A x \in Worker : x # w => worker'[x] = worker[x]
  <2>1. "claimed" \in Stage
    BY DEF Stage
  <2>2. worker'[w] = Holding(f, v, "claimed") /\ \A x \in Worker : x # w => worker'[x] = worker[x]
    BY <1>1, <2>1, MovesTo DEF TInv, TypeOK
  <2> QED  BY <2>1, <2>2, HoldingFields
<1>5. outbox[f][v].attempts < MaxAttempts + faults
  BY <1>1 DEF AttemptInv, RowBounded
<1>6. e.attempts <= MaxAttempts + faults
  BY <1>2, <1>5, AttemptTypes
<1>7. RowBounded(f, v)'
  BY <1>1, <1>2, <1>3, <1>4, <1>6 DEF RowBounded, Working, TInv, TypeOK
<1>8. \A x \in Worker, g \in Fact, u \in Version :
          (Working(x, g, u) /\ (g # f \/ u # v)) => Working(x, g, u)'
  BY <1>1, <1>4 DEF Working
<1> QED  BY <1>1, <1>3, <1>7, <1>8, RowStepKeepsAttempts

\* Where a released row stands.
LEMMA ReleasedBounded ==
    ASSUME TInv, AttemptInv, NEW f \in Fact, NEW v \in Version, NEW e \in Event,
           outbox' = [outbox EXCEPT ![f][v] = e], faults' = faults,
           e.attempts = outbox[f][v].attempts,
           e.processed \/ e.dead \/ e.attempts < MaxAttempts
    PROVE  RowBounded(f, v)'
<1>1. outbox'[f][v] = e
  BY OneRow DEF TInv, TypeOK
<1>2. e.attempts <= MaxAttempts + faults
  BY DEF AttemptInv, RowBounded
<1>3. e.attempts < MaxAttempts => e.attempts < MaxAttempts + faults
  BY AttemptTypes
<1>4. Settled(f, v)' <=> (e.processed \/ e.dead)
  BY <1>1 DEF Settled
<1> QED  BY <1>1, <1>2, <1>3, <1>4 DEF RowBounded

\* A worker leaving the row it owned leaves no other.
LEMMA ReleaseKeepsAttempts ==
    ASSUME TInv, AttemptInv, NEW w \in Worker, NEW e \in Event, worker[w].stage # "idle",
           outbox' = [outbox EXCEPT ![worker[w].fact][worker[w].version] = e],
           faults' = faults,
           e.attempts = outbox[worker[w].fact][worker[w].version].attempts,
           e.processed \/ e.dead \/ e.attempts < MaxAttempts,
           \A x \in Worker : x # w => worker'[x] = worker[x]
    PROVE  AttemptInv'
<1>1. PICK f \in Fact, v \in Version : f = worker[w].fact /\ v = worker[w].version
  BY DEF TInv, ClaimInv
<1>2. RowBounded(f, v)'
  BY <1>1, ReleasedBounded
<1>3. \A x \in Worker, g \in Fact, u \in Version :
          (Working(x, g, u) /\ (g # f \/ u # v)) => Working(x, g, u)'
  BY <1>1 DEF Working
<1> QED  BY <1>1, <1>2, <1>3, RowStepKeepsAttempts

\* A worker that finds its lease gone may forget it: the row is not its own.
LEMMA FencedKeepsAttempts ==
    ASSUME TInv, AttemptInv, NEW w \in Worker, worker[w].stage # "idle", ~Owns(w),
           UNCHANGED <<outbox, faults>>,
           \A x \in Worker : x # w => worker'[x] = worker[x]
    PROVE  AttemptInv'
<1>1. ASSUME NEW f \in Fact, NEW v \in Version  PROVE RowBounded(f, v)'
  <2>1. CASE outbox[f][v].holder = NoWorker \/ outbox[f][v].holder = w
    <3>1. Settled(f, v)' <=> Settled(f, v)
      BY DEF Settled
    <3>2. outbox[f][v].holder = w => ~Working(w, f, v)
      BY DEF Owns, Working
    <3> QED  BY <2>1, <3>1, <3>2 DEF AttemptInv, RowBounded
  <2>2. CASE outbox[f][v].holder # NoWorker /\ outbox[f][v].holder # w
    <3>1. outbox[f][v].holder \in Worker
      BY <2>2 DEF TInv, TypeOK, Event
    <3>2. Working(outbox[f][v].holder, f, v) => Working(outbox[f][v].holder, f, v)'
      BY <2>2, <3>1 DEF Working
    <3> QED  BY <3>2, UntouchedBounded DEF AttemptInv
  <2> QED  BY <2>1, <2>2
<1> QED  BY <1>1 DEF AttemptInv

\* Renew, ack, fail and an exception keep the attempts bounded.
LEMMA QueueKeepsAttempts ==
    ASSUME TInv, RowInv, AttemptInv, NEW w \in Worker
    PROVE  /\ Renew(w) => AttemptInv'
           /\ Ack(w) => AttemptInv'
           /\ Fail(w) => AttemptInv'
<1>0. \A j : worker' = [worker EXCEPT ![w] = j] =>
                 \A x \in Worker : x # w => worker'[x] = worker[x]
  BY DEF TInv, TypeOK
<1>1. ASSUME Renew(w)  PROVE AttemptInv'
  <2>1. PICK f \in Fact, v \in Version :
            /\ Working(w, f, v) /\ outbox[f][v].holder = w
            /\ outbox' = [outbox EXCEPT ![f][v] = [outbox[f][v] EXCEPT !.live = TRUE]]
            /\ UNCHANGED <<worker, faults>>
    BY <1>1 DEF Renew, Owns, Working, TInv, ClaimInv
  <2>2. PICK e \in Event : /\ e = [outbox[f][v] EXCEPT !.live = TRUE]
                           /\ e.holder = w /\ e.live /\ e.attempts = outbox[f][v].attempts
    <3>1. outbox[f][v] \in Event
      BY AttemptTypes
    <3> QED  BY <2>1, <3>1, LeaseFlag
  <2>3. outbox' = [outbox EXCEPT ![f][v] = e] /\ outbox'[f][v] = e
    BY <2>1, <2>2, OneRow DEF TInv, TypeOK
  <2>4. RowBounded(f, v)'
    <3>1. w # NoWorker
      BY ConstantsAssumption
    <3>2. e.attempts <= MaxAttempts + faults
      BY <2>2 DEF AttemptInv, RowBounded
    <3>3. Working(w, f, v)'
      BY <2>1 DEF Working
    <3> QED  BY <2>1, <2>2, <2>3, <3>1, <3>2, <3>3 DEF RowBounded, Working
  <2>5. \A x \in Worker, g \in Fact, u \in Version : Working(x, g, u) => Working(x, g, u)'
    BY <2>1 DEF Working
  <2> QED  BY <2>1, <2>3, <2>4, <2>5, RowStepKeepsAttempts
<1>2. ASSUME Ack(w)  PROVE AttemptInv'
  <2>1. /\ worker[w].stage # "idle" /\ faults' = faults
        /\ \A x \in Worker : x # w => worker'[x] = worker[x]
    BY <1>0, <1>2 DEF Ack
  <2>2. CASE ~Owns(w) /\ UNCHANGED outbox
    BY <2>1, <2>2, FencedKeepsAttempts
  <2>3. CASE Owns(w)
    <3>1. outbox[worker[w].fact][worker[w].version] \in Event
      BY <2>1, AttemptTypes DEF TInv, ClaimInv
    <3>2. PICK e \in Event : /\ e = Acked(outbox[worker[w].fact][worker[w].version])
                             /\ e.processed
                             /\ e.attempts = outbox[worker[w].fact][worker[w].version].attempts
      BY <3>1, AckedRow
    <3>3. outbox' = [outbox EXCEPT ![worker[w].fact][worker[w].version] = e]
      BY <1>2, <2>3, <3>2 DEF Ack
    <3> QED  BY <2>1, <3>2, <3>3, ReleaseKeepsAttempts
  <2> QED  BY <1>2, <2>2, <2>3 DEF Ack
<1>3. ASSUME Fail(w)  PROVE AttemptInv'
  <2>1. /\ worker[w].stage # "idle" /\ faults' = faults
        /\ \A x \in Worker : x # w => worker'[x] = worker[x]
    BY <1>0, <1>3 DEF Fail
  <2>2. CASE ~Owns(w) /\ UNCHANGED outbox
    BY <2>1, <2>2, FencedKeepsAttempts
  <2>3. CASE Owns(w)
    <3>1. outbox[worker[w].fact][worker[w].version] \in Event
      BY <2>1, AttemptTypes DEF TInv, ClaimInv
    <3>2. PICK e \in Event : /\ e = Failed(outbox[worker[w].fact][worker[w].version])
                             /\ e.dead <=> e.attempts >= MaxAttempts
                             /\ e.attempts = outbox[worker[w].fact][worker[w].version].attempts
      BY <3>1, FailedRow
    <3>3. outbox' = [outbox EXCEPT ![worker[w].fact][worker[w].version] = e]
      BY <1>3, <2>3, <3>2 DEF Fail
    <3>4. e.dead \/ e.attempts < MaxAttempts
      <4>1. e.attempts \in Nat /\ MaxAttempts \in Nat
        BY AttemptTypes DEF Event
      <4> QED  BY <3>2, <4>1
    <3> QED  BY <2>1, <3>2, <3>3, <3>4, ReleaseKeepsAttempts
  <2> QED  BY <1>3, <2>2, <2>3 DEF Fail
<1> QED  BY <1>1, <1>2, <1>3

\* A retry that comes due and an abandoned lease keep the attempts bounded.
LEMMA TimeKeepsAttempts ==
    ASSUME TInv, RowInv, AttemptInv, NEW f \in Fact, NEW v \in Version, Tick(f, v)
    PROVE  AttemptInv'
<1>1. outbox[f][v] \in Event /\ UNCHANGED <<worker, faults>>
  BY AttemptTypes DEF Tick, RetryDue, AbandonedLapses
<1>2. \A x \in Worker, g \in Fact, u \in Version : Working(x, g, u) => Working(x, g, u)'
  BY <1>1 DEF Working
<1>3. CASE RetryDue(f, v)
  <2>1. PICK e \in Event : /\ e = [outbox[f][v] EXCEPT !.available = TRUE]
                           /\ e.attempts = outbox[f][v].attempts /\ e.holder = outbox[f][v].holder
                           /\ e.live = outbox[f][v].live /\ e.emitted = outbox[f][v].emitted
                           /\ e.processed = outbox[f][v].processed /\ e.dead = outbox[f][v].dead
    BY <1>1, RetryFlag
  <2>2. outbox' = [outbox EXCEPT ![f][v] = e]
    BY <1>3, <2>1 DEF RetryDue
  <2>3. outbox'[f][v] = e
    BY <2>2, OneRow DEF TInv, TypeOK
  <2>4. RowBounded(f, v)'
    <3>1. Settled(f, v)' <=> Settled(f, v)
      BY <2>1, <2>3 DEF Settled
    <3> QED  BY <1>1, <2>1, <2>3, <3>1 DEF AttemptInv, RowBounded, Working
  <2> QED  BY <1>1, <1>2, <2>2, <2>4, RowStepKeepsAttempts
<1>4. CASE AbandonedLapses(f, v)
  <2>1. PICK e \in Event : /\ e = [outbox[f][v] EXCEPT !.live = FALSE]
                           /\ e.attempts = outbox[f][v].attempts
                           /\ e.emitted = outbox[f][v].emitted
                           /\ e.processed = outbox[f][v].processed /\ e.dead = outbox[f][v].dead
    BY <1>1, LeaseFlag
  <2>2. outbox' = [outbox EXCEPT ![f][v] = e]
    BY <1>4, <2>1 DEF AbandonedLapses, LeaseLapses
  <2>3. outbox'[f][v] = e
    BY <2>2, OneRow DEF TInv, TypeOK
  <2>4. RowBounded(f, v)'
    <3>1. Settled(f, v)' <=> Settled(f, v)
      BY <2>1, <2>3 DEF Settled
    <3>2. ~Working(outbox[f][v].holder, f, v)
      BY <1>4 DEF AbandonedLapses
    <3> QED  BY <1>1, <2>1, <2>3, <3>1, <3>2 DEF AttemptInv, RowBounded
  <2> QED  BY <1>1, <1>2, <2>2, <2>4, RowStepKeepsAttempts
<1> QED  BY <1>3, <1>4 DEF Tick

\* A fault pays for the attempt it causes.
LEMMA FaultsKeepAttempts ==
    ASSUME TInv, TInv', AttemptInv, NEW w \in Worker, NEW f \in Fact, NEW v \in Version,
           Stall(w, f, v) \/ Crash(w) \/ FailLost(w)
    PROVE  AttemptInv'
<1>1. faults' = faults + 1
  BY DEF Stall, Crash, FailLost
<1>2. \A g \in Fact, u \in Version : outbox'[g][u].attempts = outbox[g][u].attempts
  <2>1. CASE UNCHANGED outbox
    BY <2>1
  <2>2. CASE Stall(w, f, v)
    <3>1. outbox[f][v] \in Event
      BY AttemptTypes
    <3>2. PICK e \in Event : /\ e = [outbox[f][v] EXCEPT !.live = FALSE]
                             /\ e.attempts = outbox[f][v].attempts
      BY <3>1, LeaseFlag
    <3>3. outbox' = [outbox EXCEPT ![f][v] = e]
      BY <2>2, <3>2 DEF Stall, LeaseLapses
    <3> QED  BY <3>2, <3>3, OneRow DEF TInv, TypeOK
  <2> QED  BY <2>1, <2>2 DEF Crash, FailLost
<1> QED  BY <1>1, <1>2, FaultPays

\* Every step keeps the attempts bounded.
LEMMA NextAttempts ==
    ASSUME IInv, IInv', AttemptInv, [Next]_vars
    PROVE  AttemptInv'
<1> USE DEF IInv
<1>1. CASE Next
  <2>1. ASSUME NEW w \in Worker, WorkerStep(w)  PROVE AttemptInv'
    <3>1. CASE \/ ReadHead(w) \/ ReadState(w) \/ CreateEpisode(w)
               \/ DeleteOld(w) \/ PutIfNewer(w) \/ Raise(w)
      BY <3>1, ProjectionKeepsAttempts
    <3>2. CASE Ack(w) \/ Fail(w) \/ Renew(w)
      BY <3>2, QueueKeepsAttempts
    <3>3. ASSUME NEW f \in Fact, NEW v \in Version, Claim(w, f, v) \/ Stall(w, f, v)
          PROVE  AttemptInv'
      BY <3>3, ClaimKeepsAttempts, FaultsKeepAttempts
    <3>4. CASE Crash(w) \/ FailLost(w)
      <4>1. worker[w].fact \in Fact /\ worker[w].version \in Version
        BY <3>4 DEF Crash, FailLost, TInv, ClaimInv
      <4> QED  BY <3>4, <4>1, FaultsKeepAttempts
    <3> QED  BY <2>1, <3>1, <3>2, <3>3, <3>4 DEF WorkerStep, Project
  <2> QED  BY <1>1, <2>1, WriteKeepsAttempts, TimeKeepsAttempts DEF Next
<1>2. CASE UNCHANGED vars
  BY <1>2 DEF vars, AttemptInv, RowBounded, Settled, Working
<1> QED  BY <1>1, <1>2

\* A failing event is given up: it is claimed more than MaxAttempts times
\* only to make up for leases that were lost without a fail().
THEOREM AttemptsStayBounded == Spec => []AttemptsBounded
<1>1. Init => AttemptInv
  <2>1. MaxAttempts \in Nat \ {0}
    BY ConstantsAssumption
  <2> QED  BY <2>1 DEF Init, AttemptInv, RowBounded, NoEvent
<1>2. IInv /\ IInv' /\ AttemptInv /\ [Next]_vars => AttemptInv'
  BY NextAttempts
<1>3. AttemptInv => AttemptsBounded
  BY DEF AttemptInv, RowBounded, AttemptsBounded
<1> QED  BY <1>1, <1>2, <1>3, Inductive, PTL DEF Spec

-----------------------------------------------------------------------------
(* The replacement comes first.                                             *)

\* A step that only adds episodes, publishes nothing, and brings no live fact
\* back to life keeps what a witness shows.
LEMMA MoreEpisodes ==
    ASSUME TInv, WitnessInv, ReplacementFirst, NEW w \in Worker,
           UNCHANGED state,
           \A f \in Fact : graph[f] \subseteq graph'[f],
           \A f \in Fact : status'[f] # "invalidated" => status[f] # "invalidated",
           \A x \in Worker : x # w => worker'[x] = worker[x],
           Witnessed(w)'
    PROVE  WitnessInv' /\ ReplacementFirst'
<1>1. ASSUME NEW x \in Worker, x # w  PROVE Witnessed(x)'
  <2>1. worker'[x] = worker[x] /\ Witnessed(x)
    BY <1>1 DEF WitnessInv
  <2>2. worker[x].stage # "idle" => worker[x].fact \in Fact
    BY DEF TInv, ClaimInv
  <2> QED  BY <2>1, <2>2 DEF Witnessed
<1>2. ReplacementFirst'
  BY DEF ReplacementFirst
<1> QED  BY <1>1, <1>2 DEF WitnessInv

\* A worker that is not publishing needs no witness.
LEMMA NoWitnessNeeded ==
    ASSUME NEW w \in Worker, worker'[w].stage \notin {"delete", "put"}
    PROVE  Witnessed(w)'
  BY DEF Witnessed

\* Deleting the replaced episodes leaves the replacement in the graph.
LEMMA DeleteKeepsWitness ==
    ASSUME TInv, WorkerInv, WitnessInv, ReplacementFirst, NEW w \in Worker, DeleteOld(w)
    PROVE  WitnessInv' /\ ReplacementFirst'
<1> DEFINE job == worker[w]
           f == job.fact
<1>1. /\ job \in Job /\ f \in Fact /\ job.target \in Version
      /\ worker \in [Worker -> Job] /\ graph \in [Fact -> SUBSET Version]
  BY ProjectingFacts DEF DeleteOld, Reading, TInv, TypeOK
<1>2. /\ job.stage = "delete"
      /\ graph' = [graph EXCEPT ![f] = graph[f] \ job.old.refs]
      /\ worker' = [worker EXCEPT ![w] = Reached(job, "put")]
      /\ UNCHANGED <<status, state>>
  BY DEF DeleteOld, dbVars
<1>3. /\ job.old.version \in 0..3
      /\ job.old.version < job.target
      /\ job.old.refs \subseteq {job.old.version}
  BY <1>1, <1>2 DEF WorkerInv, Recalls, Projecting, Job, Entry, Version
\* Where an episode goes, a later one stays.
<1>4. ASSUME status[f] # "invalidated", NEW r \in graph[f]
      PROVE  \E v \in graph'[f] : r <= v
  <2>1. CASE r \in job.old.refs
    <3>1. PICK v \in graph[f] : job.target <= v
      BY <1>2, <1>4 DEF WitnessInv, Witnessed
    <3>2. r < v /\ v \notin job.old.refs
      BY <1>1, <1>3, <2>1, <3>1 DEF Version
    <3>3. r <= v /\ v \in graph'[f]
      BY <1>1, <1>2, <1>3, <2>1, <3>1, <3>2 DEF Version
    <3> QED  BY <3>3
  <2>2. CASE r \notin job.old.refs
    <3>1. r \in graph'[f] /\ r <= r
      BY <1>1, <1>2, <1>4, <2>2 DEF Version
    <3> QED  BY <3>1
  <2> QED  BY <2>1, <2>2
<1>5. ASSUME NEW g \in Fact, status[g] # "invalidated", NEW t \in {0} \cup Version,
             \E v \in graph[g] : t <= v
      PROVE  \E v \in graph'[g] : t <= v
  <2>1. CASE g # f
    BY <1>1, <1>2, <1>5, <2>1
  <2>2. CASE g = f
    <3>1. PICK r \in graph[f] : t <= r
      BY <1>5, <2>2
    <3>2. PICK v \in graph'[f] : r <= v
      BY <1>4, <1>5, <2>2, <3>1
    <3>3. r \in Version /\ v \in Version
      BY <1>1, <1>2, <3>1, <3>2
    <3> QED  BY <1>5, <2>2, <3>1, <3>2, <3>3 DEF Version
  <2> QED  BY <2>1, <2>2
<1>6. /\ worker'[w].stage = "put" /\ worker'[w].fact = f /\ worker'[w].target = job.target
      /\ \A x \in Worker : x # w => worker'[x] = worker[x]
  <2>1. "put" \in Stage
    BY DEF Stage
  <2>2. Reached(job, "put").stage = "put" /\ Reached(job, "put").fact = f
    BY <1>1, <2>1, ReachedFields
  <2>3. Reached(job, "put").target = job.target
    BY <1>1, <2>1, ReachedFields
  <2> QED  BY <1>1, <1>2, <2>2, <2>3
<1>7. ASSUME NEW x \in Worker  PROVE Witnessed(x)'
  <2>1. CASE x = w
    BY <1>1, <1>2, <1>5, <1>6, <2>1 DEF WitnessInv, Witnessed
  <2>2. CASE x # w /\ worker[x].stage \in {"delete", "put"}
    <3>1. worker[x].fact \in Fact /\ worker[x].target \in Version
      BY <2>2, ProjectingFacts DEF Reading
    <3> QED  BY <1>2, <1>5, <1>6, <2>2, <3>1 DEF WitnessInv, Witnessed
  <2>3. CASE x # w /\ worker[x].stage \notin {"delete", "put"}
    BY <1>6, <2>3, NoWitnessNeeded
  <2> QED  BY <2>1, <2>2, <2>3
<1>8. ReplacementFirst'
  <2> SUFFICES ASSUME NEW g \in Fact, status'[g] # "invalidated", NEW r \in state'[g].refs
               PROVE  \E v \in graph'[g] : r <= v
    BY DEF ReplacementFirst
  <2>1. r \in Version /\ \E v \in graph[g] : r <= v
    BY <1>2 DEF ReplacementFirst, TInv, TypeOK, Entry
  <2> QED  BY <1>2, <1>5, <2>1
<1> QED  BY <1>7, <1>8 DEF WitnessInv

\* The entry put names an episode that is in the graph or has been replaced.
LEMMA PutKeepsWitness ==
    ASSUME TInv, WorkerInv, WitnessInv, ReplacementFirst, NEW w \in Worker, PutIfNewer(w)
    PROVE  WitnessInv' /\ ReplacementFirst'
<1> DEFINE f == worker[w].fact
           t == worker[w].target
           e == NewEntry(w)
<1>1. /\ f \in Fact /\ t \in Version /\ e.version = t
      /\ e.refs = IF worker[w].seen = "invalidated" THEN {} ELSE {t}
      /\ state' = [state EXCEPT ![f] = IF t > state[f].version THEN e ELSE state[f]]
      /\ UNCHANGED <<status, graph>>
  BY PutEffect
<1> HIDE DEF e
<1>2. /\ worker[w].stage = "put" /\ worker[w].version \in Version
      /\ worker' = [worker EXCEPT ![w] = Holding(f, worker[w].version, "ack")]
  BY ProjectingFacts DEF PutIfNewer
<1>3. /\ worker'[w].stage = "ack"
      /\ \A x \in Worker : x # w => worker'[x] = worker[x]
  <2>1. "ack" \in Stage
    BY DEF Stage
  <2> QED  BY <1>1, <1>2, <2>1, MovesTo, HoldingFields DEF TInv, TypeOK
<1>4. ASSUME NEW x \in Worker  PROVE Witnessed(x)'
  <2>1. CASE x = w
    BY <1>3, <2>1, NoWitnessNeeded
  <2>2. CASE x # w
    BY <1>1, <1>3, <2>2 DEF WitnessInv, Witnessed
  <2> QED  BY <2>1, <2>2
<1>5. ReplacementFirst'
  <2> SUFFICES ASSUME NEW g \in Fact, status'[g] # "invalidated", NEW r \in state'[g].refs
               PROVE  \E v \in graph'[g] : r <= v
    BY DEF ReplacementFirst
  <2>1. CASE state'[g] = state[g]
    BY <1>1, <2>1 DEF ReplacementFirst
  <2>2. CASE g = f /\ state'[g] = e
    BY <1>1, <1>2, <2>2 DEF WitnessInv, Witnessed
  <2> QED  BY <1>1, <2>1, <2>2 DEF TInv, TypeOK
<1> QED  BY <1>4, <1>5 DEF WitnessInv

\* The new episode is the witness for what its worker will delete.
LEMMA CreateKeepsWitness ==
    ASSUME TInv, WorkerInv, WitnessInv, ReplacementFirst, NEW w \in Worker, CreateEpisode(w)
    PROVE  WitnessInv' /\ ReplacementFirst'
<1> DEFINE f == worker[w].fact
           t == worker[w].target
<1>1. /\ worker[w] \in Job /\ f \in Fact /\ t \in Version
      /\ worker \in [Worker -> Job] /\ graph \in [Fact -> SUBSET Version]
  BY ProjectingFacts DEF CreateEpisode, Reading, TInv, TypeOK
<1>2. /\ graph' = [graph EXCEPT ![f] = graph[f] \cup {t}]
      /\ worker' = [worker EXCEPT ![w] = Reached(worker[w], "delete")]
      /\ UNCHANGED <<status, state>>
  BY DEF CreateEpisode, dbVars
<1>3. worker'[w].fact = f /\ worker'[w].target = t
  <2>1. "delete" \in Stage
    BY DEF Stage
  <2>2. Reached(worker[w], "delete").fact = f
    BY <1>1, <2>1, ReachedFields
  <2>3. Reached(worker[w], "delete").target = t
    BY <1>1, <2>1, ReachedFields
  <2> QED  BY <1>1, <1>2, <2>2, <2>3
<1>4. t \in graph'[f] /\ t <= t
  BY <1>1, <1>2 DEF Version
<1>5. Witnessed(w)'
  BY <1>3, <1>4 DEF Witnessed
<1>6. \A g \in Fact : graph[g] \subseteq graph'[g]
  BY <1>1, <1>2
<1>7. \A x \in Worker : x # w => worker'[x] = worker[x]
  BY <1>1, <1>2
<1> QED  BY <1>2, <1>5, <1>6, <1>7, MoreEpisodes

\* Reading leaves the witnesses alone.
LEMMA ReadKeepsWitness ==
    ASSUME TInv, WorkerInv, WitnessInv, ReplacementFirst, NEW w \in Worker,
           ReadHead(w) \/ ReadState(w)
    PROVE  WitnessInv' /\ ReplacementFirst'
<1> DEFINE job == worker[w]
           f == job.fact
<1>1. /\ job \in Job /\ f \in Fact /\ job.version \in Version /\ worker \in [Worker -> Job]
      /\ TypeOK /\ state[f] \in Entry
  BY ProjectingFacts DEF ReadHead, ReadState, TInv, TypeOK
<1>2. UNCHANGED <<status, state, graph>> /\ \A x \in Worker : x # w => worker'[x] = worker[x]
  BY <1>1 DEF ReadHead, ReadState, dbVars
<1>3. CASE ReadHead(w)
  <2>1. worker'[w].stage = "read"
    BY <1>1, <1>3, HeadRead DEF ReadHead
  <2> QED  BY <1>2, <2>1, NoWitnessNeeded, MoreEpisodes
<1>4. CASE ReadState(w) /\ worker' = [worker EXCEPT ![w] = Holding(f, job.version, "ack")]
  <2>1. worker'[w].stage = "ack"
    <3>1. "ack" \in Stage
      BY DEF Stage
    <3> QED  BY <1>1, <1>4, <3>1, HoldingFields
  <2> QED  BY <1>2, <2>1, NoWitnessNeeded, MoreEpisodes
<1>5. CASE ReadState(w) /\ worker' = [worker EXCEPT ![w] = SawState(job, state[f])]
  <2>1. /\ worker'[w].stage = IF job.seen = "invalidated" THEN "delete" ELSE "create"
        /\ worker'[w].fact = f
    <3>1. SawState(job, state[f]).stage = IF job.seen = "invalidated" THEN "delete" ELSE "create"
      BY <1>1, SawStateFields
    <3>2. SawState(job, state[f]).fact = f
      BY <1>1, SawStateFields
    <3> QED  BY <1>1, <1>5, <3>1, <3>2
  <2>2. job.seen = "invalidated" => status[f] = "invalidated"
    BY <1>5 DEF ReadState, WorkerInv, Recalls, Reading
  <2>3. Witnessed(w)'
    BY <1>2, <2>1, <2>2 DEF Witnessed
  <2> QED  BY <1>2, <2>3, MoreEpisodes
<1> QED  BY <1>3, <1>4, <1>5 DEF ReadState

\* The queue, time and faults leave the witnesses alone.
LEMMA QueueKeepsWitness ==
    ASSUME TInv, WitnessInv, ReplacementFirst,
           NEW w \in Worker, NEW f \in Fact, NEW v \in Version,
           \/ Claim(w, f, v) \/ Renew(w) \/ Ack(w) \/ Fail(w) \/ Raise(w)
           \/ Tick(f, v) \/ Stall(w, f, v) \/ Crash(w) \/ FailLost(w)
    PROVE  WitnessInv' /\ ReplacementFirst'
<1>1. /\ UNCHANGED <<status, state, graph>>
      /\ worker \in [Worker -> Job] /\ {"claimed", "failing"} \subseteq Stage
  BY DEF Claim, Renew, Ack, Fail, Raise, Tick, RetryDue, AbandonedLapses, Stall, Crash, FailLost,
         dbVars, TInv, TypeOK, Stage
<1>2. CASE UNCHANGED worker
  BY <1>1, <1>2 DEF WitnessInv, Witnessed, ReplacementFirst
<1>3. ASSUME NEW j \in Job, j.stage \notin {"delete", "put"}, worker' = [worker EXCEPT ![w] = j]
      PROVE  WitnessInv' /\ ReplacementFirst'
  <2>1. worker'[w].stage \notin {"delete", "put"} /\ \A x \in Worker : x # w => worker'[x] = worker[x]
    BY <1>1, <1>3
  <2> QED  BY <1>1, <2>1, NoWitnessNeeded, MoreEpisodes
<1>4. CASE worker' = [worker EXCEPT ![w] = Idle]
  BY <1>3, <1>4, ConstantRecords
<1>5. CASE Claim(w, f, v)
  <2>1. Holding(f, v, "claimed") \in Job /\ Holding(f, v, "claimed").stage = "claimed"
    BY <1>1, HoldingFields
  <2> QED  BY <1>3, <1>5, <2>1 DEF Claim
<1>6. CASE /\ worker[w].stage # "idle"
           /\ worker' = [worker EXCEPT ![w] = Holding(worker[w].fact, worker[w].version, "failing")]
  <2>1. PICK g \in Fact, u \in Version : g = worker[w].fact /\ u = worker[w].version
    BY <1>6 DEF TInv, ClaimInv
  <2>2. Holding(g, u, "failing") \in Job /\ Holding(g, u, "failing").stage = "failing"
    BY <1>1, HoldingFields
  <2> QED  BY <1>3, <1>6, <2>1, <2>2
<1> QED
  BY <1>2, <1>4, <1>5, <1>6
  DEF Renew, Ack, Fail, Raise, Tick, RetryDue, AbandonedLapses, Stall, Crash, FailLost

\* Every step keeps a replacement for each episode the state names.
LEMMA NextWitness ==
    ASSUME IInv, WitnessInv, ReplacementFirst, [Next]_vars
    PROVE  WitnessInv' /\ ReplacementFirst'
<1> USE DEF IInv
<1>1. CASE Next
  <2>1. ASSUME NEW f \in Fact, Write(f)  PROVE WitnessInv' /\ ReplacementFirst'
    <3>1. UNCHANGED <<state, graph, worker>> /\ status[f] # "invalidated"
          /\ \A g \in Fact : status'[g] # "invalidated" => status[g] # "invalidated"
      BY <2>1, WriteEffect DEF TInv, TypeOK
    <3>2. PICK w \in Worker : TRUE
      BY ConstantsAssumption
    <3>3. Witnessed(w)'
      <4>1. worker[w].stage # "idle" => worker[w].fact \in Fact
        BY DEF TInv, ClaimInv
      <4> QED  BY <3>1, <4>1 DEF WitnessInv, Witnessed
    <3> QED  BY <3>1, <3>3, MoreEpisodes
  <2>2. ASSUME NEW f \in Fact, NEW v \in Version, Tick(f, v)
        PROVE  WitnessInv' /\ ReplacementFirst'
    <3>1. PICK w \in Worker : TRUE
      BY ConstantsAssumption
    <3> QED  BY <2>2, <3>1, QueueKeepsWitness
  <2>3. ASSUME NEW w \in Worker, WorkerStep(w)  PROVE WitnessInv' /\ ReplacementFirst'
    <3>1. ASSUME NEW f \in Fact, NEW v \in Version, Claim(w, f, v) \/ Stall(w, f, v)
          PROVE  WitnessInv' /\ ReplacementFirst'
      BY <3>1, QueueKeepsWitness
    <3>2. CASE Ack(w) \/ Fail(w) \/ Raise(w) \/ Renew(w) \/ Crash(w) \/ FailLost(w)
      <4>1. worker[w].fact \in Fact /\ worker[w].version \in Version
        BY <3>2 DEF Ack, Fail, Raise, Renew, Crash, FailLost, TInv, ClaimInv
      <4> QED  BY <3>2, <4>1, QueueKeepsWitness
    <3> QED
      BY <2>3, <3>1, <3>2, ReadKeepsWitness, CreateKeepsWitness, DeleteKeepsWitness,
         PutKeepsWitness DEF WorkerStep, Project
  <2> QED  BY <1>1, <2>1, <2>2, <2>3 DEF Next
<1>2. CASE UNCHANGED vars
  BY <1>2 DEF vars, WitnessInv, Witnessed, ReplacementFirst
<1> QED  BY <1>1, <1>2

\* A live fact that was ever served keeps an episode in the graph: the
\* previous one goes only when its replacement is there.
THEOREM ReplacedBeforeDeleted == Spec => []ReplacementFirst
<1>1. Init => WitnessInv /\ ReplacementFirst
  BY ConstantRecords DEF Init, WitnessInv, Witnessed, ReplacementFirst, NoEntry
<1>2. IInv /\ WitnessInv /\ ReplacementFirst /\ [Next]_vars => WitnessInv' /\ ReplacementFirst'
  BY NextWitness
<1> QED  BY <1>1, <1>2, Inductive, PTL DEF Spec

-----------------------------------------------------------------------------
(* The projection implements the promise.                                   *)

\* What became of one wake-up, as the refinement mapping reads it.
FateOf(f, v) ==
    IF outbox[f][v].processed THEN "indexed"
    ELSE IF outbox[f][v].dead THEN "dead"
    ELSE IF outbox[f][v].emitted THEN "owed"
    ELSE "unborn"

AllIndexed == [f \in Fact |-> state[f].version]
AllFates == [f \in Fact |-> [v \in Version |-> FateOf(f, v)]]

\* Nothing the promise speaks of changes.
LEMMA PromiseStutters ==
    ASSUME UNCHANGED head,
           \A f \in Fact : state'[f].version = state[f].version,
           \A f \in Fact, v \in Version : FateOf(f, v)' = FateOf(f, v)
    PROVE  UNCHANGED Promise!vars
<1>1. AllIndexed' = AllIndexed /\ AllFates' = AllFates
  BY DEF AllIndexed, AllFates
<1> QED  BY <1>1 DEF Promise!vars, AllIndexed, AllFates, FateOf

\* The initial states map to initial states of the promise.
LEMMA InitPromise ==
    ASSUME Init
    PROVE  Promise!Init
<1>1. \A f \in Fact, v \in Version : FateOf(f, v) = "unborn"
  BY DEF Init, FateOf, NoEvent
<1>2. AllIndexed = [f \in Fact |-> 0] /\ AllFates = [f \in Fact |-> [v \in Version |-> "unborn"]]
  BY <1>1 DEF Init, AllIndexed, AllFates, NoEntry
<1> QED  BY <1>2 DEF Init, Promise!Init, AllIndexed, AllFates, FateOf

\* A write is the promise's write.
LEMMA WritePromise ==
    ASSUME IInv, NEW f \in Fact, Write(f)
    PROVE  Promise!Write(f)
<1>1. PICK n \in Version : /\ n = head[f] + 1
                          /\ head' = [head EXCEPT ![f] = head[f] + 1]
                          /\ outbox' = [outbox EXCEPT ![f][n] = FreshEvent]
                          /\ state' = state
  BY WriteEffect DEF IInv
<1>2. /\ outbox'[f][n] = FreshEvent
      /\ \A g \in Fact, u \in Version : (g # f \/ u # n) => outbox'[g][u] = outbox[g][u]
  BY <1>1, OneRow, ConstantRecords DEF IInv, TInv, TypeOK
<1>3. /\ FateOf(f, n)' = "owed"
      /\ \A g \in Fact, u \in Version : (g # f \/ u # n) => FateOf(g, u)' = FateOf(g, u)
  BY <1>2 DEF FateOf, FreshEvent
<1>4. AllFates' = [AllFates EXCEPT ![f][n] = "owed"]
  BY <1>3 DEF AllFates
<1>5. AllIndexed' = AllIndexed
  BY <1>1 DEF AllIndexed
<1> QED  BY <1>1, <1>4, <1>5 DEF Promise!Write, AllFates, AllIndexed, FateOf

\* Publishing a later revision advances the index; publishing an older one,
\* as a stale worker may try to, changes nothing.
LEMMA PutPromise ==
    ASSUME IInv, NEW w \in Worker, PutIfNewer(w)
    PROVE  (\E f \in Fact : Promise!Advance(f)) \/ UNCHANGED Promise!vars
<1>1. PICK f \in Fact, t \in Version, e \in Entry :
          /\ f = worker[w].fact /\ t = worker[w].target /\ e = NewEntry(w) /\ e.version = t
          /\ state' = [state EXCEPT ![f] = IF t > state[f].version THEN e ELSE state[f]]
          /\ UNCHANGED <<head, outbox>>
  <2>1. worker[w] \in Job /\ worker[w].target \in Version
    BY PutEffect DEF IInv
  <2>2. NewEntry(w) \in Entry
    BY <2>1, NewEntryFields
  <2> QED  BY <2>2, PutEffect DEF IInv
<1>2. state \in [Fact -> Entry] /\ state[f].version \in 0..3 /\ head[f] \in 0..3
  BY DEF IInv, TInv, TypeOK, Entry, Version
<1>3. t <= head[f]
  BY <1>1 DEF IInv, WorkerInv, Recalls, Reading, PutIfNewer
<1>4. \A g \in Fact, u \in Version : FateOf(g, u)' = FateOf(g, u)
  BY <1>1 DEF FateOf
<1>5. CASE t > state[f].version
  <2>1. AllIndexed' = [AllIndexed EXCEPT ![f] = t]
    BY <1>1, <1>2, <1>5 DEF AllIndexed
  <2>2. AllFates' = AllFates
    BY <1>4 DEF AllFates
  <2>3. AllIndexed[f] < t /\ t <= head[f]
    BY <1>2, <1>3, <1>5 DEF AllIndexed, Version
  <2>4. Promise!Advance(f)
    BY <1>1, <2>1, <2>2, <2>3 DEF Promise!Advance, AllIndexed, AllFates, FateOf
  <2> QED  BY <2>4
<1>6. CASE ~(t > state[f].version)
  <2>1. state' = state
    BY <1>1, <1>2, <1>6
  <2> QED  BY <1>1, <1>4, <2>1, PromiseStutters
<1> QED  BY <1>5, <1>6

\* A change of one row's fate.
LEMMA OneFate ==
    ASSUME IInv, NEW f \in Fact, NEW v \in Version, NEW e \in Event,
           outbox' = [outbox EXCEPT ![f][v] = e], UNCHANGED <<head, state>>
    PROVE  /\ e.processed = outbox[f][v].processed /\ e.dead = outbox[f][v].dead
                /\ e.emitted = outbox[f][v].emitted => UNCHANGED Promise!vars
           /\ (/\ FateOf(f, v) = "owed"
               /\ \/ e.processed /\ v <= state[f].version
                  \/ ~e.processed /\ e.dead)
              => Promise!Discharge(f, v)
<1>1. /\ outbox'[f][v] = e
      /\ \A g \in Fact, u \in Version : (g # f \/ u # v) => outbox'[g][u] = outbox[g][u]
  BY OneRow DEF IInv, TInv, TypeOK
<1>2. \A g \in Fact, u \in Version : (g # f \/ u # v) => FateOf(g, u)' = FateOf(g, u)
  BY <1>1 DEF FateOf
<1>3. FateOf(f, v)' = IF e.processed THEN "indexed"
                      ELSE IF e.dead THEN "dead"
                      ELSE IF e.emitted THEN "owed"
                      ELSE "unborn"
  BY <1>1 DEF FateOf
<1>4. ASSUME e.processed = outbox[f][v].processed, e.dead = outbox[f][v].dead,
             e.emitted = outbox[f][v].emitted
      PROVE  UNCHANGED Promise!vars
  <2>1. FateOf(f, v)' = FateOf(f, v)
    BY <1>3, <1>4 DEF FateOf
  <2> QED  BY <1>2, <2>1, PromiseStutters
<1>5. ASSUME FateOf(f, v) = "owed",
             (e.processed /\ v <= state[f].version) \/ (~e.processed /\ e.dead)
      PROVE  Promise!Discharge(f, v)
  <2>1. AllFates' = [AllFates EXCEPT ![f][v] = FateOf(f, v)']
    BY <1>2 DEF AllFates
  <2>2. AllIndexed' = AllIndexed /\ AllFates[f][v] = "owed" /\ AllIndexed[f] = state[f].version
    BY <1>5 DEF AllIndexed, AllFates
  <2>3. \/ v <= AllIndexed[f] /\ AllFates' = [AllFates EXCEPT ![f][v] = "indexed"]
        \/ AllFates' = [AllFates EXCEPT ![f][v] = "dead"]
    BY <1>3, <1>5, <2>1, <2>2
  <2> QED  BY <2>2, <2>3 DEF Promise!Discharge, AllIndexed, AllFates, FateOf
<1> QED  BY <1>4, <1>5

\* An outbox operation is a discharge or a stutter of the promise.
LEMMA QueuePromise ==
    ASSUME IInv, NEW w \in Worker, NEW f \in Fact, NEW v \in Version,
           \/ Claim(w, f, v) \/ Renew(w) \/ Ack(w) \/ Fail(w) \/ Raise(w)
           \/ Tick(f, v) \/ Stall(w, f, v) \/ Crash(w) \/ FailLost(w)
    PROVE  \/ \E g \in Fact, u \in Version : Promise!Discharge(g, u)
           \/ UNCHANGED Promise!vars
<1>1. UNCHANGED <<head, state>>
  BY DEF Claim, Renew, Ack, Fail, Raise, Tick, RetryDue, AbandonedLapses, Stall, Crash, FailLost,
         dbVars
<1>2. \A g \in Fact, u \in Version : outbox[g][u] \in Event
  BY DEF IInv, TInv, TypeOK
<1>3. CASE UNCHANGED outbox
  <2>1. \A g \in Fact, u \in Version : FateOf(g, u)' = FateOf(g, u)
    BY <1>3 DEF FateOf
  <2> QED  BY <1>1, <2>1, PromiseStutters
<1>4. CASE Claim(w, f, v)
  <2>1. PICK e \in Event : /\ e = Leased(outbox[f][v], w)
                           /\ e.processed = outbox[f][v].processed /\ e.dead = outbox[f][v].dead
                           /\ e.emitted = outbox[f][v].emitted
    BY <1>2, LeasedRow
  <2> QED  BY <1>1, <1>4, <2>1, OneFate DEF Claim
<1>5. CASE RetryDue(f, v)
  <2>1. PICK e \in Event : /\ e = [outbox[f][v] EXCEPT !.available = TRUE]
                           /\ e.processed = outbox[f][v].processed /\ e.dead = outbox[f][v].dead
                           /\ e.emitted = outbox[f][v].emitted
    BY <1>2, RetryFlag
  <2> QED  BY <1>1, <1>5, <2>1, OneFate DEF RetryDue
<1>6. CASE LeaseLapses(f, v)
  <2>1. PICK e \in Event : /\ e = [outbox[f][v] EXCEPT !.live = FALSE]
                           /\ e.processed = outbox[f][v].processed /\ e.dead = outbox[f][v].dead
                           /\ e.emitted = outbox[f][v].emitted
    BY <1>2, LeaseFlag
  <2> QED  BY <1>1, <1>6, <2>1, OneFate DEF LeaseLapses
<1>7. CASE (Renew(w) \/ Ack(w) \/ Fail(w)) /\ Owns(w)
  <2>1. worker[w].stage # "idle"
    BY <1>7 DEF Renew, Ack, Fail
  <2>2. PICK g \in Fact, u \in Version :
            /\ g = worker[w].fact /\ u = worker[w].version
            /\ outbox[g][u].emitted /\ ~Settled(g, u)
    BY <1>7, <2>1, HeldRow DEF IInv
  <2>3. FateOf(g, u) = "owed"
    BY <2>2 DEF FateOf, Settled
  <2>4. CASE Renew(w)
    <3>1. PICK e \in Event : /\ e = [outbox[g][u] EXCEPT !.live = TRUE]
                             /\ e.processed = outbox[g][u].processed /\ e.dead = outbox[g][u].dead
                             /\ e.emitted = outbox[g][u].emitted
      BY <1>2, LeaseFlag
    <3> QED  BY <1>1, <2>2, <2>4, <3>1, OneFate DEF Renew
  <2>5. CASE Ack(w)
    <3>1. PICK e \in Event : e = Acked(outbox[g][u]) /\ e.processed
      BY <1>2, AckedRow
    <3>2. outbox' = [outbox EXCEPT ![g][u] = e]
      BY <1>7, <2>2, <2>5, <3>1 DEF Ack
    <3>3. u <= state[g].version
      BY <2>2, <2>5 DEF Ack, IInv, WorkerInv, Recalls
    <3> QED  BY <1>1, <2>3, <3>1, <3>2, <3>3, OneFate
  <2>6. CASE Fail(w)
    <3>1. PICK e \in Event : /\ e = Failed(outbox[g][u])
                             /\ e.processed = outbox[g][u].processed
                             /\ e.emitted = outbox[g][u].emitted
      BY <1>2, FailedRow
    <3>2. outbox' = [outbox EXCEPT ![g][u] = e]
      BY <1>7, <2>2, <2>6, <3>1 DEF Fail
    <3>3. ~e.processed /\ ~outbox[g][u].dead
      BY <2>2, <3>1 DEF Settled
    <3>4. CASE e.dead
      BY <1>1, <2>3, <3>2, <3>3, <3>4, OneFate
    <3>5. CASE ~e.dead
      <4>1. e.dead = outbox[g][u].dead
        BY <1>2, <3>3, <3>5 DEF Event
      <4> QED  BY <1>1, <3>1, <3>2, <4>1, OneFate
    <3> QED  BY <3>4, <3>5
  <2> QED  BY <1>7, <2>4, <2>5, <2>6
<1> QED
  BY <1>3, <1>4, <1>5, <1>6, <1>7
  DEF Renew, Ack, Fail, Raise, Tick, AbandonedLapses, Stall, Crash, FailLost

\* Every step is a step or a stutter of the promise.
LEMMA NextPromise ==
    ASSUME IInv, [Next]_vars
    PROVE  [Promise!Next]_(Promise!vars)
<1>1. CASE Next
  <2>1. ASSUME NEW f \in Fact, Write(f)  PROVE Promise!Next
    BY <2>1, WritePromise DEF Promise!Next
  <2>2. ASSUME NEW w \in Worker, NEW f \in Fact, NEW v \in Version,
               \/ Claim(w, f, v) \/ Renew(w) \/ Ack(w) \/ Fail(w) \/ Raise(w)
               \/ Tick(f, v) \/ Stall(w, f, v) \/ Crash(w) \/ FailLost(w)
        PROVE  Promise!Next \/ UNCHANGED Promise!vars
    BY <2>2, QueuePromise DEF Promise!Next
  <2>3. ASSUME NEW f \in Fact, NEW v \in Version, Tick(f, v)
        PROVE  Promise!Next \/ UNCHANGED Promise!vars
    <3>1. PICK w \in Worker : TRUE
      BY ConstantsAssumption
    <3> QED  BY <2>2, <2>3, <3>1
  <2>4. ASSUME NEW w \in Worker, WorkerStep(w)
        PROVE  Promise!Next \/ UNCHANGED Promise!vars
    <3>1. CASE PutIfNewer(w)
      BY <3>1, PutPromise DEF Promise!Next
    <3>2. CASE ReadHead(w) \/ ReadState(w) \/ CreateEpisode(w) \/ DeleteOld(w)
      <4>1. UNCHANGED <<head, state, outbox>>
        BY <3>2 DEF ReadHead, ReadState, CreateEpisode, DeleteOld, dbVars
      <4>2. \A f \in Fact, v \in Version : FateOf(f, v)' = FateOf(f, v)
        BY <4>1 DEF FateOf
      <4> QED  BY <4>1, <4>2, PromiseStutters
    <3>3. ASSUME NEW f \in Fact, NEW v \in Version, Claim(w, f, v) \/ Stall(w, f, v)
          PROVE  Promise!Next \/ UNCHANGED Promise!vars
      BY <2>2, <3>3
    <3>4. CASE Ack(w) \/ Fail(w) \/ Raise(w) \/ Renew(w) \/ Crash(w) \/ FailLost(w)
      <4>1. worker[w].fact \in Fact /\ worker[w].version \in Version
        BY <3>4 DEF Ack, Fail, Raise, Renew, Crash, FailLost, IInv, TInv, ClaimInv
      <4> QED  BY <2>2, <3>4, <4>1
    <3> QED  BY <2>4, <3>1, <3>2, <3>3, <3>4 DEF WorkerStep, Project
  <2> QED  BY <1>1, <2>1, <2>3, <2>4 DEF Next
<1>2. CASE UNCHANGED vars
  <2>1. UNCHANGED <<head, state, outbox>>
    BY <1>2 DEF vars
  <2>2. \A f \in Fact, v \in Version : FateOf(f, v)' = FateOf(f, v)
    BY <2>1 DEF FateOf
  <2> QED  BY <2>1, <2>2, PromiseStutters
<1> QED  BY <1>1, <1>2

\* The outbox, its workers and the graph together implement the promise: the
\* index only moves forward and never past the head, and each write's wake-up
\* is discharged once, as indexed only when it is.
THEOREM ImplementsPromise == Spec => PromiseKept
<1>1. Init => Promise!Init
  BY InitPromise
<1>2. IInv /\ [Next]_vars => [Promise!Next]_(Promise!vars)
  BY NextPromise
<1> QED  BY <1>1, <1>2, Inductive, PTL DEF Spec, PromiseKept, Promise!SafeSpec
=============================================================================
