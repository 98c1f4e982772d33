----------------------------- MODULE FactLedger -----------------------------
(***************************************************************************)
(* What the fact store of the PostgreSQL backend promises its callers,     *)
(* with no locks, transactions or clients in sight: every accepted request *)
(* takes effect at once, against the heads of that moment, and under its   *)
(* idempotency key at most once (postgres/repository.py,                   *)
(* postgres/approvals.py, postgres/write_ops.py).                          *)
(*                                                                         *)
(* FactStore implements it with read-committed transactions and row locks; *)
(* HistoryReading reads it statement by statement.                         *)
(*                                                                         *)
(* The id of a created fact is a hash of its request's idempotency key     *)
(* (application.py, _fact_id) and a promotion's id is drawn once by the    *)
(* request that opens it, so both are named by that key here.  Checks on   *)
(* roles, lengths and content come before any of this and change nothing.  *)
(***************************************************************************)
EXTENDS Integers

CONSTANTS
    Key,        \* idempotency keys, ordered as the fact ids derived from them
    Request     \* the requests callers send; equal when their hashes are

\* A fact is created, perhaps promoted, perhaps invalidated: three revisions.
Version == 1..3
Space == {"domain", "shared"}       \* plk.domain.*, and what cannot be promoted
Verdict == {"approved", "rejected"}

\* facts: those a create supersedes, or the one the operation is about.
\* space is for create; about, verdict and expected are for decide, whose hash
\* alone covers the revision the caller expects.
RequestType == [key: Key, op: {"create", "invalidate", "propose", "decide"},
                facts: SUBSET Key, space: Space,
                about: Key, verdict: Verdict, expected: Version]

\* A create cannot name its own fact, whose id nobody has seen yet; the other
\* operations name one fact, or (decide) one promotion.
ASSUME LedgerAssumption ==
    /\ Key \subseteq Nat
    /\ Request \subseteq RequestType
    /\ \A q \in Request :
        /\ q.op = "create" => q.key \notin q.facts
        /\ q.op \in {"invalidate", "propose"} => \E f \in Key : q.facts = {f}

VARIABLES
    head,       \* head[f]: the knowledge_facts row
    revisions,  \* the knowledge_fact_revisions rows, each with its outbox event
    successor,  \* successor[f]: the facts with a supersedes relation to f
    promotion,  \* promotion[r]: the approval_requests row
    served      \* served[k]: the request of the idempotency_records row, if any

ledgerVars == <<head, revisions, successor, promotion, served>>

Status == {"none", "active", "invalidated"}
HeadRow == [version: {0} \cup Version, status: Status, space: Space]
NoHead == [version |-> 0, status |-> "none", space |-> "domain"]

\* by is the key of the request that wrote the revision.
Revision == [fact: Key, row: HeadRow, by: Key]

PromotionStatus == {"none", "pending", "stale"} \cup Verdict
Promotion == [facts: SUBSET Key, source: {0} \cup Version, status: PromotionStatus]
NoPromotion == [facts |-> {}, source |-> 0, status |-> "none"]

LedgerTypeOK ==
    /\ head \in [Key -> HeadRow]
    /\ revisions \subseteq Revision
    /\ successor \in [Key -> SUBSET Key]
    /\ promotion \in [Key -> Promotion]
    /\ served \in [Key -> SUBSET Request]

LedgerInit ==
    /\ head = [f \in Key |-> NoHead]
    /\ revisions = {}
    /\ successor = [f \in Key |-> {}]
    /\ promotion = [r \in Key |-> NoPromotion]
    /\ served = [k \in Key |-> {}]

-----------------------------------------------------------------------------
(* The effects of the requests.  seen holds the heads as the transaction    *)
(* locked them, e the revisions the caller believes to be current.          *)

\* INSERT the next revision (and its outbox event) of each fact in the domain
\* of new, and INSERT or UPDATE its head.
Write(new, k) ==
    /\ head' = [f \in Key |-> IF f \in DOMAIN new THEN new[f] ELSE head[f]]
    /\ revisions' = revisions \cup {[fact |-> f, row |-> new[f], by |-> k] : f \in DOMAIN new}

Invalidated(h) == [version |-> h.version + 1, status |-> "invalidated", space |-> h.space]
Promoted(h) == [version |-> h.version + 1, status |-> h.status, space |-> "shared"]
Created(q) == [version |-> 1, status |-> "active", space |-> q.space]

\* Mutant of Expected: the revision alone is compared.
ExpectedRevisionOnly(f, seen, e) == seen[f].version = e[f]

\* The head is active and at the revision the caller expects.
Expected(f, seen, e) == seen[f].version = e[f] /\ seen[f].status = "active"

NonePending(F) == \A r \in Key : ~(promotion[r].facts = F /\ promotion[r].status = "pending")

\* The promotion still waits for its decision.
Open(q) == promotion[q.about].status = "pending"

\* The checks of each operation, made with its rows locked.
Accepts(q, seen, e) ==
    CASE q.op \in {"create", "invalidate"} -> \A f \in q.facts : Expected(f, seen, e)
      [] q.op = "propose" ->
            /\ \A f \in q.facts : seen[f].status = "active" /\ seen[f].space = "domain"
            /\ NonePending(q.facts)
      [] q.op = "decide" -> Open(q) /\ promotion[q.about].source = q.expected

Create(q, seen) ==
    /\ q.op = "create"
    /\ Write([f \in q.facts \cup {q.key} |->
                IF f \in q.facts THEN Invalidated(seen[f]) ELSE Created(q)], q.key)
    /\ successor' = [f \in Key |->
                IF f \in q.facts THEN successor[f] \cup {q.key} ELSE successor[f]]
    /\ UNCHANGED promotion

Invalidate(q, seen) ==
    /\ q.op = "invalidate"
    /\ Write([f \in q.facts |-> Invalidated(seen[f])], q.key)
    /\ UNCHANGED <<successor, promotion>>

Propose(q, seen) ==
    /\ q.op = "propose"
    /\ \E f \in q.facts : promotion' = [promotion EXCEPT ![q.key] =
            [facts |-> q.facts, source |-> seen[f].version, status |-> "pending"]]
    /\ UNCHANGED <<head, revisions, successor>>

\* Mutant of Current: no stale promotions.
CurrentAssumed(p, f, seen) == TRUE

\* The fact is still at the revision the promotion was opened for.
Current(p, f, seen) == seen[f].version = p.source

\* A decision about a revision that has moved on marks the promotion stale, and
\* that is committed; a verdict counts only for the revision it was given on.
Decide(q, seen) ==
    LET p == promotion[q.about] IN
    /\ q.op = "decide"
    /\ \E f \in p.facts :
        LET status == IF Current(p, f, seen) THEN q.verdict ELSE "stale"
        IN  /\ promotion' = [promotion EXCEPT ![q.about] =
                    [facts |-> p.facts, source |-> p.source, status |-> status]]
            /\ IF status = "approved"
               THEN Write([g \in {f} |-> Promoted(seen[f])], q.key)
               ELSE UNCHANGED <<head, revisions>>
    /\ UNCHANGED successor

Serve(q) == served' = [served EXCEPT ![q.key] = {q}]

Perform(q, seen, e) ==
    /\ Accepts(q, seen, e)
    /\ Create(q, seen) \/ Invalidate(q, seen) \/ Propose(q, seen) \/ Decide(q, seen)
    /\ Serve(q)

\* Mutant of Fresh: the record is looked up by the request's hash, not its key.
FreshByHash(q) == q \notin served[q.key] /\ (q.op = "create" => head[q.key].version = 0)

\* Nothing was served under the request's key, and its fact does not exist yet.
Fresh(q) == served[q.key] = {} /\ (q.op = "create" => head[q.key].version = 0)

\* The revisions a caller may name: one of each fact a create or invalidate
\* is about, none (0) of any other.
NoBelief == [f \in Key |-> 0]
Beliefs(q) ==
    IF q.op \in {"create", "invalidate"}
    THEN {[f \in Key |-> IF f \in q.facts THEN b[f] ELSE 0] : b \in [q.facts -> Version]}
    ELSE {NoBelief}

LedgerNext ==
    \E q \in Request : \E e \in Beliefs(q) : Fresh(q) /\ Perform(q, head, e)

LedgerSpec == LedgerInit /\ [][LedgerNext]_ledgerVars

-----------------------------------------------------------------------------
(* Properties                                                              *)

RevisionsOf(f) == {r \in revisions : r.fact = f}

\* No update is lost: the revisions of a fact are numbered 1, 2, ... without a
\* gap or a duplicate, and the head is the last of them (_lock_heads, and the
\* current_version guards of _invalidate_locked and decide).
HeadIsLastRevision ==
    \A f \in Key :
        /\ {r.row.version : r \in RevisionsOf(f)} = 1..head[f].version
        /\ \A r, s \in RevisionsOf(f) : r.row.version = s.row.version => r = s
        /\ \A r \in RevisionsOf(f) : r.row.version = head[f].version => r.row = head[f]

\* What a request, once served, has written revisions of.
Touched(q) ==
    CASE q.op = "create"     -> q.facts \cup {q.key}
      [] q.op = "invalidate" -> q.facts
      [] q.op = "propose"    -> {}
      [] q.op = "decide"     -> {f \in promotion[q.about].facts :
                                   /\ promotion[q.about].status = "approved"
                                   /\ q.verdict = "approved"}

\* A key takes effect all at once and once: a served request has written one
\* revision of each fact it touches, and a key under which nothing was served
\* has left nothing behind (_begin_idempotent and _finish_idempotent in the
\* transaction of the write).
KeyTakesEffectOnce ==
    \A k \in Key :
        LET by == {r \in revisions : r.by = k} IN
        /\ served[k] = {} => /\ by = {}
                            /\ promotion[k] = NoPromotion
                            /\ \A f \in Key : k \notin successor[f]
        /\ \A q \in served[k] :
            /\ {r.fact : r \in by} \subseteq Touched(q)
            /\ q.op # "decide" => {r.fact : r \in by} = Touched(q)
            /\ \A r, s \in by : r.fact = s.fact => r = s

\* A fact is superseded by at most one other, and then it is invalidated, by
\* the very request that created its successor (create writes both).
SupersededOnce ==
    \A f \in Key : \A g \in successor[f] :
        /\ successor[f] = {g}
        /\ head[f].status = "invalidated"
        /\ head[g].version > 0
        /\ \E r \in revisions : r.fact = f /\ r.row = head[f] /\ r.by = g

\* An approved promotion published the revision that was reviewed: the one
\* right after its source, still active, written by a decision about it.
ApprovedAsReviewed ==
    \A p \in Key : promotion[p].status = "approved" =>
        \E r \in revisions :
            /\ r.fact \in promotion[p].facts
            /\ r.row = [version |-> promotion[p].source + 1, status |-> "active", space |-> "shared"]
            /\ \E q \in served[r.by] : q.op = "decide" /\ q.about = p /\ q.verdict = "approved"

\* A fact has at most one promotion waiting for a reviewer (propose looks for
\* another with the head locked).
OnePendingPerFact ==
    \A r, s \in Key :
        /\ promotion[r].status = "pending"
        /\ promotion[s].status = "pending"
        /\ promotion[r].facts = promotion[s].facts
        => r = s

\* The life of a fact, which the projection of the search index relies on (it
\* is what IndexProjection's writers do): created active, promoted at most once
\* and only from plk.domain.*, invalidated once and never changed after that.
LifeCycle ==
    [][ /\ revisions \subseteq revisions'
        /\ \A f \in Key :
            LET h == head[f] IN
            \/ head'[f] = h
            \/ h = NoHead /\ \E s \in Space : head'[f] = [version |-> 1, status |-> "active", space |-> s]
            \/ h.status = "active" /\ h.space = "domain" /\ head'[f] = Promoted(h)
            \/ h.status = "active" /\ head'[f] = Invalidated(h) ]_ledgerVars

\* A decision is final: a promotion leaves "pending" once (decide re-reads the
\* row under its lock).
DecidedOnce ==
    [][\A r \in Key : promotion[r].status \in Verdict \cup {"stale"}
                          => promotion'[r] = promotion[r]]_ledgerVars
=============================================================================
