----------------------------- MODULE FactStore ------------------------------
(***************************************************************************)
(* The write path of the PostgreSQL fact store: concurrent transactions of *)
(* PostgresFactRepository (create, invalidate) and                         *)
(* PostgresApprovalRepository (propose, decide) under READ COMMITTED.      *)
(*                                                                         *)
(* A call reads the revisions it expects, if the caller did not name them, *)
(* opens a transaction, inserts the idempotency record of its key (waiting *)
(* for a transaction that inserted the same key), locks the promotion row  *)
(* (decide), locks the heads in the order of their ids, and only then      *)
(* checks and writes.  What it writes is FactLedger's Perform, applied to  *)
(* the rows as they were when they were locked.                            *)
(*                                                                         *)
(* A call may be cancelled, lose its connection or die with its process at *)
(* any point of the transaction, which rolls back; a caller whose answer   *)
(* was lost sends its request again.                                       *)
(***************************************************************************)
EXTENDS FactLedger, FiniteSets

CONSTANTS Client      \* callers with a connection of their own

ASSUME StoreAssumption ==
    /\ Client # {}
    /\ IsFiniteSet(Key)

VARIABLES
    stage,      \* stage[c]: "idle", "keying" (before the key), "locking" (after it)
    req,        \* req[c]: {the request being served}, or {}
    exp,        \* exp[c][f]: the revision of f the caller expects, 0 for none
    row,        \* row[c]: the promotion rows c has locked
    held,       \* held[c]: the heads c has locked
    seen        \* seen[c][f]: the head as c read it when it locked it

clientVars == <<stage, req, exp, row, held, seen>>
vars == <<head, revisions, successor, promotion, served, stage, req, exp, row, held, seen>>

NothingSeen == [f \in Key |-> NoHead]

TypeOK ==
    /\ LedgerTypeOK
    /\ stage \in [Client -> {"idle", "keying", "locking"}]
    /\ req \in [Client -> SUBSET Request]
    /\ exp \in [Client -> [Key -> {0} \cup Version]]
    /\ row \in [Client -> SUBSET Key]
    /\ held \in [Client -> SUBSET Key]
    /\ seen \in [Client -> [Key -> HeadRow]]

Init ==
    /\ LedgerInit
    /\ stage = [c \in Client |-> "idle"]
    /\ req = [c \in Client |-> {}]
    /\ exp = [c \in Client |-> NoBelief]
    /\ row = [c \in Client |-> {}]
    /\ held = [c \in Client |-> {}]
    /\ seen = [c \in Client |-> NothingSeen]

-----------------------------------------------------------------------------
(* Locks                                                                   *)

\* Mutant of KeyTaken: the insert does not wait for another transaction's.
KeyTakenNever(c, k) == FALSE

\* The uncommitted idempotency record of the key is another transaction's.
KeyTaken(c, k) ==
    \E d \in Client \ {c} : stage[d] = "locking" /\ \E q \in req[d] : q.key = k

\* Mutant of HeadTaken: the heads are read without FOR UPDATE.
HeadTakenNever(c, f) == FALSE

RowTaken(c, r) == \E d \in Client \ {c} : r \in row[d]
HeadTaken(c, f) == \E d \in Client \ {c} : f \in held[d]

\* The promotion row a request locks, and the heads it locks after that.
Rows(q) == IF q.op = "decide" THEN {q.about} ELSE {}
Heads(q) == IF q.op = "decide" THEN promotion[q.about].facts ELSE q.facts

\* Mutant of NextToLock: the heads are locked in the order the plan finds them.
NextToLockUnordered(c, f) ==
    \E q \in req[c] :
        /\ row[c] = Rows(q)
        /\ q.op = "decide" => Open(q)
        /\ f \in Heads(q) \ held[c]

\* ORDER BY fact_id FOR UPDATE: the smallest id first.
NextToLock(c, f) ==
    \E q \in req[c] :
        /\ row[c] = Rows(q)
        /\ q.op = "decide" => Open(q)
        /\ f \in Heads(q) \ held[c]
        /\ \A g \in Heads(q) \ held[c] : f <= g

\* The call is over: commit or rollback, which releases its locks.
Finish(c) ==
    /\ stage' = [stage EXCEPT ![c] = "idle"]
    /\ req' = [req EXCEPT ![c] = {}]
    /\ exp' = [exp EXCEPT ![c] = NoBelief]
    /\ row' = [row EXCEPT ![c] = {}]
    /\ held' = [held EXCEPT ![c] = {}]
    /\ seen' = [seen EXCEPT ![c] = NothingSeen]

-----------------------------------------------------------------------------
(* Actions                                                                 *)

\* What a caller can name it has seen: facts and promotions that exist, and for
\* each fact a create or invalidate names, its revision now or an earlier one.
Known(q) ==
    /\ \A f \in q.facts : head[f].version > 0
    /\ q.op = "decide" => promotion[q.about].status # "none"

\* A first attempt, a retry after a lost answer, or the reuse of a key.
Begin(c, q, e) ==
    /\ stage[c] = "idle"
    /\ Known(q)
    /\ \A f \in q.facts : e[f] <= head[f].version
    /\ stage' = [stage EXCEPT ![c] = "keying"]
    /\ req' = [req EXCEPT ![c] = {q}]
    /\ exp' = [exp EXCEPT ![c] = e]
    /\ UNCHANGED <<ledgerVars, row, held, seen>>

\* INSERT ... ON CONFLICT DO NOTHING, then the create's look for its own fact.
\* A key served before ends the call, with the stored answer or a conflict.
InsertKey(c) ==
    /\ stage[c] = "keying"
    /\ \E q \in req[c] :
        /\ ~KeyTaken(c, q.key)
        /\ IF Fresh(q)
           THEN /\ stage' = [stage EXCEPT ![c] = "locking"]
                /\ UNCHANGED <<req, exp, row, held, seen>>
           ELSE Finish(c)
    /\ UNCHANGED ledgerVars

\* decide: SELECT the promotion row FOR UPDATE.
LockRow(c) ==
    /\ stage[c] = "locking"
    /\ \E q \in req[c] :
        /\ \A r \in Rows(q) : r \notin row[c] /\ ~RowTaken(c, r)
        /\ Rows(q) # {}
        /\ row' = [row EXCEPT ![c] = Rows(q)]
    /\ UNCHANGED <<ledgerVars, stage, req, exp, held, seen>>

\* Lock one more head, and read it as it is once the lock is granted.
LockHead(c, f) ==
    /\ stage[c] = "locking"
    /\ NextToLock(c, f)
    /\ ~HeadTaken(c, f)
    /\ head[f].version > 0
    /\ held' = [held EXCEPT ![c] = @ \cup {f}]
    /\ seen' = [seen EXCEPT ![c][f] = head[f]]
    /\ UNCHANGED <<ledgerVars, stage, req, exp, row>>

\* Everything the checks are about is locked; a decide whose promotion is no
\* longer pending looks no further than that row.
AllLocked(c, q) ==
    /\ row[c] = Rows(q)
    /\ held[c] = Heads(q) \/ (q.op = "decide" /\ ~Open(q))

Commit(c) ==
    /\ stage[c] = "locking"
    /\ \E q \in req[c] : AllLocked(c, q) /\ Perform(q, seen[c], exp[c])
    /\ Finish(c)

\* A failed check raises: the transaction rolls back, the key with it.
Reject(c) ==
    /\ stage[c] = "locking"
    /\ \E q \in req[c] : AllLocked(c, q) /\ ~Accepts(q, seen[c], exp[c])
    /\ Finish(c)
    /\ UNCHANGED ledgerVars

\* Cancelled, disconnected or dead inside the transaction.
Abort(c) ==
    /\ stage[c] # "idle"
    /\ Finish(c)
    /\ UNCHANGED ledgerVars

Proceed(c) ==
    InsertKey(c) \/ LockRow(c) \/ (\E f \in Key : LockHead(c, f)) \/ Commit(c) \/ Reject(c)

Next ==
    \E c \in Client :
        \/ \E q \in Request : \E e \in Beliefs(q) : Begin(c, q, e)
        \/ Proceed(c)
        \/ Abort(c)

Spec == Init /\ [][Next]_vars

\* PostgreSQL grants a lock to its waiters in turn, and a session that has its
\* rows runs on; nothing makes a call fail or a caller come back.
Fairness == \A c \in Client : SF_vars(Proceed(c))

LiveSpec == Spec /\ Fairness

-----------------------------------------------------------------------------
(* Properties                                                              *)

\* Read-committed transactions that lock what they check behave as if each
\* request took effect at one instant, against the heads of that instant.
Linearizable == LedgerSpec

\* The transactions c waits for.
WaitsFor(c) ==
    {d \in Client \ {c} :
        \E q \in req[c] :
            \/ stage[c] = "keying" /\ stage[d] = "locking" /\ \E p \in req[d] : p.key = q.key
            \/ stage[c] = "locking" /\ row[c] # Rows(q) /\ Rows(q) \cap row[d] # {}
            \/ stage[c] = "locking" /\ \E f \in held[d] : NextToLock(c, f)}

\* No deadlock: in any group of callers one waits for none of the group (keys
\* before promotion rows, those before heads, heads in the order of their ids).
NoWaitCircle ==
    \A S \in (SUBSET Client) \ {{}} : \E c \in S : WaitsFor(c) \cap S = {}

\* Every call that is made is answered, by success, replay or error: no waiter
\* starves behind locks that are taken again and again.
EveryCallEnds == \A c \in Client : stage[c] # "idle" ~> stage[c] = "idle"
=============================================================================
