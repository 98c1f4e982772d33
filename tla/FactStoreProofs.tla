-------------------------- MODULE FactStoreProofs ---------------------------
(***************************************************************************)
(* FactStore implements FactLedger, for any number of callers, keys and    *)
(* requests: its locks make each transaction one step of the ledger.  What *)
(* FactLedgerProofs proves of the ledger therefore holds of the store.     *)
(*                                                                         *)
(* The invariant says what the locks are for.  A key, a promotion row and  *)
(* a head are one transaction's at a time; while a transaction holds a     *)
(* head, it stays as it was when it was locked; and while it holds its     *)
(* key, nothing is served under that key and no fact is born of it.        *)
(***************************************************************************)
EXTENDS FactStore, FactLedgerProofs, FiniteSetTheorems, WellFoundedInduction

ClientTypeOK ==
    /\ stage \in [Client -> {"idle", "keying", "locking"}]
    /\ req \in [Client -> SUBSET Request]
    /\ exp \in [Client -> [Key -> {0} \cup Version]]
    /\ row \in [Client -> SUBSET Key]
    /\ held \in [Client -> SUBSET Key]
    /\ seen \in [Client -> [Key -> HeadRow]]

\* A caller has one request and the revisions it may name for it, and locks
\* nothing before its key.
CallInv ==
    \A c \in Client :
        /\ \A q, p \in req[c] : q = p
        /\ \A q \in req[c] : exp[c] \in Beliefs(q)
        /\ stage[c] # "locking" => held[c] = {} /\ row[c] = {}

\* One transaction per key, promotion row and head.
ExclusiveInv ==
    \A c, d \in Client : c # d =>
        /\ held[c] \cap held[d] = {}
        /\ row[c] \cap row[d] = {}
        /\ stage[c] = "locking" /\ stage[d] = "locking" =>
              \A q \in req[c], p \in req[d] : q.key # p.key

\* What a transaction has locked is as it read it, and its key is unused.
CurrentInv ==
    \A c \in Client :
        /\ \A f \in held[c] : head[f].version > 0 /\ seen[c][f] = head[f]
        /\ stage[c] = "locking" => \A q \in req[c] : Fresh(q)

StoreInv == Shapes /\ ClientTypeOK /\ CallInv /\ ExclusiveInv /\ CurrentInv

-----------------------------------------------------------------------------
(* A commit is a step of the ledger                                        *)

\* The operations depend on the heads they lock and on no others.
LEMMA ChecksAgree ==
    ASSUME NEW q \in Request, NEW s, NEW e, \A f \in Heads(q) : s[f] = head[f],
           Accepts(q, s, e)
    PROVE  Accepts(q, head, e)
<1>1. CASE q.op \in {"create", "invalidate"}
  <2>1. Heads(q) = q.facts BY <1>1 DEF Heads
  <2>2. \A f \in q.facts : head[f].version = e[f] /\ head[f].status = "active"
    BY <1>1, <2>1, AcceptsWrite
  <2> QED BY <1>1, <2>2 DEF Accepts, Expected
<1>2. CASE q.op = "propose"
  <2>1. Heads(q) = q.facts BY <1>2 DEF Heads
  <2>2. /\ \A f \in q.facts : head[f].status = "active" /\ head[f].space = "domain"
        /\ NonePending(q.facts)
    BY <1>2, <2>1, AcceptsPropose
  <2> QED BY <1>2, <2>2 DEF Accepts
<1>3. CASE q.op = "decide"
  <2>1. promotion[q.about].status = "pending" /\ promotion[q.about].source = q.expected
    BY <1>3, AcceptsDecide
  <2> QED BY <1>3, <2>1 DEF Accepts, Open
<1> QED BY <1>1, <1>2, <1>3, RequestFields

\* On heads that agree with the locked copies, a request has the same effect.
LEMMA EffectsAgree ==
    ASSUME NEW q \in Request, NEW s, NEW e, \A f \in Heads(q) : s[f] = head[f],
           Perform(q, s, e)
    PROVE  Perform(q, head, e)
<1>1. Accepts(q, head, e) /\ Serve(q) BY ChecksAgree DEF Perform
<1>2. CASE Create(q, s)
  <2>1. q.op = "create" BY <1>2 DEF Create
  <2>2. \A f \in q.facts : s[f] = head[f] BY <2>1 DEF Heads
  <2>3. [f \in q.facts \cup {q.key} |-> IF f \in q.facts THEN Invalidated(s[f]) ELSE Created(q)]
      = [f \in q.facts \cup {q.key} |-> IF f \in q.facts THEN Invalidated(head[f]) ELSE Created(q)]
    BY <2>2
  <2> QED BY <1>1, <1>2, <2>3 DEF Create, Perform
<1>3. CASE Invalidate(q, s)
  <2>1. q.op = "invalidate" BY <1>3 DEF Invalidate
  <2>2. \A f \in q.facts : s[f] = head[f] BY <2>1 DEF Heads
  <2>3. [f \in q.facts |-> Invalidated(s[f])] = [f \in q.facts |-> Invalidated(head[f])]
    BY <2>2
  <2> QED BY <1>1, <1>3, <2>3 DEF Invalidate, Perform
<1>4. CASE Propose(q, s)
  <2>1. q.op = "propose" BY <1>4 DEF Propose
  <2>2. \A f \in q.facts : s[f] = head[f] BY <2>1 DEF Heads
  <2>3. Propose(q, head) BY <1>4, <2>2 DEF Propose
  <2> QED BY <1>1, <2>3 DEF Perform
<1>5. CASE Decide(q, s)
  <2>1. q.op = "decide" BY <1>5 DEF Decide
  <2>2. \A f \in promotion[q.about].facts : s[f] = head[f] BY <2>1 DEF Heads
  <2>3. Decide(q, head) BY <1>5, <2>2 DEF Decide, Current
  <2> QED BY <1>1, <2>3 DEF Perform
<1> QED BY <1>2, <1>3, <1>4, <1>5 DEF Perform

\* A commit finds its key unused and everything it writes about unchanged.
LEMMA CommitPerforms ==
    ASSUME StoreInv, NEW c \in Client, Commit(c)
    PROVE  \E q \in req[c] : /\ q \in Request
                             /\ exp[c] \in Beliefs(q)
                             /\ Fresh(q)
                             /\ held[c] = Heads(q)
                             /\ Perform(q, head, exp[c])
<1>1. stage[c] = "locking" BY DEF Commit
<1>2. PICK q \in req[c] : AllLocked(c, q) /\ Perform(q, seen[c], exp[c]) BY DEF Commit
<1>3. q \in Request BY DEF StoreInv, ClientTypeOK
<1>4. held[c] = Heads(q)
  <2>1. Accepts(q, seen[c], exp[c]) BY <1>2 DEF Perform
  <2>2. q.op = "decide" => Open(q) BY <1>3, <2>1, AcceptsDecide DEF Open
  <2> QED BY <1>2, <2>2 DEF AllLocked
<1>5. \A f \in Heads(q) : seen[c][f] = head[f] BY <1>4 DEF StoreInv, CurrentInv
<1>6. Perform(q, head, exp[c]) BY <1>2, <1>3, <1>5, EffectsAgree
<1>7. exp[c] \in Beliefs(q) BY DEF StoreInv, CallInv
<1>8. Fresh(q) BY <1>1 DEF StoreInv, CurrentInv
<1> QED BY <1>3, <1>4, <1>6, <1>7, <1>8

\* Every commit is a step of the ledger, and no other action is one.
LEMMA StepImplements ==
    ASSUME StoreInv, [Next]_vars
    PROVE  [LedgerNext]_ledgerVars
<1>1. CASE UNCHANGED vars BY <1>1 DEF vars, ledgerVars
<1>2. ASSUME NEW c \in Client, Commit(c) PROVE LedgerNext
  BY <1>2, CommitPerforms DEF LedgerNext
<1>3. ASSUME NEW c \in Client, NEW q \in Request, NEW e \in Beliefs(q), Begin(c, q, e)
      PROVE  UNCHANGED ledgerVars
  BY <1>3 DEF Begin
<1>4. ASSUME NEW c \in Client, InsertKey(c) \/ LockRow(c) \/ (\E f \in Key : LockHead(c, f)) \/ Reject(c) \/ Abort(c)
      PROVE  UNCHANGED ledgerVars
  BY <1>4 DEF InsertKey, LockRow, LockHead, Reject, Abort
<1>5. CASE Next BY <1>2, <1>3, <1>4, <1>5 DEF Next, Proceed
<1> QED BY <1>1, <1>5
-----------------------------------------------------------------------------
(* The invariant is kept                                                   *)

\* What a caller may believe is a revision for each key.
LEMMA BeliefsTyped ==
    ASSUME NEW q \in Request, NEW e \in Beliefs(q)
    PROVE  e \in [Key -> {0} \cup Version]
BY DEF Beliefs, NoBelief

\* The parts of the invariant that are about one caller, or two.
Calls(c) ==
    /\ \A q, p \in req[c] : q = p
    /\ \A q \in req[c] : exp[c] \in Beliefs(q)
    /\ stage[c] # "locking" => held[c] = {} /\ row[c] = {}

Apart(c, d) ==
    /\ held[c] \cap held[d] = {}
    /\ row[c] \cap row[d] = {}
    /\ stage[c] = "locking" /\ stage[d] = "locking" => \A q \in req[c], p \in req[d] : q.key # p.key

IsCurrent(c) ==
    /\ \A f \in held[c] : head[f].version > 0 /\ seen[c][f] = head[f]
    /\ stage[c] = "locking" => \A q \in req[c] : Fresh(q)

\* The conjuncts of StoreInv, one by one.
LEMMA StoreInvRestated ==
    StoreInv <=>
        /\ Shapes /\ ClientTypeOK
        /\ \A c \in Client : Calls(c) /\ IsCurrent(c)
        /\ \A c, d \in Client : c # d => Apart(c, d)
BY DEF StoreInv, CallInv, ExclusiveInv, CurrentInv, Calls, Apart, IsCurrent

\* Only c's call moves; the ledger does not.
OnlyCall(c) ==
    /\ UNCHANGED ledgerVars
    /\ \A d \in Client \ {c} :
        UNCHANGED <<stage[d], req[d], exp[d], row[d], held[d], seen[d]>>

\* A step of c's call keeps the invariant if it does so for c.
LEMMA OneCallMoves ==
    ASSUME StoreInv, NEW c \in Client, OnlyCall(c), ClientTypeOK', Calls(c)', IsCurrent(c)',
           \A d \in Client \ {c} : Apart(c, d)'
    PROVE  StoreInv'
<1>1. Shapes'
  BY DEF StoreInv, Shapes, OnlyCall, ledgerVars, LedgerTypeOK, HeadShape, PromotionShape
<1>2. \A d \in Client \ {c} : Calls(d)'
  BY DEF StoreInv, CallInv, Calls, OnlyCall
<1>3. \A d \in Client \ {c} : IsCurrent(d)'
  BY DEF StoreInv, CurrentInv, IsCurrent, OnlyCall, ledgerVars, Fresh
<1>4. \A b, d \in Client \ {c} : b # d => Apart(b, d)'
  BY DEF StoreInv, ExclusiveInv, Apart, OnlyCall
<1>5. \A d \in Client \ {c} : Apart(d, c)' BY DEF Apart
<1>6. \A b, d \in Client : b # d => Apart(b, d)' BY <1>4, <1>5
<1>7. \A d \in Client : Calls(d)' /\ IsCurrent(d)' BY <1>2, <1>3
<1> QED BY <1>1, <1>6, <1>7 DEF StoreInv, CallInv, ExclusiveInv, CurrentInv, Calls, Apart, IsCurrent

\* What Finish leaves of c's call.
LEMMA FinishClears ==
    ASSUME StoreInv, NEW c \in Client, Finish(c)
    PROVE  /\ ClientTypeOK'
           /\ stage'[c] = "idle" /\ req'[c] = {} /\ row'[c] = {} /\ held'[c] = {}
           /\ \A d \in Client \ {c} :
                UNCHANGED <<stage[d], req[d], exp[d], row[d], held[d], seen[d]>>
<1>1. NoBelief \in [Key -> {0} \cup Version] BY DEF NoBelief
<1>2. NothingSeen \in [Key -> HeadRow] BY DEF NothingSeen, NoHead, HeadRow, Status, Space
<1>3. ClientTypeOK BY DEF StoreInv
<1>4. ClientTypeOK' BY <1>1, <1>2, <1>3 DEF ClientTypeOK, Finish
<1> QED BY <1>3, <1>4 DEF ClientTypeOK, Finish

\* A call that ends without a commit keeps the invariant.
LEMMA RollbackKeeps ==
    ASSUME StoreInv, NEW c \in Client, Finish(c), UNCHANGED ledgerVars
    PROVE  StoreInv'
<1>1. OnlyCall(c) BY FinishClears DEF OnlyCall
<1>2. Calls(c)' BY FinishClears DEF Calls
<1>3. IsCurrent(c)' BY FinishClears DEF IsCurrent
<1>4. \A d \in Client \ {c} : Apart(c, d)' BY FinishClears DEF Apart
<1> QED BY <1>1, <1>2, <1>3, <1>4, FinishClears, OneCallMoves

\* A new call holds nothing.
LEMMA BeginKeeps ==
    ASSUME StoreInv, NEW c \in Client, NEW q \in Request, NEW e \in Beliefs(q), Begin(c, q, e)
    PROVE  StoreInv'
<1>1. ClientTypeOK BY DEF StoreInv
<1>2. ClientTypeOK' BY <1>1, BeliefsTyped DEF ClientTypeOK, Begin
<1>3. stage[c] = "idle" /\ held[c] = {} /\ row[c] = {} BY DEF Begin, StoreInv, CallInv
<1>4. stage'[c] = "keying" /\ req'[c] = {q} /\ exp'[c] = e /\ held'[c] = {} /\ row'[c] = {}
  BY <1>1, <1>3 DEF Begin, ClientTypeOK
<1>5. OnlyCall(c) BY <1>1 DEF OnlyCall, Begin, ClientTypeOK
<1>6. Calls(c)' BY <1>4 DEF Calls
<1>7. IsCurrent(c)' BY <1>4 DEF IsCurrent
<1>8. \A d \in Client \ {c} : Apart(c, d)' BY <1>4 DEF Apart
<1> QED BY <1>2, <1>5, <1>6, <1>7, <1>8, OneCallMoves

\* A key is granted when no other transaction has it and nothing was served.
LEMMA InsertKeyKeeps ==
    ASSUME StoreInv, NEW c \in Client, InsertKey(c)
    PROVE  StoreInv'
<1>1. PICK q \in req[c] :
        /\ ~KeyTaken(c, q.key)
        /\ IF Fresh(q)
           THEN /\ stage' = [stage EXCEPT ![c] = "locking"]
                /\ UNCHANGED <<req, exp, row, held, seen>>
           ELSE Finish(c)
  BY DEF InsertKey
<1>2. stage[c] = "keying" /\ UNCHANGED ledgerVars BY DEF InsertKey
<1>3. CASE ~Fresh(q) BY <1>1, <1>2, <1>3, RollbackKeeps
<1>4. CASE Fresh(q)
  <2>1. ClientTypeOK BY DEF StoreInv
  <2>2. ClientTypeOK' BY <1>1, <1>4, <2>1 DEF ClientTypeOK
  <2>3. Calls(c) /\ held[c] = {} /\ row[c] = {}
    BY <1>2 DEF StoreInv, CallInv, Calls
  <2>4. stage'[c] = "locking" /\ UNCHANGED <<req, exp, row, held, seen>> BY <1>1, <1>4, <2>1 DEF ClientTypeOK
  <2>5. OnlyCall(c) BY <1>1, <1>2, <1>4, <2>1 DEF OnlyCall, ClientTypeOK
  <2>6. Calls(c)' BY <2>3, <2>4 DEF Calls
  <2>7. \A p \in req[c] : p = q BY <2>3 DEF Calls
  <2>8. Fresh(q)' BY <1>2, <1>4 DEF Fresh, ledgerVars
  <2>9. IsCurrent(c)' BY <2>3, <2>4, <2>7, <2>8 DEF IsCurrent
  <2>10. \A d \in Client \ {c} : stage[d] = "locking" => \A p \in req[d] : p.key # q.key
    BY <1>1 DEF KeyTaken
  <2>11. \A d \in Client \ {c} : stage'[d] = stage[d] BY <2>5 DEF OnlyCall
  <2>12. \A d \in Client \ {c} : Apart(c, d)' BY <2>3, <2>4, <2>7, <2>10, <2>11 DEF Apart
  <2> QED BY <2>2, <2>5, <2>6, <2>9, <2>12, OneCallMoves
<1> QED BY <1>3, <1>4

\* A promotion row is granted when no other transaction has it.
LEMMA LockRowKeeps ==
    ASSUME StoreInv, NEW c \in Client, LockRow(c)
    PROVE  StoreInv'
<1>1. PICK q \in req[c] :
        /\ \A r \in Rows(q) : r \notin row[c] /\ ~RowTaken(c, r)
        /\ row' = [row EXCEPT ![c] = Rows(q)]
  BY DEF LockRow
<1>2. stage[c] = "locking" /\ UNCHANGED <<ledgerVars, stage, req, exp, held, seen>> BY DEF LockRow
<1>3. ClientTypeOK BY DEF StoreInv
<1>4. Rows(q) \subseteq Key
  <2>1. q \in Request BY <1>3 DEF ClientTypeOK
  <2> QED BY <2>1, RequestFields DEF Rows
<1>5. ClientTypeOK' BY <1>1, <1>2, <1>3, <1>4 DEF ClientTypeOK
<1>6. row'[c] = Rows(q) /\ \A d \in Client \ {c} : row'[d] = row[d] BY <1>1, <1>3 DEF ClientTypeOK
<1>7. OnlyCall(c) BY <1>2, <1>6 DEF OnlyCall
<1>8. Calls(c)' BY <1>2 DEF StoreInv, CallInv, Calls
<1>9. IsCurrent(c)' BY <1>2 DEF StoreInv, CurrentInv, IsCurrent, ledgerVars, Fresh
<1>10. \A d \in Client \ {c} : Apart(c, d)'
  BY <1>1, <1>2, <1>6 DEF StoreInv, ExclusiveInv, Apart, RowTaken
<1> QED BY <1>5, <1>7, <1>8, <1>9, <1>10, OneCallMoves

\* A head is granted when no other transaction has it, and read after that.
LEMMA LockHeadKeeps ==
    ASSUME StoreInv, NEW c \in Client, NEW f \in Key, LockHead(c, f)
    PROVE  StoreInv'
<1>1. /\ stage[c] = "locking" /\ ~HeadTaken(c, f) /\ head[f].version > 0
      /\ held' = [held EXCEPT ![c] = @ \cup {f}]
      /\ seen' = [seen EXCEPT ![c][f] = head[f]]
      /\ UNCHANGED <<ledgerVars, stage, req, exp, row>>
  BY DEF LockHead
<1>2. ClientTypeOK /\ head[f] \in HeadRow BY HeadFields DEF StoreInv, Shapes
<1>3. held' \in [Client -> SUBSET Key] BY <1>1, <1>2 DEF ClientTypeOK
<1>4. seen' \in [Client -> [Key -> HeadRow]] BY <1>1, <1>2 DEF ClientTypeOK
<1>5. ClientTypeOK' BY <1>1, <1>2, <1>3, <1>4 DEF ClientTypeOK
<1>6. /\ held'[c] = held[c] \cup {f}
      /\ \A d \in Client \ {c} : held'[d] = held[d] /\ seen'[d] = seen[d]
      /\ \A g \in Key : seen'[c][g] = IF g = f THEN head[f] ELSE seen[c][g]
  BY <1>1, <1>2 DEF ClientTypeOK
<1>7. OnlyCall(c) BY <1>1, <1>6 DEF OnlyCall
<1>8. Calls(c)' BY <1>1 DEF StoreInv, CallInv, Calls
<1>9. IsCurrent(c)'
  <2>1. held[c] \subseteq Key BY <1>2 DEF ClientTypeOK
  <2>2. \A g \in held[c] : head[g].version > 0 /\ seen[c][g] = head[g] BY DEF StoreInv, CurrentInv
  <2>3. \A q \in req[c] : Fresh(q) BY <1>1 DEF StoreInv, CurrentInv
  <2>4. head' = head /\ served' = served /\ req'[c] = req[c] BY <1>1 DEF ledgerVars
  <2>5. \A g \in held'[c] : head'[g].version > 0 /\ seen'[c][g] = head'[g]
    BY <1>1, <1>6, <2>1, <2>2, <2>4
  <2>6. \A q \in req'[c] : Fresh(q)' BY <2>3, <2>4 DEF Fresh
  <2> QED BY <2>5, <2>6 DEF IsCurrent
<1>10. \A d \in Client \ {c} : Apart(c, d)'
  BY <1>1, <1>6 DEF StoreInv, ExclusiveInv, Apart, HeadTaken
<1> QED BY <1>5, <1>7, <1>8, <1>9, <1>10, OneCallMoves

\* A step of the ledger changes no head but those its request locks and the
\* one it creates.
LEMMA StepFrame ==
    ASSUME Shapes, NEW q \in Request, Step(q), NEW f \in Key, f \notin Heads(q),
           head'[f] # head[f]
    PROVE  q.op = "create" /\ f = q.key
<1>1. CASE q.op = "create"
  <2>1. Writes(q.facts \cup {q.key}, q.key) BY <1>1 DEF Step
  <2>2. f \notin q.facts BY <1>1 DEF Heads
  <2> QED BY <1>1, <2>1, <2>2 DEF Writes
<1>2. CASE q.op = "invalidate"
  <2>1. Writes(q.facts, q.key) BY <1>2 DEF Step
  <2>2. f \notin q.facts BY <1>2 DEF Heads
  <2> QED BY <2>1, <2>2 DEF Writes
<1>3. CASE q.op = "propose" BY <1>3 DEF Step
<1>4. CASE q.op = "decide"
  <2>1. PICK g \in Key : /\ promotion[q.about].facts = {g}
                         /\ UNCHANGED <<head, revisions>> \/ Writes({g}, q.key)
    BY <1>4 DEF Step
  <2>2. f # g BY <1>4, <2>1 DEF Heads
  <2> QED BY <2>1, <2>2 DEF Writes
<1> QED BY <1>1, <1>2, <1>3, <1>4, RequestFields

\* A commit leaves what other transactions hold as they read it.
LEMMA OthersCurrent ==
    ASSUME StoreInv, NEW c \in Client, Commit(c), NEW d \in Client \ {c}
    PROVE  IsCurrent(d)'
<1>1. PICK q \in req[c] : q \in Request /\ Fresh(q) /\ held[c] = Heads(q) /\ Perform(q, head, exp[c])
  BY CommitPerforms
<1>2. Step(q) BY <1>1, PerformSteps DEF StoreInv
<1>3. UNCHANGED <<stage[d], req[d], held[d], seen[d]>> BY FinishClears DEF Commit
<1>4. IsCurrent(d) /\ Apart(c, d) /\ Calls(d) BY DEF StoreInv, CallInv, Calls, CurrentInv, IsCurrent, ExclusiveInv, Apart
<1>5. held[d] \subseteq Key /\ req[d] \subseteq Request /\ q.key \in Key
  BY <1>1, RequestFields DEF StoreInv, ClientTypeOK
<1>6. ASSUME NEW f \in held[d] PROVE head'[f] = head[f]
  <2>1. f \in Key /\ head[f].version > 0 BY <1>4, <1>5 DEF IsCurrent
  <2>2. f \notin Heads(q) BY <1>1, <1>4 DEF Apart
  <2>3. q.op = "create" => head[q.key].version = 0 BY <1>1 DEF Fresh
  <2>4. q.op = "create" => f # q.key BY <2>1, <2>3
  <2> QED BY <1>1, <1>2, <2>1, <2>2, <2>4, StepFrame DEF StoreInv
<1>7. ASSUME stage[d] = "locking", NEW p \in req[d] PROVE Fresh(p)'
  <2>1. Fresh(p) /\ p \in Request /\ p.key \in Key BY <1>4, <1>5, <1>7, RequestFields DEF IsCurrent
  <2>2. p.key # q.key BY <1>4, <1>7 DEF Apart, Commit
  <2>3. served \in [Key -> SUBSET Request] BY DEF StoreInv, Shapes, LedgerTypeOK
  <2>4. served'[p.key] = served[p.key] BY <1>2, <2>1, <2>2, <2>3 DEF Step
  <2>5. ASSUME p.op = "create" PROVE head'[p.key].version = 0
    <3>1. head[p.key].version = 0 BY <2>1, <2>5 DEF Fresh
    <3>2. p.key \notin Heads(q)
      <4>1. \A f \in held[c] : head[f].version > 0 BY DEF StoreInv, CurrentInv
      <4> QED BY <1>1, <3>1, <4>1
    <3>3. head'[p.key] = head[p.key] BY <1>1, <1>2, <2>1, <2>2, <3>2, StepFrame DEF StoreInv
    <3> QED BY <3>1, <3>3
  <2> QED BY <2>1, <2>4, <2>5 DEF Fresh
<1> QED BY <1>3, <1>4, <1>6, <1>7 DEF IsCurrent

\* A commit keeps the invariant.
LEMMA CommitKeeps ==
    ASSUME StoreInv, NEW c \in Client, Commit(c)
    PROVE  StoreInv'
<1>0. Finish(c) BY DEF Commit
<1>1. PICK q \in req[c] : q \in Request /\ Fresh(q) /\ Perform(q, head, exp[c])
  BY CommitPerforms
<1>2. Step(q) BY <1>1, PerformSteps DEF StoreInv
<1>3. Shapes' BY <1>1, <1>2, StepTyped, StepHeads, StepSources DEF StoreInv, Shapes
<1>4. /\ ClientTypeOK'
      /\ stage'[c] = "idle" /\ req'[c] = {} /\ row'[c] = {} /\ held'[c] = {}
      /\ \A d \in Client \ {c} :
           UNCHANGED <<stage[d], req[d], exp[d], row[d], held[d], seen[d]>>
  BY <1>0, FinishClears
<1>5. Calls(c)' /\ IsCurrent(c)' BY <1>4 DEF Calls, IsCurrent
<1>6. \A d \in Client \ {c} : Calls(d)' BY <1>4 DEF Calls, StoreInv, CallInv
<1>7. \A d \in Client \ {c} : IsCurrent(d)' BY OthersCurrent
<1>8. \A d \in Client \ {c} : Apart(c, d)' /\ Apart(d, c)' BY <1>4 DEF Apart
<1>9. \A b, d \in Client \ {c} : b # d => Apart(b, d)' BY <1>4 DEF Apart, StoreInv, ExclusiveInv
<1>10. \A b, d \in Client : b # d => Apart(b, d)' BY <1>8, <1>9
<1>11. \A d \in Client : Calls(d)' /\ IsCurrent(d)' BY <1>5, <1>6, <1>7
<1> QED BY <1>3, <1>4, <1>10, <1>11 DEF StoreInv, CallInv, ExclusiveInv, CurrentInv, Calls, Apart, IsCurrent

\* The invariant of the locks holds in every state of the store.
THEOREM LocksHold == Spec => []StoreInv
<1>1. Init => StoreInv
  <2> SUFFICES ASSUME Init PROVE StoreInv OBVIOUS
  <2>1. LedgerInit BY DEF Init
  <2>2. LedgerTypeOK
    BY <2>1 DEF LedgerInit, LedgerTypeOK, NoHead, NoPromotion, HeadRow, Promotion, Version, Status, Space, PromotionStatus
  <2>3. Shapes BY <2>1, <2>2 DEF LedgerInit, Shapes, HeadShape, PromotionShape, NoHead, NoPromotion
  <2>4. ClientTypeOK BY DEF Init, ClientTypeOK, NoBelief, NothingSeen, NoHead, HeadRow, Status, Space
  <2>5. CallInv /\ ExclusiveInv /\ CurrentInv BY DEF Init, CallInv, ExclusiveInv, CurrentInv
  <2> QED BY <2>3, <2>4, <2>5 DEF StoreInv
<1>2. StoreInv /\ [Next]_vars => StoreInv'
  <2> SUFFICES ASSUME StoreInv, [Next]_vars PROVE StoreInv' OBVIOUS
  <2>1. CASE UNCHANGED vars
    <3>1. Shapes' BY <2>1 DEF vars, StoreInv, Shapes, LedgerTypeOK, HeadShape, PromotionShape
    <3>2. ClientTypeOK' BY <2>1 DEF vars, StoreInv, ClientTypeOK
    <3>3. CallInv' /\ ExclusiveInv' BY <2>1 DEF vars, StoreInv, CallInv, ExclusiveInv
    <3>4. CurrentInv' BY <2>1 DEF vars, StoreInv, CurrentInv, Fresh
    <3> QED BY <3>1, <3>2, <3>3, <3>4 DEF StoreInv
  <2>2. ASSUME NEW c \in Client, NEW q \in Request, NEW e \in Beliefs(q), Begin(c, q, e) PROVE StoreInv'
    BY <2>2, BeginKeeps
  <2>3. ASSUME NEW c \in Client, Proceed(c) PROVE StoreInv'
    <3>1. CASE InsertKey(c) BY <3>1, InsertKeyKeeps
    <3>2. CASE LockRow(c) BY <3>2, LockRowKeeps
    <3>3. ASSUME NEW f \in Key, LockHead(c, f) PROVE StoreInv' BY <3>3, LockHeadKeeps
    <3>4. CASE Commit(c) BY <3>4, CommitKeeps
    <3>5. CASE Reject(c) BY <3>5, RollbackKeeps DEF Reject
    <3> QED BY <2>3, <3>1, <3>2, <3>3, <3>4, <3>5 DEF Proceed
  <2>4. ASSUME NEW c \in Client, Abort(c) PROVE StoreInv'
    BY <2>4, RollbackKeeps DEF Abort
  <2> QED BY <2>1, <2>2, <2>3, <2>4 DEF Next
<1> QED BY <1>1, <1>2, PTL DEF Spec

-----------------------------------------------------------------------------
(* What callers may rely on                                                *)

\* Every variable has its type; in particular no fact has a fourth revision.
THEOREM StoreTyped == Spec => []TypeOK
<1>1. StoreInv => TypeOK BY DEF StoreInv, Shapes, ClientTypeOK, TypeOK
<1> QED BY <1>1, LocksHold, PTL

\* The transactions are linearizable: each commit is the request taking effect
\* at one instant, against the heads of that instant, for the first time.
THEOREM StoreImplementsLedger == Spec => Linearizable
<1>1. Init => LedgerInit BY DEF Init
<1>2. Spec => [][LedgerNext]_ledgerVars BY StepImplements, LocksHold, PTL DEF Spec
<1> QED BY <1>1, <1>2, PTL DEF Spec, Linearizable, LedgerSpec

\* No update is lost between concurrent transactions.
THEOREM StoreNumbersRevisions == Spec => []HeadIsLastRevision
BY StoreImplementsLedger, RevisionsNumbered, PTL DEF Linearizable

\* A request repeated, concurrently or after a crash, takes effect once.
THEOREM StoreServesOnce == Spec => []KeyTakesEffectOnce
BY StoreImplementsLedger, KeysServeOnce, PTL DEF Linearizable

\* Concurrent creates never give a fact two successors.
THEOREM StoreSupersedesOnce == Spec => []SupersededOnce
BY StoreImplementsLedger, OneSuccessor, PTL DEF Linearizable

\* Concurrent decisions publish only what was reviewed.
THEOREM StoreApprovesReviewed == Spec => []ApprovedAsReviewed
BY StoreImplementsLedger, ApprovalsPublish, PTL DEF Linearizable

\* Concurrent proposals never leave a fact with two pending promotions.
THEOREM StoreOnePending == Spec => []OnePendingPerFact
BY StoreImplementsLedger, OnePromotionPending, PTL DEF Linearizable

\* Every fact lives the life the projection of the search index relies on.
THEOREM StoreFactsLiveOnce == Spec => LifeCycle
BY StoreImplementsLedger, FactsLiveOnce, PTL DEF Linearizable

\* No decision is overturned by another.
THEOREM StoreDecidesOnce == Spec => DecidedOnce
BY StoreImplementsLedger, DecisionsAreFinal, PTL DEF Linearizable

-----------------------------------------------------------------------------
(* No deadlock                                                             *)

\* A set of keys that is not empty has a greatest one.
LEMMA GreatestKey ==
    ASSUME NEW H, H \subseteq Key, H # {}
    PROVE  \E m \in H : \A k \in H : k <= m
<1> DEFINE Above(k) == {j \in Key : j > k}
           T == {Cardinality(Above(k)) : k \in H}
<1>0. IsFiniteSet(Key) /\ Key \subseteq Nat BY StoreAssumption, LedgerAssumption
<1>1. \A k \in H : IsFiniteSet(Above(k)) /\ Cardinality(Above(k)) \in Nat
  <2> TAKE k \in H
  <2>1. Above(k) \subseteq Key OBVIOUS
  <2> HIDE DEF Above
  <2> QED BY <1>0, <2>1, FS_Subset, FS_CardinalityType
<1>2. PICK t \in T : \A s \in T : ~(s < t)
  <2>1. T \subseteq Nat /\ T # {} BY <1>1
  <2>2. IsWellFoundedOn(OpToRel(<, Nat), Nat) BY NatLessThanWellFounded
  <2> HIDE DEF T
  <2>3. PICK t \in T : \A s \in T : ~(<<s, t>> \in OpToRel(<, Nat)) BY <2>1, <2>2, WFMin
  <2> QED BY <2>1, <2>3 DEF OpToRel
<1>3. PICK m \in H : t = Cardinality(Above(m)) OBVIOUS
<1>4. ASSUME NEW k \in H, k > m PROVE FALSE
  <2>0. k \in Key /\ m \in Key /\ k \in Nat /\ m \in Nat BY <1>0
  <2>3. Cardinality(Above(k)) \in T OBVIOUS
  <2> HIDE DEF T
  <2>1. \A j \in Key : j > k => j > m BY <1>0, <1>4, <2>0
  <2>5. Above(k) \subseteq Above(m) BY <2>1
  <2>2. k \in Above(m) /\ k \notin Above(k) BY <1>4, <2>0
  <2> HIDE DEF Above
  <2>4. Cardinality(Above(k)) <= Cardinality(Above(m)) /\ Cardinality(Above(k)) # Cardinality(Above(m))
    BY <1>1, <2>5, <2>2, FS_Subset
  <2> QED BY <1>1, <1>2, <1>3, <2>3, <2>4
<1>5. \A k \in H : k <= m
  <2> HIDE DEF Above, T
  <2>1. m \in Nat /\ \A k \in H : k \in Nat BY <1>0
  <2> QED BY <1>4, <2>1
<1> QED BY <1>5

\* How far a call has come: its promotion exists, it locks rows before heads,
\* and of the heads it needs it has locked the smallest.
Ordered(c) ==
    \A q \in req[c] :
        /\ q.op = "decide" => promotion[q.about].status # "none"
        /\ row[c] # {} => row[c] = Rows(q)
        /\ held[c] # {} => row[c] = Rows(q)
        /\ held[c] \subseteq Heads(q)
        /\ \A g \in held[c] : \A f \in Heads(q) \ held[c] : g < f

OrderInv == \A c \in Client : Ordered(c)

\* A promotion, once opened, stays and is about the same fact.
LEMMA PromotionStays ==
    ASSUME StoreInv, KeyTakesEffectOnce, [Next]_vars, NEW r \in Key, promotion[r].status # "none"
    PROVE  promotion'[r].status # "none" /\ promotion'[r].facts = promotion[r].facts
<1>1. CASE UNCHANGED ledgerVars BY <1>1 DEF ledgerVars
<1>2. CASE LedgerNext
  <2>1. PICK q \in Request : Step(q) BY <1>2, StepsKnown DEF StoreInv
  <2>2. promotion \in [Key -> Promotion] /\ q.key \in Key /\ q.about \in Key
    BY RequestFields DEF StoreInv, Shapes, LedgerTypeOK
  <2>3. CASE q.op = "propose"
    <3>1. \E f \in Key : PromotionMoved(q.key, f, "pending") BY <2>1, <2>3 DEF Step
    <3>2. served[q.key] = {} BY <2>1 DEF Step, Fresh
    <3>3. promotion[q.key] = NoPromotion BY <2>2, <3>2 DEF KeyTakesEffectOnce
    <3>4. r # q.key BY <3>3 DEF NoPromotion
    <3> QED BY <2>2, <3>1, <3>4 DEF PromotionMoved
  <2>4. CASE q.op = "decide"
    <3>1. PICK f \in Key : /\ promotion[q.about].facts = {f}
                           /\ \E s \in {"stale", "rejected", "approved"} : PromotionMoved(q.about, f, s)
      BY <2>1, <2>4 DEF Step
    <3> QED BY <2>2, <3>1 DEF PromotionMoved
  <2>5. CASE q.op \in {"create", "invalidate"} BY <2>1, <2>5 DEF Step
  <2> QED BY <2>3, <2>4, <2>5, RequestFields
<1> QED BY <1>1, <1>2, StepImplements

\* The heads a call needs do not change under it.
LEMMA HeadsStay ==
    ASSUME StoreInv, KeyTakesEffectOnce, [Next]_vars, NEW q \in Request,
           q.op = "decide" => promotion[q.about].status # "none"
    PROVE  /\ Heads(q)' = Heads(q)
           /\ q.op = "decide" => promotion'[q.about].status # "none"
BY PromotionStays, RequestFields DEF Heads

\* A call that keeps its locks, or gives all of them up, stays in order.
LEMMA SameLocksOrdered ==
    ASSUME StoreInv, OrderInv, KeyTakesEffectOnce, [Next]_vars, NEW d \in Client,
           UNCHANGED <<req[d], row[d], held[d]>>
    PROVE  Ordered(d)'
<1>1. req[d] \subseteq Request BY DEF StoreInv, ClientTypeOK
<1>2. \A q \in req[d] : /\ Heads(q)' = Heads(q)
                        /\ q.op = "decide" => promotion'[q.about].status # "none"
  BY <1>1, HeadsStay DEF OrderInv, Ordered
<1>3. Ordered(d) BY DEF OrderInv
<1> QED BY <1>2, <1>3 DEF Ordered, Rows

\* Every step keeps every call in order.
LEMMA OrderKept ==
    ASSUME StoreInv, OrderInv, KeyTakesEffectOnce, [Next]_vars
    PROVE  OrderInv'
<1>1. CASE UNCHANGED vars BY <1>1, SameLocksOrdered DEF vars, OrderInv
<1>2. ASSUME NEW c \in Client, Finish(c) PROVE OrderInv'
  <2>1. Ordered(c)' BY <1>2, FinishClears DEF Ordered
  <2>2. \A d \in Client \ {c} : Ordered(d)' BY <1>2, FinishClears, SameLocksOrdered
  <2> QED BY <2>1, <2>2 DEF OrderInv
<1>3. ClientTypeOK BY DEF StoreInv
<1>4. ASSUME NEW c \in Client, NEW q \in Request, NEW e \in Beliefs(q), Begin(c, q, e) PROVE OrderInv'
  <2>1. /\ req'[c] = {q} /\ row'[c] = {} /\ held'[c] = {}
        /\ q.op = "decide" => promotion'[q.about].status # "none"
        /\ \A d \in Client \ {c} : UNCHANGED <<req[d], row[d], held[d]>>
    BY <1>3, <1>4 DEF Begin, Known, ledgerVars, StoreInv, CallInv, ClientTypeOK
  <2>2. Ordered(c)' BY <2>1 DEF Ordered
  <2> QED BY <2>1, <2>2, SameLocksOrdered DEF OrderInv
<1>5. ASSUME NEW c \in Client, InsertKey(c) PROVE OrderInv'
  <2>1. CASE Finish(c) BY <1>2, <2>1
  <2>2. CASE UNCHANGED <<req, row, held>> BY <2>2, SameLocksOrdered DEF OrderInv
  <2> QED BY <1>5, <2>1, <2>2 DEF InsertKey
<1>6. ASSUME NEW c \in Client, LockRow(c) PROVE OrderInv'
  <2>1. PICK q \in req[c] : (\A r \in Rows(q) : r \notin row[c]) /\ Rows(q) # {} /\ row' = [row EXCEPT ![c] = Rows(q)]
    BY <1>6 DEF LockRow
  <2>2. UNCHANGED <<ledgerVars, req, held>> BY <1>6 DEF LockRow
  <2>3. \A p \in req[c] : p = q BY DEF StoreInv, CallInv
  <2>4. row'[c] = Rows(q) /\ \A d \in Client \ {c} : row'[d] = row[d] BY <1>3, <2>1 DEF ClientTypeOK
  <2>5. Ordered(c) BY DEF OrderInv
  <2>6. Ordered(c)' BY <2>2, <2>3, <2>4, <2>5 DEF Ordered, Rows, Heads, ledgerVars
  <2>7. \A d \in Client \ {c} : Ordered(d)' BY <2>2, <2>4, SameLocksOrdered
  <2> QED BY <2>6, <2>7 DEF OrderInv
<1>7. ASSUME NEW c \in Client, NEW f \in Key, LockHead(c, f) PROVE OrderInv'
  <2>1. PICK q \in req[c] : /\ row[c] = Rows(q)
                            /\ f \in Heads(q) \ held[c]
                            /\ \A g \in Heads(q) \ held[c] : f <= g
    BY <1>7 DEF LockHead, NextToLock
  <2>2. UNCHANGED <<ledgerVars, req, row>> BY <1>7 DEF LockHead
  <2>3. held'[c] = held[c] \cup {f} /\ \A d \in Client \ {c} : held'[d] = held[d]
    BY <1>3, <1>7 DEF ClientTypeOK, LockHead
  <2>4. \A p \in req[c] : p = q BY DEF StoreInv, CallInv
  <2>5. Ordered(c) BY DEF OrderInv
  <2>6. Heads(q)' = Heads(q) BY <2>2 DEF Heads, ledgerVars
  <2>7. Heads(q) \subseteq Nat
    <3>1. q \in Request BY <1>3 DEF ClientTypeOK
    <3>2. Heads(q) \subseteq Key
      BY <3>1, RequestFields DEF Heads, StoreInv, Shapes, LedgerTypeOK, Promotion
    <3> QED BY <3>2, LedgerAssumption
  <2>8. \A g \in held'[c] : \A h \in Heads(q) \ held'[c] : g < h
    BY <2>1, <2>3, <2>5, <2>7 DEF Ordered
  <2>11. held'[c] \subseteq Heads(q) BY <2>1, <2>3, <2>5 DEF Ordered
  <2>12. (q.op = "decide" => promotion'[q.about].status # "none") /\ row'[c] = Rows(q)
    BY <2>1, <2>2, <2>5 DEF Ordered, ledgerVars
  <2>13. \A p \in req'[c] : p = q BY <2>2, <2>4
  <2>9. Ordered(c)'
    BY <2>6, <2>8, <2>11, <2>12, <2>13 DEF Ordered, Rows
  <2>10. \A d \in Client \ {c} : Ordered(d)' BY <2>2, <2>3, SameLocksOrdered
  <2> QED BY <2>9, <2>10 DEF OrderInv
<1>8. ASSUME NEW c \in Client, Commit(c) \/ Reject(c) \/ Abort(c) PROVE OrderInv'
  BY <1>2, <1>8 DEF Commit, Reject, Abort
<1>9. CASE Next BY <1>4, <1>5, <1>6, <1>7, <1>8, <1>9 DEF Next, Proceed
<1> QED BY <1>1, <1>9

\* In any group of callers one waits for none of the group: the one that holds
\* the greatest head, or else one that holds a promotion row, or else a key.
LEMMA SomeoneProceeds ==
    ASSUME StoreInv, OrderInv
    PROVE  NoWaitCircle
<1> SUFFICES ASSUME NEW S \in SUBSET Client, S # {}, \A c \in S : WaitsFor(c) \cap S # {}
             PROVE  FALSE
  BY DEF NoWaitCircle
<1>0. \A c \in S : \E d \in S : d \in WaitsFor(c) OBVIOUS
<1>1. \A c, d \in S : \A q \in req[c] : d \in WaitsFor(c) =>
        \/ stage[c] = "keying" /\ stage[d] = "locking"
        \/ stage[c] = "locking" /\ row[c] # Rows(q) /\ row[d] # {}
        \/ stage[c] = "locking" /\ \E f \in held[d] : f \in Heads(q) \ held[c]
  BY DEF WaitsFor, NextToLock, StoreInv, CallInv
<1>2. \A c, d \in S : d \in WaitsFor(c) => req[c] # {} BY DEF WaitsFor
<1>3. \A c \in S : \A q \in req[c] :
        /\ row[c] # {} \/ held[c] # {} => row[c] = Rows(q)
        /\ \A g \in held[c] : \A f \in Heads(q) \ held[c] : g < f
  BY DEF OrderInv, Ordered
<1>4. \A c \in S : stage[c] # "locking" => held[c] = {} /\ row[c] = {} BY DEF StoreInv, CallInv
<1> DEFINE H == UNION {held[c] : c \in S}
<1>5. H \subseteq Key BY DEF StoreInv, ClientTypeOK
<1>6. H = {}
  <2> SUFFICES ASSUME H # {} PROVE FALSE OBVIOUS
  <2>1. PICK m \in H : \A k \in H : k <= m
    <3> HIDE DEF H
    <3> QED BY <1>5, GreatestKey
  <2>2. PICK c \in S : m \in held[c] OBVIOUS
  <2>3. PICK d \in S : d \in WaitsFor(c) BY <1>0
  <2>4. PICK q \in req[c] : TRUE BY <1>2, <2>3
  <2>5. PICK f \in held[d] : f \in Heads(q) \ held[c] BY <1>1, <1>3, <1>4, <2>2, <2>3, <2>4
  <2>6. m < f /\ f \in H BY <1>3, <2>2, <2>4, <2>5
  <2>7. m \in Nat /\ f \in Nat BY <1>5, <2>6, LedgerAssumption
  <2> QED BY <2>1, <2>6, <2>7
<1>7. \A c \in S : held[c] = {} BY <1>6
<1>8. \A c \in S : row[c] = {}
  <2> SUFFICES ASSUME NEW c \in S, row[c] # {} PROVE FALSE OBVIOUS
  <2>1. PICK d \in S : d \in WaitsFor(c) BY <1>0
  <2>2. PICK q \in req[c] : TRUE BY <1>2, <2>1
  <2> QED BY <1>1, <1>3, <1>4, <1>7, <2>1, <2>2
<1>9. \A c, d \in S : d \in WaitsFor(c) => stage[c] = "keying" /\ stage[d] = "locking"
  BY <1>1, <1>2, <1>7, <1>8
<1> QED BY <1>0, <1>9

\* Keys before promotion rows, those before heads, heads in the order of their
\* ids: the transactions never wait for one another in a circle.
THEOREM StoreNeverDeadlocks == Spec => []NoWaitCircle
<1>1. Init => OrderInv BY DEF Init, OrderInv, Ordered
<1>2. StoreInv /\ KeyTakesEffectOnce /\ OrderInv /\ [Next]_vars => OrderInv' BY OrderKept
<1>3. StoreInv /\ OrderInv => NoWaitCircle BY SomeoneProceeds
<1> QED BY <1>1, <1>2, <1>3, LocksHold, StoreServesOnce, PTL DEF Spec

=============================================================================
