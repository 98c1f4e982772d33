-------------------------- MODULE FactLedgerProofs --------------------------
(***************************************************************************)
(* Proofs about FactLedger, for any keys and any requests: the types, the  *)
(* numbering of revisions, the life of a fact, supersession and promotion. *)
(*                                                                         *)
(* The inductive invariant adds to the properties the two shapes they rest *)
(* on: which (version, status, space) a head can have, and what a          *)
(* promotion's source says about the head of its fact.                     *)
(***************************************************************************)
EXTENDS FactLedger, TLAPS

\* An active fact is at revision 1, or at 2 in plk.shared; an invalidated one
\* ends at 2 or 3.
HeadShape ==
    \A f \in Key :
        \/ head[f].version = 0 /\ head[f] = NoHead
        \/ head[f].status = "active" /\ head[f].version = 1
        \/ head[f].status = "active" /\ head[f].version = 2 /\ head[f].space = "shared"
        \/ head[f].status = "invalidated" /\ head[f].version \in {2, 3}

\* A promotion is about the first revision of one fact of plk.domain.*, which
\* exists, and which is in plk.domain.* as long as it is at that revision.
PromotionShape ==
    \A r \in Key : promotion[r].status # "none" =>
        /\ promotion[r].source = 1
        /\ \E f \in Key :
            /\ promotion[r].facts = {f}
            /\ head[f].version >= 1
            /\ head[f].version = 1 => head[f].space = "domain"

Shapes == LedgerTypeOK /\ HeadShape /\ PromotionShape

-----------------------------------------------------------------------------
(* What one step does                                                      *)

\* The moves a head may make.
Born(h, g) == h = NoHead /\ \E s \in Space : g = [version |-> 1, status |-> "active", space |-> s]
Raised(h, g) == h.status = "active" /\ h.space = "domain" /\ g = Promoted(h)
Ended(h, g) == h.status = "active" /\ g = Invalidated(h)

\* The facts in F are written, as Write does, with rows that are legal moves.
Writes(F, k) ==
    /\ F \subseteq Key
    /\ head' = [f \in Key |-> head'[f]]
    /\ \A f \in Key \ F : head'[f] = head[f]
    /\ \A f \in F : Born(head[f], head'[f]) \/ Raised(head[f], head'[f]) \/ Ended(head[f], head'[f])
    /\ revisions' = revisions \cup {[fact |-> f, row |-> head'[f], by |-> k] : f \in F}

\* The checks of create and invalidate, with the CASE taken apart.
LEMMA AcceptsWrite ==
    ASSUME NEW q \in Request, NEW s, NEW e, q.op \in {"create", "invalidate"}, Accepts(q, s, e)
    PROVE  \A f \in q.facts : s[f].version = e[f] /\ s[f].status = "active"
BY DEF Accepts, Expected

\* The checks of propose.
LEMMA AcceptsPropose ==
    ASSUME NEW q \in Request, NEW s, NEW e, q.op = "propose", Accepts(q, s, e)
    PROVE  /\ \A f \in q.facts : s[f].status = "active" /\ s[f].space = "domain"
           /\ NonePending(q.facts)
BY DEF Accepts

\* The checks of decide.
LEMMA AcceptsDecide ==
    ASSUME NEW q \in Request, NEW s, NEW e, q.op = "decide", Accepts(q, s, e)
    PROVE  promotion[q.about].status = "pending" /\ promotion[q.about].source = q.expected
BY DEF Accepts, Open

\* The fields of a request.
LEMMA RequestFields ==
    ASSUME NEW q \in Request
    PROVE  /\ q.key \in Key
           /\ q.op \in {"create", "invalidate", "propose", "decide"}
           /\ q.facts \subseteq Key
           /\ q.space \in Space
           /\ q.about \in Key
           /\ q.verdict \in Verdict
           /\ q.op = "create" => q.key \notin q.facts
           /\ q.op \in {"invalidate", "propose"} => \E f \in Key : q.facts = {f}
BY LedgerAssumption DEF RequestType

\* The fields of a head.
LEMMA HeadFields ==
    ASSUME LedgerTypeOK, NEW f \in Key
    PROVE  /\ head[f] \in HeadRow
           /\ head[f].version \in {0, 1, 2, 3}
           /\ head[f].status \in Status
           /\ head[f].space \in Space
           /\ head[f] = [version |-> head[f].version, status |-> head[f].status, space |-> head[f].space]
BY DEF LedgerTypeOK, HeadRow, Version

\* create writes its fact and those it supersedes.
LEMMA CreateWrites ==
    ASSUME Shapes, NEW q \in Request, NEW e, Fresh(q), Accepts(q, head, e), Create(q, head)
    PROVE  /\ Writes(q.facts \cup {q.key}, q.key)
           /\ \A f \in q.facts : Ended(head[f], head'[f])
           /\ Born(head[q.key], head'[q.key])
<1>1. q.op = "create" BY DEF Create
<1> DEFINE F == q.facts \cup {q.key}
           new == [f \in F |-> IF f \in q.facts THEN Invalidated(head[f]) ELSE Created(q)]
<1>2. F \subseteq Key /\ q.key \notin q.facts /\ q.space \in Space
  BY <1>1, RequestFields
<1>3. Write(new, q.key) BY DEF Create
<1>4. DOMAIN new = F OBVIOUS
<1>5. \A f \in Key : head'[f] = IF f \in F THEN new[f] ELSE head[f]
  BY <1>3, <1>4 DEF Write
<1>6. \A f \in q.facts : head[f].status = "active" BY <1>1, AcceptsWrite
<1>7. head[q.key] = NoHead
  <2>1. head[q.key].version = 0 BY <1>1 DEF Fresh
  <2> QED BY <2>1, <1>2 DEF Shapes, HeadShape
<1>8. \A f \in q.facts : Ended(head[f], head'[f])
  BY <1>2, <1>5, <1>6 DEF Ended
<1>9. Born(head[q.key], head'[q.key])
  BY <1>2, <1>5, <1>7 DEF Born, Created
<1>10. revisions' = revisions \cup {[fact |-> f, row |-> head'[f], by |-> q.key] : f \in F}
  <2>1. \A f \in F : new[f] = head'[f] BY <1>2, <1>5
  <2>2. revisions' = revisions \cup {[fact |-> f, row |-> new[f], by |-> q.key] : f \in F}
    BY <1>3, <1>4 DEF Write
  <2> HIDE DEF new
  <2> QED BY <2>1, <2>2
<1>11. head' = [f \in Key |-> head'[f]] BY <1>3 DEF Write
<1> HIDE DEF new
<1> QED BY <1>2, <1>5, <1>11, <1>8, <1>9, <1>10 DEF Writes

\* invalidate writes the one fact it is about.
LEMMA InvalidateWrites ==
    ASSUME Shapes, NEW q \in Request, NEW e, Accepts(q, head, e), Invalidate(q, head)
    PROVE  /\ Writes(q.facts, q.key)
           /\ \A f \in q.facts : Ended(head[f], head'[f])
<1>1. q.op = "invalidate" BY DEF Invalidate
<1> DEFINE new == [f \in q.facts |-> Invalidated(head[f])]
<1>2. q.facts \subseteq Key BY RequestFields
<1>3. Write(new, q.key) BY DEF Invalidate
<1>4. DOMAIN new = q.facts OBVIOUS
<1>5. \A f \in Key : head'[f] = IF f \in q.facts THEN new[f] ELSE head[f]
  BY <1>3, <1>4 DEF Write
<1>6. \A f \in q.facts : head[f].status = "active" BY <1>1, AcceptsWrite
<1>7. \A f \in q.facts : Ended(head[f], head'[f])
  BY <1>2, <1>5, <1>6 DEF Ended
<1>8. revisions' = revisions \cup {[fact |-> f, row |-> head'[f], by |-> q.key] : f \in q.facts}
  <2>1. \A f \in q.facts : new[f] = head'[f] BY <1>2, <1>5
  <2>2. revisions' = revisions \cup {[fact |-> f, row |-> new[f], by |-> q.key] : f \in q.facts}
    BY <1>3, <1>4 DEF Write
  <2> HIDE DEF new
  <2> QED BY <2>1, <2>2
<1>9. head' = [f \in Key |-> head'[f]] BY <1>3 DEF Write
<1> HIDE DEF new
<1> QED BY <1>2, <1>5, <1>9, <1>7, <1>8 DEF Writes

\* The fact of an open promotion, as a decision finds it.
LEMMA DecideFinds ==
    ASSUME Shapes, NEW q \in Request, NEW e, q.op = "decide", Accepts(q, head, e)
    PROVE  /\ promotion[q.about].source = 1
           /\ promotion[q.about].status = "pending"
           /\ \E f \in Key :
                /\ promotion[q.about].facts = {f}
                /\ Current(promotion[q.about], f, head)
                     => head[f].status = "active" /\ head[f].space = "domain" /\ head[f].version = 1
<1>1. promotion[q.about].status = "pending" /\ q.about \in Key BY AcceptsDecide, RequestFields
<1>2. PICK f \in Key : /\ promotion[q.about].facts = {f}
                       /\ head[f].version >= 1
                       /\ head[f].version = 1 => head[f].space = "domain"
  BY <1>1 DEF Shapes, PromotionShape
<1>3. promotion[q.about].source = 1 BY <1>1 DEF Shapes, PromotionShape
<1>4. Current(promotion[q.about], f, head) => head[f].version = 1 BY <1>3 DEF Current
<1>5. head[f].version = 1 => head[f].status = "active" BY DEF Shapes, HeadShape
<1> QED BY <1>1, <1>2, <1>3, <1>4, <1>5

\* A decision writes nothing, or the promoted fact.
LEMMA DecideWrites ==
    ASSUME Shapes, NEW q \in Request, NEW e, Accepts(q, head, e), Decide(q, head)
    PROVE  \E f \in Key :
             /\ promotion[q.about].facts = {f}
             /\ \/ /\ UNCHANGED <<head, revisions>>
                   /\ \E s \in {"stale", "rejected"} : promotion' = [promotion EXCEPT ![q.about] =
                         [facts |-> {f}, source |-> promotion[q.about].source, status |-> s]]
                \/ /\ Writes({f}, q.key)
                   /\ Raised(head[f], head'[f])
                   /\ q.verdict = "approved"
                   /\ promotion' = [promotion EXCEPT ![q.about] =
                         [facts |-> {f}, source |-> promotion[q.about].source, status |-> "approved"]]
<1>1. q.op = "decide" BY DEF Decide
<1>2. PICK f \in Key :
         /\ promotion[q.about].facts = {f}
         /\ Current(promotion[q.about], f, head)
              => head[f].status = "active" /\ head[f].space = "domain" /\ head[f].version = 1
  BY <1>1, DecideFinds
<1> DEFINE p == promotion[q.about]
           s == IF Current(p, f, head) THEN q.verdict ELSE "stale"
           new == [g \in {f} |-> Promoted(head[f])]
<1>3. /\ promotion' = [promotion EXCEPT ![q.about] = [facts |-> p.facts, source |-> p.source, status |-> s]]
      /\ IF s = "approved" THEN Write(new, q.key) ELSE UNCHANGED <<head, revisions>>
  BY <1>2 DEF Decide
<1>4. q.verdict \in {"approved", "rejected"} BY RequestFields DEF Verdict
<1>5. CASE s # "approved"
  <2>1. s \in {"stale", "rejected"} BY <1>4, <1>5
  <2>2. UNCHANGED <<head, revisions>> BY <1>3, <1>5
  <2>3. promotion' = [promotion EXCEPT ![q.about] = [facts |-> {f}, source |-> p.source, status |-> s]]
    BY <1>2, <1>3
  <2> HIDE DEF s
  <2> QED BY <1>2, <2>1, <2>2, <2>3
<1>6. CASE s = "approved"
  <2>1. Current(p, f, head) /\ q.verdict = "approved" BY <1>6
  <2>2. Write(new, q.key) BY <1>3, <1>6
  <2>3. head[f].status = "active" /\ head[f].space = "domain" BY <1>2, <2>1
  <2>4. \A g \in Key : head'[g] = IF g = f THEN Promoted(head[f]) ELSE head[g]
    BY <2>2 DEF Write
  <2>5. revisions' = revisions \cup {[fact |-> g, row |-> head'[g], by |-> q.key] : g \in {f}}
    <3>1. new[f] = head'[f] BY <2>4
    <3>2. revisions' = revisions \cup {[fact |-> g, row |-> new[g], by |-> q.key] : g \in {f}}
      BY <2>2 DEF Write
    <3> HIDE DEF new
    <3> QED BY <3>1, <3>2
  <2>6. Raised(head[f], head'[f]) BY <2>3, <2>4 DEF Raised
  <2>9. head' = [g \in Key |-> head'[g]] BY <2>2 DEF Write
  <2>7. Writes({f}, q.key) BY <2>4, <2>5, <2>6, <2>9 DEF Writes
  <2>8. promotion' = [promotion EXCEPT ![q.about] = [facts |-> {f}, source |-> p.source, status |-> "approved"]]
    BY <1>2, <1>3, <1>6
  <2> QED BY <1>2, <2>1, <2>6, <2>7, <2>8
<1> QED BY <1>5, <1>6

\* propose writes no fact and opens a promotion of one of plk.domain.*.
LEMMA ProposeOpens ==
    ASSUME Shapes, NEW q \in Request, NEW e, Accepts(q, head, e), Propose(q, head)
    PROVE  \E f \in Key :
             /\ q.facts = {f}
             /\ head[f].version = 1
             /\ head[f].space = "domain"
             /\ NonePending({f})
             /\ UNCHANGED <<head, revisions>>
             /\ promotion' = [promotion EXCEPT ![q.key] =
                   [facts |-> {f}, source |-> 1, status |-> "pending"]]
<1>1. q.op = "propose" BY DEF Propose
<1>2. PICK f \in Key : q.facts = {f} BY <1>1, RequestFields
<1>3. head[f].status = "active" /\ head[f].space = "domain" /\ NonePending({f})
  BY <1>1, <1>2, AcceptsPropose
<1>4. head[f].version = 1 BY <1>3 DEF Shapes, HeadShape, NoHead
<1> QED BY <1>2, <1>3, <1>4 DEF Propose

-----------------------------------------------------------------------------
(* The shapes are kept                                                     *)

\* A legal move keeps the type and the shape of a head.
LEMMA MovesKeepShape ==
    ASSUME Shapes, NEW f \in Key,
           \/ Born(head[f], head'[f]) \/ Raised(head[f], head'[f]) \/ Ended(head[f], head'[f])
    PROVE  /\ head'[f] \in HeadRow
           /\ \/ head'[f].status = "active" /\ head'[f].version = 1
              \/ head'[f].status = "active" /\ head'[f].version = 2 /\ head'[f].space = "shared"
              \/ head'[f].status = "invalidated" /\ head'[f].version \in {2, 3}
           /\ head'[f].version = head[f].version + 1
<1>1. /\ head[f].version \in {0, 1, 2, 3} /\ head[f].status \in Status /\ head[f].space \in Space
  BY HeadFields DEF Shapes
<1>2. \/ head[f].version = 0 /\ head[f] = NoHead
      \/ head[f].status = "active" /\ head[f].version = 1
      \/ head[f].status = "active" /\ head[f].version = 2 /\ head[f].space = "shared"
      \/ head[f].status = "invalidated" /\ head[f].version \in {2, 3}
  BY DEF Shapes, HeadShape
<1>3. CASE Born(head[f], head'[f])
  BY <1>3 DEF Born, NoHead, HeadRow, Version, Status, Space
<1>4. CASE Raised(head[f], head'[f])
  BY <1>1, <1>2, <1>4 DEF Raised, Promoted, NoHead, HeadRow, Version, Status, Space
<1>5. CASE Ended(head[f], head'[f])
  BY <1>1, <1>2, <1>5 DEF Ended, Invalidated, NoHead, HeadRow, Version, Status, Space
<1> QED BY <1>3, <1>4, <1>5

\* Writing keeps the types and shapes of the heads and of the revisions.
LEMMA WritesKeepShape ==
    ASSUME Shapes, NEW F, NEW k \in Key, Writes(F, k)
    PROVE  /\ head' \in [Key -> HeadRow]
           /\ revisions' \subseteq Revision
           /\ HeadShape'
<1>1. \A f \in F : head'[f] \in HeadRow BY MovesKeepShape DEF Writes
<1>2. \A f \in Key : head'[f] \in HeadRow BY <1>1 DEF Writes, Shapes, LedgerTypeOK
<1>3. head' \in [Key -> HeadRow] BY <1>2 DEF Writes
<1>4. revisions' \subseteq Revision
  BY <1>2 DEF Writes, Shapes, LedgerTypeOK, Revision
<1>5. HeadShape'
  <2> SUFFICES ASSUME NEW f \in Key
               PROVE  \/ head'[f].version = 0 /\ head'[f] = NoHead
                      \/ head'[f].status = "active" /\ head'[f].version = 1
                      \/ head'[f].status = "active" /\ head'[f].version = 2 /\ head'[f].space = "shared"
                      \/ head'[f].status = "invalidated" /\ head'[f].version \in {2, 3}
    BY DEF HeadShape
  <2>1. CASE f \in F BY <2>1, MovesKeepShape DEF Writes
  <2>2. CASE f \notin F BY <2>2 DEF Writes, Shapes, HeadShape
  <2> QED BY <2>1, <2>2
<1> QED BY <1>3, <1>4, <1>5

\* Writing keeps what a promotion's source says about the head of its fact.
LEMMA WritesKeepSource ==
    ASSUME Shapes, NEW F, NEW k, Writes(F, k), NEW f \in Key,
           head[f].version >= 1, head[f].version = 1 => head[f].space = "domain"
    PROVE  head'[f].version >= 1 /\ (head'[f].version = 1 => head'[f].space = "domain")
<1>0. head[f].version \in {1, 2, 3}
  <2>1. head[f].version \in {0, 1, 2, 3} BY HeadFields DEF Shapes
  <2> QED BY <2>1
<1>1. CASE f \in F
  <2>1. head'[f].version = head[f].version + 1 BY <1>1, MovesKeepShape DEF Writes
  <2> QED BY <1>0, <2>1
<1>2. CASE f \notin F BY <1>2 DEF Writes
<1> QED BY <1>1, <1>2

\* What became of the promotions: nothing, or one of them was opened or closed.
PromotionMoved(r, f, s) ==
    /\ promotion' = [promotion EXCEPT ![r] = [facts |-> {f}, source |-> 1, status |-> s]]
    /\ s \in {"pending", "stale", "approved", "rejected"}

\* A step of the ledger in the terms of this module.
Step(q) ==
    /\ Fresh(q)
    /\ served' = [served EXCEPT ![q.key] = {q}]
    /\ \/ /\ q.op = "create"
          /\ Writes(q.facts \cup {q.key}, q.key)
          /\ \A f \in q.facts : Ended(head[f], head'[f])
          /\ Born(head[q.key], head'[q.key])
          /\ successor' = [f \in Key |-> IF f \in q.facts THEN successor[f] \cup {q.key} ELSE successor[f]]
          /\ UNCHANGED promotion
       \/ /\ q.op = "invalidate"
          /\ Writes(q.facts, q.key)
          /\ UNCHANGED <<successor, promotion>>
       \/ /\ q.op = "propose"
          /\ \E f \in Key :
                /\ q.facts = {f} /\ head[f].version = 1 /\ head[f].space = "domain"
                /\ NonePending({f})
                /\ PromotionMoved(q.key, f, "pending")
          /\ UNCHANGED <<head, revisions, successor>>
       \/ /\ q.op = "decide"
          /\ promotion[q.about].status = "pending"
          /\ \E f \in Key :
                /\ promotion[q.about].facts = {f}
                /\ \/ /\ UNCHANGED <<head, revisions>>
                      /\ \E s \in {"stale", "rejected"} : PromotionMoved(q.about, f, s)
                   \/ /\ Writes({f}, q.key)
                      /\ Raised(head[f], head'[f])
                      /\ q.verdict = "approved"
                      /\ PromotionMoved(q.about, f, "approved")
          /\ UNCHANGED successor

\* A request performed on the heads of the moment is such a step.
LEMMA PerformSteps ==
    ASSUME Shapes, NEW q \in Request, NEW e, Fresh(q), Perform(q, head, e)
    PROVE  Step(q)
<1>0. Fresh(q) /\ Perform(q, head, e) OBVIOUS
<1>2. Accepts(q, head, e) /\ served' = [served EXCEPT ![q.key] = {q}]
  BY <1>0 DEF Perform, Serve
<1>3. CASE Create(q, head)
  <2>1. /\ Writes(q.facts \cup {q.key}, q.key)
        /\ \A f \in q.facts : Ended(head[f], head'[f])
        /\ Born(head[q.key], head'[q.key])
    BY <1>0, <1>2, <1>3, CreateWrites
  <2>2. /\ q.op = "create" /\ UNCHANGED promotion
        /\ successor' = [f \in Key |-> IF f \in q.facts THEN successor[f] \cup {q.key} ELSE successor[f]]
    BY <1>3 DEF Create
  <2> QED BY <1>0, <1>2, <2>1, <2>2 DEF Step
<1>4. CASE Invalidate(q, head)
  <2>1. Writes(q.facts, q.key) BY <1>2, <1>4, InvalidateWrites
  <2>2. q.op = "invalidate" /\ UNCHANGED <<successor, promotion>> BY <1>4 DEF Invalidate
  <2> QED BY <1>0, <1>2, <2>1, <2>2 DEF Step
<1>5. CASE Propose(q, head)
  <2>1. PICK f \in Key :
             /\ q.facts = {f}
             /\ head[f].version = 1
             /\ head[f].space = "domain"
             /\ NonePending({f})
             /\ UNCHANGED <<head, revisions>>
             /\ promotion' = [promotion EXCEPT ![q.key] =
                   [facts |-> {f}, source |-> 1, status |-> "pending"]]
    BY <1>2, <1>5, ProposeOpens
  <2>2. q.op = "propose" /\ UNCHANGED successor BY <1>5 DEF Propose
  <2>3. PromotionMoved(q.key, f, "pending") BY <2>1 DEF PromotionMoved
  <2> QED BY <1>0, <1>2, <2>1, <2>2, <2>3 DEF Step
<1>6. CASE Decide(q, head)
  <2>1. q.op = "decide" /\ UNCHANGED successor BY <1>6 DEF Decide
  <2>2. promotion[q.about].status = "pending" /\ promotion[q.about].source = 1
    BY <1>2, <2>1, DecideFinds
  <2>3. PICK f \in Key :
             /\ promotion[q.about].facts = {f}
             /\ \/ /\ UNCHANGED <<head, revisions>>
                   /\ \E s \in {"stale", "rejected"} : promotion' = [promotion EXCEPT ![q.about] =
                         [facts |-> {f}, source |-> promotion[q.about].source, status |-> s]]
                \/ /\ Writes({f}, q.key)
                   /\ Raised(head[f], head'[f])
                   /\ q.verdict = "approved"
                   /\ promotion' = [promotion EXCEPT ![q.about] =
                         [facts |-> {f}, source |-> promotion[q.about].source, status |-> "approved"]]
    BY <1>2, <1>6, DecideWrites
  <2>4. \/ /\ UNCHANGED <<head, revisions>>
           /\ \E s \in {"stale", "rejected"} : PromotionMoved(q.about, f, s)
        \/ /\ Writes({f}, q.key)
           /\ Raised(head[f], head'[f])
           /\ q.verdict = "approved"
           /\ PromotionMoved(q.about, f, "approved")
    BY <2>2, <2>3 DEF PromotionMoved
  <2> QED BY <1>0, <1>2, <2>1, <2>2, <2>3, <2>4 DEF Step
<1> QED BY <1>0, <1>3, <1>4, <1>5, <1>6 DEF Perform

\* Every step of the ledger is such a step.
LEMMA StepsKnown ==
    ASSUME Shapes, LedgerNext
    PROVE  \E q \in Request : Step(q)
BY PerformSteps DEF LedgerNext

\* A step writes the heads of some facts, or of none.
LEMMA StepWrites ==
    ASSUME Shapes, NEW q \in Request, Step(q)
    PROVE  \/ \E F : Writes(F, q.key)
           \/ UNCHANGED <<head, revisions>>
BY DEF Step

\* A step keeps the types.
LEMMA StepTyped ==
    ASSUME Shapes, NEW q \in Request, Step(q)
    PROVE  LedgerTypeOK'
<1>1. q.key \in Key /\ q.about \in Key /\ q.facts \subseteq Key BY RequestFields
<1>2. head' \in [Key -> HeadRow] /\ revisions' \subseteq Revision
  <2>1. CASE \E F : Writes(F, q.key) BY <1>1, <2>1, WritesKeepShape
  <2>2. CASE UNCHANGED <<head, revisions>> BY <2>2 DEF Shapes, LedgerTypeOK
  <2> QED BY <2>1, <2>2, StepWrites
<1>3. successor' \in [Key -> SUBSET Key]
  <2>1. successor \in [Key -> SUBSET Key] BY DEF Shapes, LedgerTypeOK
  <2>2. CASE UNCHANGED successor BY <2>1, <2>2
  <2>3. CASE successor' = [f \in Key |-> IF f \in q.facts THEN successor[f] \cup {q.key} ELSE successor[f]]
    BY <1>1, <2>1, <2>3
  <2> QED BY <2>2, <2>3 DEF Step
<1>4. promotion' \in [Key -> Promotion]
  <2>1. promotion \in [Key -> Promotion] BY DEF Shapes, LedgerTypeOK
  <2>2. CASE UNCHANGED promotion BY <2>1, <2>2
  <2>3. ASSUME NEW r \in Key, NEW f \in Key, NEW s, PromotionMoved(r, f, s)
        PROVE  promotion' \in [Key -> Promotion]
    <3>1. [facts |-> {f}, source |-> 1, status |-> s] \in Promotion
      BY <2>3 DEF PromotionMoved, Promotion, PromotionStatus, Version, Verdict
    <3> QED BY <2>1, <2>3, <3>1 DEF PromotionMoved
  <2>4. CASE \E r \in Key, f \in Key, s \in {"pending", "stale", "approved", "rejected"} : PromotionMoved(r, f, s)
    BY <2>3, <2>4
  <2> QED BY <1>1, <2>2, <2>4 DEF Step
<1>5. served' \in [Key -> SUBSET Request]
  BY <1>1 DEF Step, Shapes, LedgerTypeOK
<1> QED BY <1>2, <1>3, <1>4, <1>5 DEF LedgerTypeOK

\* A step keeps the shape of the heads.
LEMMA StepHeads ==
    ASSUME Shapes, NEW q \in Request, Step(q)
    PROVE  HeadShape'
<1>1. q.key \in Key BY RequestFields
<1>2. CASE \E F : Writes(F, q.key) BY <1>1, <1>2, WritesKeepShape
<1>3. CASE UNCHANGED <<head, revisions>> BY <1>3 DEF Shapes, HeadShape
<1> QED BY <1>2, <1>3, StepWrites

\* A step keeps what each promotion says about its fact.
LEMMA StepSources ==
    ASSUME Shapes, NEW q \in Request, Step(q)
    PROVE  PromotionShape'
<1>0. q.key \in Key /\ q.about \in Key BY RequestFields
<1> DEFINE Fits(f) == head[f].version >= 1 /\ (head[f].version = 1 => head[f].space = "domain")
           FitsAfter(f) == head'[f].version >= 1 /\ (head'[f].version = 1 => head'[f].space = "domain")
<1>1. \A f \in Key : Fits(f) => FitsAfter(f)
  <2> TAKE f \in Key
  <2>1. CASE \E F : Writes(F, q.key) BY <2>1, WritesKeepSource
  <2>2. CASE UNCHANGED <<head, revisions>> BY <2>2
  <2> QED BY <2>1, <2>2, StepWrites
<1>2. \/ UNCHANGED promotion
      \/ \E r \in Key, f \in Key, s \in {"pending", "stale", "approved", "rejected"} :
             PromotionMoved(r, f, s) /\ Fits(f)
  <2>1. CASE q.op = "propose"
    <3>1. PICK f \in Key : head[f].version = 1 /\ head[f].space = "domain" /\ PromotionMoved(q.key, f, "pending")
      BY <2>1 DEF Step
    <3> QED BY <1>0, <3>1
  <2>2. CASE q.op = "decide"
    <3>1. promotion[q.about].status = "pending" BY <2>2 DEF Step
    <3>2. PICK f \in Key : /\ promotion[q.about].facts = {f}
                           /\ \E s \in {"stale", "rejected", "approved"} : PromotionMoved(q.about, f, s)
      BY <2>2 DEF Step
    <3>3. PICK g \in Key : promotion[q.about].facts = {g} /\ Fits(g)
      BY <1>0, <3>1 DEF Shapes, PromotionShape
    <3>4. f = g BY <3>2, <3>3
    <3> QED BY <1>0, <3>2, <3>3, <3>4
  <2>3. CASE q.op \in {"create", "invalidate"} BY <2>3 DEF Step
  <2> QED BY <2>1, <2>2, <2>3, RequestFields
<1> HIDE DEF Fits, FitsAfter
<1>3. SUFFICES ASSUME NEW r \in Key, promotion'[r].status # "none"
               PROVE  promotion'[r].source = 1 /\ \E f \in Key : promotion'[r].facts = {f} /\ FitsAfter(f)
  BY DEF PromotionShape, FitsAfter
<1>4. promotion[r].status # "none" =>
         promotion[r].source = 1 /\ \E f \in Key : promotion[r].facts = {f} /\ Fits(f)
  BY DEF Shapes, PromotionShape, Fits
<1>5. CASE promotion'[r] = promotion[r]
  BY <1>1, <1>3, <1>4, <1>5
<1>6. CASE promotion'[r] # promotion[r]
  <2>1. PICK p \in Key, f \in Key, s \in {"pending", "stale", "approved", "rejected"} :
             PromotionMoved(p, f, s) /\ Fits(f)
    BY <1>2, <1>6
  <2>2. promotion \in [Key -> Promotion] BY DEF Shapes, LedgerTypeOK
  <2>3. p = r BY <1>6, <2>1, <2>2 DEF PromotionMoved
  <2>4. promotion'[r] = [facts |-> {f}, source |-> 1, status |-> s] BY <2>1, <2>2, <2>3 DEF PromotionMoved
  <2> QED BY <1>1, <2>1, <2>4
<1> QED BY <1>5, <1>6

\* The shapes hold in every state of the ledger.
LEMMA ShapesHold == LedgerSpec => []Shapes
<1>1. LedgerInit => Shapes
  <2> SUFFICES ASSUME LedgerInit PROVE Shapes OBVIOUS
  <2>1. LedgerTypeOK
    BY DEF LedgerInit, LedgerTypeOK, NoHead, NoPromotion, HeadRow, Promotion, Version, Status, Space, PromotionStatus
  <2>2. HeadShape BY DEF LedgerInit, HeadShape, NoHead
  <2>3. PromotionShape BY DEF LedgerInit, PromotionShape, NoPromotion
  <2> QED BY <2>1, <2>2, <2>3 DEF Shapes
<1>2. Shapes /\ [LedgerNext]_ledgerVars => Shapes'
  <2> SUFFICES ASSUME Shapes, [LedgerNext]_ledgerVars PROVE Shapes' OBVIOUS
  <2>1. CASE LedgerNext
    <3>1. PICK q \in Request : Step(q) BY <2>1, StepsKnown
    <3> QED BY <3>1, StepTyped, StepHeads, StepSources DEF Shapes
  <2>2. CASE UNCHANGED ledgerVars
    BY <2>2 DEF ledgerVars, Shapes, LedgerTypeOK, HeadShape, PromotionShape
  <2> QED BY <2>1, <2>2
<1> QED BY <1>1, <1>2, PTL DEF LedgerSpec

\* In every state of the ledger its variables have their types: no fact ever
\* has a fourth revision.
THEOREM LedgerTyped == LedgerSpec => []LedgerTypeOK
<1>1. Shapes => LedgerTypeOK BY DEF Shapes
<1> QED BY <1>1, ShapesHold, PTL

-----------------------------------------------------------------------------
(* The numbering of revisions                                              *)

\* Writing a fact appends the one revision after its last.
LEMMA WritesNumber ==
    ASSUME Shapes, HeadIsLastRevision, NEW F, NEW k, Writes(F, k)
    PROVE  HeadIsLastRevision'
<1> SUFFICES ASSUME NEW f \in Key
             PROVE  /\ {r.row.version : r \in RevisionsOf(f)'} = 1..head'[f].version
                    /\ \A r, s \in RevisionsOf(f)' : r.row.version = s.row.version => r = s
                    /\ \A r \in RevisionsOf(f)' : r.row.version = head'[f].version => r.row = head'[f]
  BY DEF HeadIsLastRevision
<1> DEFINE new == [fact |-> f, row |-> head'[f], by |-> k]
<1>1. /\ {r.row.version : r \in RevisionsOf(f)} = 1..head[f].version
      /\ \A r, s \in RevisionsOf(f) : r.row.version = s.row.version => r = s
      /\ \A r \in RevisionsOf(f) : r.row.version = head[f].version => r.row = head[f]
  BY DEF HeadIsLastRevision
<1>2. CASE f \in F
  <2>1. RevisionsOf(f)' = RevisionsOf(f) \cup {new}
    BY <1>2 DEF Writes, RevisionsOf
  <2>2. head'[f].version = head[f].version + 1 BY <1>2, MovesKeepShape DEF Writes
  <2>3. head[f].version \in {0, 1, 2, 3} BY HeadFields DEF Shapes
  <2>4. \A r \in RevisionsOf(f) : r.row.version \in 1..head[f].version BY <1>1
  <2>5. new.row = head'[f] OBVIOUS
  <2> HIDE DEF new
  <2>6. {r.row.version : r \in RevisionsOf(f)'} = {r.row.version : r \in RevisionsOf(f)} \cup {head[f].version + 1}
    BY <2>1, <2>2, <2>5
  <2>7. 1..(head[f].version + 1) = (1..head[f].version) \cup {head[f].version + 1}
    BY <2>3
  <2>8. {r.row.version : r \in RevisionsOf(f)'} = 1..head'[f].version
    BY <1>1, <2>2, <2>6, <2>7
  <2>9. \A r \in RevisionsOf(f) : r.row.version # new.row.version BY <2>2, <2>3, <2>4, <2>5
  <2>10. \A r, s \in RevisionsOf(f)' : r.row.version = s.row.version => r = s
    BY <1>1, <2>1, <2>9
  <2>11. \A r \in RevisionsOf(f)' : r.row.version = head'[f].version => r.row = head'[f]
    BY <2>1, <2>5, <2>9
  <2> QED BY <2>8, <2>10, <2>11
<1>3. CASE f \notin F
  <2>1. RevisionsOf(f)' = RevisionsOf(f) BY <1>3 DEF Writes, RevisionsOf
  <2>2. head'[f] = head[f] BY <1>3 DEF Writes
  <2> QED BY <1>1, <2>1, <2>2
<1> QED BY <1>2, <1>3

\* No update is lost: the revisions of a fact are numbered without a gap or a
\* duplicate, and its head is the last of them.
THEOREM RevisionsNumbered == LedgerSpec => []HeadIsLastRevision
<1>1. LedgerInit => HeadIsLastRevision
  <2> SUFFICES ASSUME LedgerInit, NEW f \in Key
               PROVE  /\ {r.row.version : r \in RevisionsOf(f)} = 1..head[f].version
                      /\ \A r, s \in RevisionsOf(f) : r.row.version = s.row.version => r = s
                      /\ \A r \in RevisionsOf(f) : r.row.version = head[f].version => r.row = head[f]
    BY DEF HeadIsLastRevision
  <2>1. RevisionsOf(f) = {} /\ head[f].version = 0 BY DEF LedgerInit, RevisionsOf, NoHead
  <2>2. 1..0 = {} OBVIOUS
  <2> QED BY <2>1, <2>2
<1>2. Shapes /\ HeadIsLastRevision /\ [LedgerNext]_ledgerVars => HeadIsLastRevision'
  <2> SUFFICES ASSUME Shapes, HeadIsLastRevision, [LedgerNext]_ledgerVars
               PROVE  HeadIsLastRevision'
    OBVIOUS
  <2>1. CASE UNCHANGED <<head, revisions>> BY <2>1 DEF HeadIsLastRevision, RevisionsOf
  <2>2. CASE LedgerNext
    <3>1. PICK q \in Request : Step(q) BY <2>2, StepsKnown
    <3>2. CASE \E F : Writes(F, q.key) BY <3>2, WritesNumber
    <3> QED BY <2>1, <3>1, <3>2, StepWrites
  <2>3. CASE UNCHANGED ledgerVars BY <2>1, <2>3 DEF ledgerVars
  <2> QED BY <2>2, <2>3
<1> QED BY <1>1, <1>2, ShapesHold, PTL DEF LedgerSpec

-----------------------------------------------------------------------------
(* Supersession                                                            *)

\* A fact is superseded at most once, by the request that invalidated it.
LEMMA StepSupersedes ==
    ASSUME Shapes, SupersededOnce, NEW q \in Request, Step(q)
    PROVE  SupersededOnce'
<1> SUFFICES ASSUME NEW f \in Key, NEW g \in successor'[f]
             PROVE  /\ successor'[f] = {g}
                    /\ head'[f].status = "invalidated"
                    /\ head'[g].version > 0
                    /\ \E r \in revisions' : r.fact = f /\ r.row = head'[f] /\ r.by = g
  BY DEF SupersededOnce
<1>0. q.key \in Key /\ q.facts \subseteq Key BY RequestFields
<1>1. successor \in [Key -> SUBSET Key] BY DEF Shapes, LedgerTypeOK
<1>2. CASE q.op = "create" /\ f \in q.facts
  <2>1. /\ Writes(q.facts \cup {q.key}, q.key)
        /\ Ended(head[f], head'[f])
        /\ Born(head[q.key], head'[q.key])
        /\ successor'[f] = successor[f] \cup {q.key}
    BY <1>1, <1>2 DEF Step
  <2>2. head[f].status = "active" /\ head'[f].status = "invalidated" BY <2>1 DEF Ended, Invalidated
  <2>3. successor[f] = {} BY <1>1, <2>2 DEF SupersededOnce
  <2>4. successor'[f] = {q.key} /\ g = q.key BY <2>1, <2>3
  <2>5. head'[q.key].version > 0 BY <2>1 DEF Born
  <2>6. [fact |-> f, row |-> head'[f], by |-> q.key] \in revisions' BY <1>2, <2>1 DEF Writes
  <2> QED BY <2>2, <2>4, <2>5, <2>6
<1>3. CASE ~(q.op = "create" /\ f \in q.facts)
  <2>1. successor'[f] = successor[f] BY <1>1, <1>3 DEF Step
  <2>2. /\ successor[f] = {g}
        /\ head[f].status = "invalidated"
        /\ head[g].version > 0
        /\ \E r \in revisions : r.fact = f /\ r.row = head[f] /\ r.by = g
    BY <2>1 DEF SupersededOnce
  <2>3. g \in Key BY <1>1, <2>1
  <2>4. CASE UNCHANGED <<head, revisions>> BY <2>1, <2>2, <2>4
  <2>5. CASE \E F : Writes(F, q.key)
    <3>1. PICK F : Writes(F, q.key) BY <2>5
    <3>2. f \notin F BY <2>2, <3>1 DEF Writes, Born, Raised, Ended, NoHead
    <3>3. head'[f] = head[f] /\ revisions \subseteq revisions' BY <3>1, <3>2 DEF Writes
    <3>4. head'[g].version > 0
      <4>1. head[g].version \in {0, 1, 2, 3} BY <2>3, HeadFields DEF Shapes
      <4>2. CASE g \in F BY <2>3, <3>1, <4>1, <4>2, MovesKeepShape DEF Writes
      <4>3. CASE g \notin F BY <2>2, <2>3, <3>1, <4>3 DEF Writes
      <4> QED BY <4>2, <4>3
    <3> QED BY <2>1, <2>2, <3>3, <3>4
  <2> QED BY <2>4, <2>5, StepWrites
<1> QED BY <1>2, <1>3

\* No fact has two successors, and none with a successor is left active.
THEOREM OneSuccessor == LedgerSpec => []SupersededOnce
<1>1. LedgerInit => SupersededOnce BY DEF LedgerInit, SupersededOnce
<1>2. Shapes /\ SupersededOnce /\ [LedgerNext]_ledgerVars => SupersededOnce'
  <2> SUFFICES ASSUME Shapes, SupersededOnce, [LedgerNext]_ledgerVars PROVE SupersededOnce'
    OBVIOUS
  <2>1. CASE LedgerNext
    <3>1. PICK q \in Request : Step(q) BY <2>1, StepsKnown
    <3> QED BY <3>1, StepSupersedes
  <2>2. CASE UNCHANGED ledgerVars BY <2>2 DEF ledgerVars, SupersededOnce
  <2> QED BY <2>1, <2>2
<1> QED BY <1>1, <1>2, ShapesHold, PTL DEF LedgerSpec

-----------------------------------------------------------------------------
(* Promotion                                                               *)

\* A fact has at most one promotion waiting for a reviewer.
LEMMA StepOnePending ==
    ASSUME Shapes, OnePendingPerFact, NEW q \in Request, Step(q)
    PROVE  OnePendingPerFact'
<1>0. q.key \in Key /\ q.about \in Key BY RequestFields
<1>1. promotion \in [Key -> Promotion] BY DEF Shapes, LedgerTypeOK
<1>2. CASE UNCHANGED promotion BY <1>2 DEF OnePendingPerFact
<1>3. ASSUME NEW p \in Key, NEW f \in Key, NEW s \in {"stale", "rejected", "approved"},
             PromotionMoved(p, f, s)
      PROVE  OnePendingPerFact'
  <2>1. \A r \in Key : promotion'[r].status = "pending" => promotion'[r] = promotion[r]
    BY <1>1, <1>3 DEF PromotionMoved
  <2> QED BY <2>1 DEF OnePendingPerFact
<1>4. ASSUME NEW f \in Key, NonePending({f}), PromotionMoved(q.key, f, "pending")
      PROVE  OnePendingPerFact'
  <2>1. \A r \in Key : promotion'[r] = IF r = q.key
            THEN [facts |-> {f}, source |-> 1, status |-> "pending"] ELSE promotion[r]
    BY <1>0, <1>1, <1>4 DEF PromotionMoved
  <2>2. \A r \in Key : promotion[r].facts = {f} => promotion[r].status # "pending"
    BY <1>4 DEF NonePending
  <2> QED BY <2>1, <2>2 DEF OnePendingPerFact
<1>5. CASE q.op = "propose" BY <1>4, <1>5 DEF Step
<1>6. CASE q.op = "decide" BY <1>0, <1>3, <1>6 DEF Step
<1>7. CASE q.op \in {"create", "invalidate"} BY <1>2, <1>7 DEF Step
<1> QED BY <1>5, <1>6, <1>7, RequestFields

\* No fact ever has two promotions pending.
THEOREM OnePromotionPending == LedgerSpec => []OnePendingPerFact
<1>1. LedgerInit => OnePendingPerFact BY DEF LedgerInit, OnePendingPerFact, NoPromotion
<1>2. Shapes /\ OnePendingPerFact /\ [LedgerNext]_ledgerVars => OnePendingPerFact'
  <2> SUFFICES ASSUME Shapes, OnePendingPerFact, [LedgerNext]_ledgerVars PROVE OnePendingPerFact'
    OBVIOUS
  <2>1. CASE LedgerNext
    <3>1. PICK q \in Request : Step(q) BY <2>1, StepsKnown
    <3> QED BY <3>1, StepOnePending
  <2>2. CASE UNCHANGED ledgerVars BY <2>2 DEF ledgerVars, OnePendingPerFact
  <2> QED BY <2>1, <2>2
<1> QED BY <1>1, <1>2, ShapesHold, PTL DEF LedgerSpec

-----------------------------------------------------------------------------
(* Idempotency keys                                                        *)

WrittenBy(k) == {r \in revisions : r.by = k}

\* What a step writes is written under its own key, one revision a fact.
LEMMA StepWritesBy ==
    ASSUME Shapes, NEW q \in Request, Step(q)
    PROVE  /\ \A k \in Key : k # q.key => WrittenBy(k)' = WrittenBy(k)
           /\ \A F : Writes(F, q.key) =>
                WrittenBy(q.key)' = WrittenBy(q.key) \cup {[fact |-> f, row |-> head'[f], by |-> q.key] : f \in F}
<1>1. CASE UNCHANGED <<head, revisions>>
  <2>1. \A k \in Key : WrittenBy(k)' = WrittenBy(k) BY <1>1 DEF WrittenBy
  <2> QED BY <2>1 DEF WrittenBy, Writes
<1>2. CASE \E F : Writes(F, q.key)
  BY <1>2 DEF WrittenBy, Writes
<1> QED BY <1>1, <1>2, StepWrites

\* The promotion a request finds under its own key, and how a step moves others.
LEMMA StepPromotions ==
    ASSUME Shapes, KeyTakesEffectOnce, NEW q \in Request, Step(q), NEW r \in Key
    PROVE  /\ promotion[r].status \in Verdict \cup {"stale"} => promotion'[r] = promotion[r]
           /\ promotion[r] = NoPromotion /\ r # q.key => promotion'[r] = NoPromotion
<1>1. promotion \in [Key -> Promotion] /\ q.key \in Key /\ q.about \in Key
  BY RequestFields DEF Shapes, LedgerTypeOK
<1>2. CASE q.op = "propose"
  <2>1. \E f \in Key : PromotionMoved(q.key, f, "pending") BY <1>2 DEF Step
  <2>2. r # q.key => promotion'[r] = promotion[r] BY <1>1, <2>1 DEF PromotionMoved
  <2>3. served[q.key] = {} BY DEF Step, Fresh
  <2>4. promotion[q.key] = NoPromotion BY <1>1, <2>3 DEF KeyTakesEffectOnce
  <2> QED BY <2>2, <2>4 DEF NoPromotion, Verdict
<1>3. CASE q.op = "decide"
  <2>1. promotion[q.about].status = "pending" BY <1>3 DEF Step
  <2>2. \E f \in Key, s \in {"stale", "rejected", "approved"} : PromotionMoved(q.about, f, s)
    BY <1>3 DEF Step
  <2>3. r # q.about => promotion'[r] = promotion[r] BY <1>1, <2>2 DEF PromotionMoved
  <2> QED BY <2>1, <2>3 DEF NoPromotion, Verdict
<1>4. CASE q.op \in {"create", "invalidate"} BY <1>4 DEF Step
<1> QED BY <1>2, <1>3, <1>4, RequestFields

\* What a served request has written stays what it touched.
LEMMA TouchedKept ==
    ASSUME Shapes, KeyTakesEffectOnce, NEW q \in Request, Step(q), NEW p \in Request
    PROVE  /\ Touched(p) \subseteq Touched(p)'
           /\ p.op # "decide" => Touched(p)' = Touched(p)
<1>1. p.about \in Key /\ p.op \in {"create", "invalidate", "propose", "decide"} BY RequestFields
<1>2. CASE p.op = "decide"
  <2>1. Touched(p) = {f \in promotion[p.about].facts : promotion[p.about].status = "approved" /\ p.verdict = "approved"}
    BY <1>2 DEF Touched
  <2>2. Touched(p)' = {f \in promotion'[p.about].facts : promotion'[p.about].status = "approved" /\ p.verdict = "approved"}
    BY <1>2 DEF Touched
  <2>3. promotion[p.about].status = "approved" => promotion'[p.about] = promotion[p.about]
    BY <1>1, StepPromotions DEF Verdict
  <2> QED BY <1>2, <2>1, <2>2, <2>3
<1>3. CASE p.op # "decide"
  BY <1>1, <1>3 DEF Touched
<1> QED BY <1>2, <1>3

\* The effect of a key, in the terms of KeyTakesEffectOnce.
Untouched(k) ==
    WrittenBy(k) = {} /\ promotion[k] = NoPromotion /\ \A f \in Key : k \notin successor[f]

Effect(q, k) ==
    /\ {r.fact : r \in WrittenBy(k)} \subseteq Touched(q)
    /\ q.op # "decide" => {r.fact : r \in WrittenBy(k)} = Touched(q)
    /\ \A r, s \in WrittenBy(k) : r.fact = s.fact => r = s

\* KeyTakesEffectOnce says this of each key.
LEMMA KeysRestated ==
    KeyTakesEffectOnce <=>
        \A k \in Key : (served[k] = {} => Untouched(k)) /\ \A q \in served[k] : Effect(q, k)
BY DEF KeyTakesEffectOnce, Untouched, Effect, WrittenBy

\* A step of another request changes neither what a key has left behind ...
LEMMA OtherKeysUntouched ==
    ASSUME Shapes, KeyTakesEffectOnce, NEW q \in Request, Step(q),
           NEW k \in Key, k # q.key, Untouched(k)
    PROVE  Untouched(k)'
<1>1. WrittenBy(k)' = {} BY StepWritesBy DEF Untouched
<1>2. promotion'[k] = NoPromotion BY StepPromotions DEF Untouched
<1>3. successor \in [Key -> SUBSET Key] BY DEF Shapes, LedgerTypeOK
<1>4. \A f \in Key : k \notin successor'[f] BY <1>3 DEF Untouched, Step
<1> QED BY <1>1, <1>2, <1>4 DEF Untouched

\* ... nor the effect of the request served under it.
LEMMA OtherKeysKept ==
    ASSUME Shapes, KeyTakesEffectOnce, NEW q \in Request, Step(q),
           NEW k \in Key, k # q.key, NEW p \in Request, Effect(p, k)
    PROVE  Effect(p, k)'
<1>1. WrittenBy(k)' = WrittenBy(k) BY StepWritesBy
<1>2. Touched(p) \subseteq Touched(p)' /\ (p.op # "decide" => Touched(p)' = Touched(p))
  BY TouchedKept
<1>3. {r.fact : r \in WrittenBy(k)'} = {r.fact : r \in WrittenBy(k)} BY <1>1
<1> QED BY <1>1, <1>2, <1>3 DEF Effect

\* Writing the facts of F under a fresh key is an effect on exactly those.
LEMMA OneEach ==
    ASSUME Shapes, KeyTakesEffectOnce, NEW q \in Request, Step(q), NEW F, Writes(F, q.key)
    PROVE  /\ {r.fact : r \in WrittenBy(q.key)'} = F
           /\ \A r, s \in WrittenBy(q.key)' : r.fact = s.fact => r = s
<1>1. q.key \in Key /\ served[q.key] = {} BY RequestFields DEF Step, Fresh
<1>2. WrittenBy(q.key) = {} BY <1>1, KeysRestated DEF Untouched
<1>3. WrittenBy(q.key)' = {[fact |-> f, row |-> head'[f], by |-> q.key] : f \in F}
  BY <1>2, StepWritesBy
<1>4. \A f \in F : [fact |-> f, row |-> head'[f], by |-> q.key] \in WrittenBy(q.key)'
  BY <1>3
<1>5. \A r \in WrittenBy(q.key)' : r.fact \in F /\ r = [fact |-> r.fact, row |-> head'[r.fact], by |-> q.key]
  BY <1>3
<1> HIDE <1>3
<1>6. {r.fact : r \in WrittenBy(q.key)'} = F BY <1>4, <1>5
<1> QED BY <1>5, <1>6

\* A step has its whole effect under its own key.
LEMMA OwnEffect ==
    ASSUME Shapes, KeyTakesEffectOnce, NEW q \in Request, Step(q)
    PROVE  Effect(q, q.key)'
<1>1. q.key \in Key /\ q.about \in Key /\ served[q.key] = {} BY RequestFields DEF Step, Fresh
<1>2. WrittenBy(q.key) = {} BY <1>1, KeysRestated DEF Untouched
<1>3. CASE q.op = "create"
  <2>1. Writes(q.facts \cup {q.key}, q.key) BY <1>3 DEF Step
  <2>2. Touched(q)' = q.facts \cup {q.key} BY <1>3 DEF Touched
  <2> QED BY <2>1, <2>2, OneEach DEF Effect
<1>4. CASE q.op = "invalidate"
  <2>1. Writes(q.facts, q.key) BY <1>4 DEF Step
  <2>2. Touched(q)' = q.facts BY <1>4 DEF Touched
  <2> QED BY <2>1, <2>2, OneEach DEF Effect
<1>5. CASE UNCHANGED <<head, revisions>> /\ q.op \in {"propose", "decide"}
  <2>1. WrittenBy(q.key)' = {} BY <1>2, <1>5 DEF WrittenBy
  <2>2. q.op = "propose" => Touched(q)' = {} BY DEF Touched
  <2> QED BY <1>5, <2>1, <2>2 DEF Effect
<1>6. CASE q.op = "decide" /\ ~UNCHANGED <<head, revisions>>
  <2>1. PICK f \in Key : /\ Writes({f}, q.key) /\ q.verdict = "approved"
                         /\ PromotionMoved(q.about, f, "approved")
    BY <1>6 DEF Step
  <2>2. promotion'[q.about] = [facts |-> {f}, source |-> 1, status |-> "approved"]
    BY <1>1, <2>1 DEF PromotionMoved, Shapes, LedgerTypeOK
  <2>3. Touched(q)' = {f} BY <1>6, <2>1, <2>2 DEF Touched
  <2> QED BY <1>6, <2>1, <2>3, OneEach DEF Effect
<1>7. q.op = "propose" => UNCHANGED <<head, revisions>> BY DEF Step
<1> QED BY <1>3, <1>4, <1>5, <1>6, <1>7, RequestFields

\* A step keeps every key's effect whole and single.
LEMMA StepKeys ==
    ASSUME Shapes, KeyTakesEffectOnce, NEW q \in Request, Step(q)
    PROVE  KeyTakesEffectOnce'
<1>1. \A k \in Key : (served[k] = {} => Untouched(k)) /\ \A p \in served[k] : Effect(p, k)
  BY KeysRestated
<1>2. served \in [Key -> SUBSET Request] /\ q.key \in Key BY RequestFields DEF Shapes, LedgerTypeOK
<1>3. served' = [served EXCEPT ![q.key] = {q}] BY DEF Step
<1>4. ASSUME NEW k \in Key
      PROVE  (served'[k] = {} => Untouched(k)') /\ \A p \in served'[k] : Effect(p, k)'
  <2>1. CASE k = q.key
    <3>1. served'[k] = {q} BY <1>2, <1>3, <2>1
    <3>2. Effect(q, k)' BY <2>1, OwnEffect
    <3> QED BY <3>1, <3>2
  <2>2. CASE k # q.key
    <3>1. served'[k] = served[k] /\ served[k] \subseteq Request BY <1>2, <1>3, <2>2
    <3>2. served[k] = {} => Untouched(k)' BY <1>1, <2>2, OtherKeysUntouched
    <3>3. \A p \in served[k] : Effect(p, k)' BY <1>1, <2>2, <3>1, OtherKeysKept
    <3> QED BY <3>1, <3>2, <3>3
  <2> QED BY <2>1, <2>2
<1> QED BY <1>4 DEF KeyTakesEffectOnce, Untouched, Effect, WrittenBy

\* A key takes effect all at once and once: whatever its request was to write
\* is written, or nothing is, and another request under the key changes nothing.
THEOREM KeysServeOnce == LedgerSpec => []KeyTakesEffectOnce
<1>1. LedgerInit => KeyTakesEffectOnce BY DEF LedgerInit, KeyTakesEffectOnce
<1>2. Shapes /\ KeyTakesEffectOnce /\ [LedgerNext]_ledgerVars => KeyTakesEffectOnce'
  <2> SUFFICES ASSUME Shapes, KeyTakesEffectOnce, [LedgerNext]_ledgerVars PROVE KeyTakesEffectOnce'
    OBVIOUS
  <2>1. CASE LedgerNext
    <3>1. PICK q \in Request : Step(q) BY <2>1, StepsKnown
    <3> QED BY <3>1, StepKeys
  <2>2. CASE UNCHANGED ledgerVars
    <3>1. \A q : Touched(q)' = Touched(q) BY <2>2 DEF ledgerVars, Touched
    <3> QED BY <2>2, <3>1 DEF ledgerVars, KeyTakesEffectOnce
  <2> QED BY <2>1, <2>2
<1> QED BY <1>1, <1>2, ShapesHold, PTL DEF LedgerSpec

-----------------------------------------------------------------------------
(* What no step does                                                       *)

\* The life of a fact: born active, raised at most once and from plk.domain.*
\* only, ended once; and its revisions are only ever added to.
THEOREM FactsLiveOnce == LedgerSpec => LifeCycle
<1> DEFINE Moves == /\ revisions \subseteq revisions'
                    /\ \A f \in Key :
                        LET h == head[f] IN
                        \/ head'[f] = h
                        \/ h = NoHead /\ \E s \in Space : head'[f] = [version |-> 1, status |-> "active", space |-> s]
                        \/ h.status = "active" /\ h.space = "domain" /\ head'[f] = Promoted(h)
                        \/ h.status = "active" /\ head'[f] = Invalidated(h)
<1>1. Shapes /\ [LedgerNext]_ledgerVars => [Moves]_ledgerVars
  <2> SUFFICES ASSUME Shapes, LedgerNext PROVE Moves OBVIOUS
  <2>1. PICK q \in Request : Step(q) BY StepsKnown
  <2>2. CASE UNCHANGED <<head, revisions>> BY <2>2
  <2>3. CASE \E F : Writes(F, q.key)
    <3>1. PICK F : Writes(F, q.key) BY <2>3
    <3>2. \A f \in Key : head'[f] = head[f] \/ Born(head[f], head'[f]) \/ Raised(head[f], head'[f]) \/ Ended(head[f], head'[f])
      BY <3>1 DEF Writes
    <3>3. revisions \subseteq revisions' BY <3>1 DEF Writes
    <3> QED BY <3>2, <3>3 DEF Born, Raised, Ended
  <2> QED BY <2>1, <2>2, <2>3, StepWrites
<1> QED BY <1>1, ShapesHold, PTL DEF LedgerSpec, LifeCycle

\* A decided promotion stays as it was decided, and a stale one stale: steps
\* move promotions that are pending or not there.
THEOREM DecisionsAreFinal == LedgerSpec => DecidedOnce
<1> DEFINE Final == \A r \in Key : promotion[r].status \in Verdict \cup {"stale"}
                                     => promotion'[r] = promotion[r]
<1>1. Shapes /\ KeyTakesEffectOnce /\ [LedgerNext]_ledgerVars => [Final]_ledgerVars
  <2> SUFFICES ASSUME Shapes, KeyTakesEffectOnce, LedgerNext PROVE Final OBVIOUS
  <2>1. PICK q \in Request : Step(q) BY StepsKnown
  <2> QED BY <2>1, StepPromotions
<1>2. LedgerSpec => []KeyTakesEffectOnce BY KeysServeOnce
<1> QED BY <1>1, <1>2, ShapesHold, PTL DEF LedgerSpec, DecidedOnce

-----------------------------------------------------------------------------
(* Approval                                                                *)

\* r is the revision an approved promotion p published.
Published(p, r) ==
    /\ r.fact \in promotion[p].facts
    /\ r.row = [version |-> promotion[p].source + 1, status |-> "active", space |-> "shared"]
    /\ \E q \in served[r.by] : q.op = "decide" /\ q.about = p /\ q.verdict = "approved"

\* A step keeps what was published, and publishes what it approves.
LEMMA StepApproves ==
    ASSUME Shapes, KeyTakesEffectOnce, ApprovedAsReviewed, NEW q \in Request, Step(q),
           NEW p \in Key, promotion'[p].status = "approved"
    PROVE  \E r \in revisions' : Published(p, r)'
<1>1. /\ promotion \in [Key -> Promotion]
      /\ served \in [Key -> SUBSET Request]
      /\ revisions \subseteq Revision
      /\ q.key \in Key /\ q.about \in Key
  BY RequestFields DEF Shapes, LedgerTypeOK
<1>2. served[q.key] = {} /\ served' = [served EXCEPT ![q.key] = {q}] BY DEF Step, Fresh
<1>3. CASE promotion[p].status = "approved"
  <2>1. PICK r \in revisions : Published(p, r) BY <1>3 DEF ApprovedAsReviewed, Published
  <2>2. promotion'[p] = promotion[p] BY <1>3, StepPromotions DEF Verdict
  <2>3. r.by \in Key BY <1>1, <2>1 DEF Revision
  <2>4. served'[r.by] = served[r.by] BY <1>1, <1>2, <2>1, <2>3 DEF Published
  <2>5. r \in revisions' BY <2>1, StepWrites DEF Writes
  <2> QED BY <2>1, <2>2, <2>4, <2>5 DEF Published
<1>4. CASE promotion[p].status # "approved"
  <2>1. q.op = "decide" /\ q.about = p
    <3>1. CASE q.op = "propose"
      <4>1. \E f \in Key : PromotionMoved(q.key, f, "pending") BY <3>1 DEF Step
      <4> QED BY <1>1, <1>4, <4>1 DEF PromotionMoved
    <3>2. CASE q.op = "decide" BY <1>1, <1>4, <3>2 DEF Step, PromotionMoved
    <3>3. CASE q.op \in {"create", "invalidate"} BY <1>4, <3>3 DEF Step
    <3> QED BY <3>1, <3>2, <3>3, RequestFields
  <2>2. PICK f \in Key :
          \/ \E s \in {"stale", "rejected"} : PromotionMoved(q.about, f, s)
          \/ /\ Writes({f}, q.key)
             /\ Raised(head[f], head'[f])
             /\ q.verdict = "approved"
             /\ PromotionMoved(q.about, f, "approved")
    BY <2>1 DEF Step
  <2>3. ~ \E s \in {"stale", "rejected"} : PromotionMoved(q.about, f, s)
    BY <1>1, <2>1 DEF PromotionMoved
  <2>4. /\ Writes({f}, q.key) /\ Raised(head[f], head'[f]) /\ q.verdict = "approved"
        /\ promotion'[p] = [facts |-> {f}, source |-> 1, status |-> "approved"]
    BY <1>1, <2>1, <2>2, <2>3 DEF PromotionMoved
  <2>5. head[f].version = 1 BY <2>4 DEF Raised, Shapes, HeadShape, NoHead
  <2>6. head'[f] = [version |-> 2, status |-> "active", space |-> "shared"]
    BY <2>4, <2>5 DEF Raised, Promoted
  <2>7. PICK r \in revisions' : r = [fact |-> f, row |-> head'[f], by |-> q.key]
    BY <2>4 DEF Writes
  <2>8. served'[r.by] = {q} BY <1>1, <1>2, <2>7
  <2>9. r.fact \in promotion'[p].facts /\ promotion'[p].source = 1 BY <2>4, <2>7
  <2>10. r.row = [version |-> promotion'[p].source + 1, status |-> "active", space |-> "shared"]
    BY <2>6, <2>7, <2>9
  <2>11. \E d \in served'[r.by] : d.op = "decide" /\ d.about = p /\ d.verdict = "approved"
    BY <2>1, <2>4, <2>8
  <2> QED BY <2>9, <2>10, <2>11 DEF Published
<1> QED BY <1>3, <1>4

\* An approved promotion published the revision that was reviewed, and nothing
\* came between the review and the publication.
THEOREM ApprovalsPublish == LedgerSpec => []ApprovedAsReviewed
<1>1. LedgerInit => ApprovedAsReviewed BY DEF LedgerInit, ApprovedAsReviewed, NoPromotion
<1>2. Shapes /\ KeyTakesEffectOnce /\ ApprovedAsReviewed /\ [LedgerNext]_ledgerVars => ApprovedAsReviewed'
  <2> SUFFICES ASSUME Shapes, KeyTakesEffectOnce, ApprovedAsReviewed, [LedgerNext]_ledgerVars
               PROVE  ApprovedAsReviewed'
    OBVIOUS
  <2>1. CASE LedgerNext
    <3>1. PICK q \in Request : Step(q) BY <2>1, StepsKnown
    <3>2. \A p \in Key : promotion'[p].status = "approved" => \E r \in revisions' : Published(p, r)'
      BY <3>1, StepApproves
    <3> QED BY <3>2 DEF ApprovedAsReviewed, Published
  <2>2. CASE UNCHANGED ledgerVars BY <2>2 DEF ledgerVars, ApprovedAsReviewed
  <2> QED BY <2>1, <2>2
<1> QED BY <1>1, <1>2, ShapesHold, KeysServeOnce, PTL DEF LedgerSpec

=============================================================================
