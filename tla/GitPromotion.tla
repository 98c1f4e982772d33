---------------------------- MODULE GitPromotion ----------------------------
(***************************************************************************)
(* Promotion of a domain fact to the shared namespace on the Git backend:  *)
(* a record in promotions.json that follows a pull request (promotions.py, *)
(* github_promotion.py, propose and poll of git_services.py).              *)
(*                                                                         *)
(* A step is the code between two awaits; gh and git run in threads.  The  *)
(* branch is built from the remote's main and force-pushed, one branch a   *)
(* fact.  Reviewers, GitHub and the writers of facts act in between.       *)
(***************************************************************************)
EXTENDS Integers, Sequences, FiniteSets

CONSTANTS
    Facts,
    Calls,         \* concurrent propose calls
    None,
    MaxRequests,   \* bound: promotion requests recorded
    MaxFaults      \* bound: failures of git, gh or sync, crashes and cancellations

ASSUME NoneAssumption == None \notin Nat

VARIABLES
    main,          \* the remote's main: [place, active] of each fact
    clone,         \* the same in the working tree propose reads
    record,        \* promotions.json: id -> [fact, state, pr]
    prs,           \* the pull requests, by number: [fact, state]
    call,          \* propose calls
    poll,          \* the periodic poll: what is left to ask, what it asked about
    made,          \* ids given
    cutOff,        \* ids whose propose call was cancelled or died with the process
    faults

vars == <<main, clone, record, prs, call, poll, made, cutOff, faults>>

Pending == {"proposed", "approved"}
IdleCall == [at |-> "idle", fact |-> None, id |-> 0, pr |-> None]
IdlePoll == [at |-> "idle", queue |-> {}, id |-> 0, seen |-> None]

PendingOf(fact) == {id \in DOMAIN record : record[id].fact = fact /\ record[id].state \in Pending}
OpenOf(fact) == {n \in DOMAIN prs : prs[n].fact = fact /\ prs[n].state \in {"OPEN", "APPROVED"}}
Promotable(tree, fact) == tree[fact].place = "domain" /\ tree[fact].active

\* PromotionStore: the file is read, changed and replaced without an await.
Upsert(id, rec) == record' = [i \in DOMAIN record \cup {id} |-> IF i = id THEN rec ELSE record[i]]
Delete(id) == record' = [i \in DOMAIN record \ {id} |-> record[i]]

\* transition()
AllowedFrom(state) == CASE state = "proposed" -> {"approved", "applied", "rejected"}
                        [] state = "approved" -> {"applied", "rejected"}
                        [] OTHER -> {}

At(c, at) == call' = [call EXCEPT ![c].at = at]
Fault == faults < MaxFaults /\ faults' = faults + 1

-----------------------------------------------------------------------------
(* tool_propose_promotion *)

\* The fact is read from the working tree, without its lock; then rev-list is awaited.
Propose(c, fact) ==
    /\ call[c].at = "idle" /\ made < MaxRequests
    /\ Promotable(clone, fact)
    /\ call' = [call EXCEPT ![c] = [IdleCall EXCEPT !.at = "checked", !.fact = fact]]
    /\ UNCHANGED <<main, clone, record, prs, poll, made, cutOff, faults>>

\* Commits are not pushed, or a promotion of the fact is pending: no new one.
Refuse(c) ==
    /\ call[c].at = "checked"
    /\ At(c, "idle")
    /\ UNCHANGED <<main, clone, record, prs, poll, made, cutOff, faults>>

\* Mutant of Request: the duplicates are looked for before the await.
RequestUnchecked(c) ==
    /\ call[c].at = "checked" /\ made < MaxRequests
    /\ made' = made + 1
    /\ Upsert(made', [fact |-> call[c].fact, state |-> "proposed", pr |-> None])
    /\ call' = [call EXCEPT ![c].at = "requested", ![c].id = made']
    /\ UNCHANGED <<main, clone, prs, poll, cutOff, faults>>

\* From the check for duplicates to the record there is no await.
Request(c) ==
    /\ call[c].at = "checked" /\ made < MaxRequests
    /\ PendingOf(call[c].fact) = {}
    /\ made' = made + 1
    /\ Upsert(made', [fact |-> call[c].fact, state |-> "proposed", pr |-> None])
    /\ call' = [call EXCEPT ![c].at = "requested", ![c].id = made']
    /\ UNCHANGED <<main, clone, prs, poll, cutOff, faults>>

\* build_promotion_branch: git mv fails on a fact that has left its place on main.
BuildBranch(c) ==
    /\ call[c].at = "requested"
    /\ \/ main[call[c].fact].place = "domain" /\ At(c, "branched") /\ UNCHANGED faults
       \/ main[call[c].fact].place # "domain" /\ At(c, "failed") /\ UNCHANGED faults
       \/ Fault /\ At(c, "failed")
    /\ UNCHANGED <<main, clone, record, prs, poll, made, cutOff>>

\* gh pr create: GitHub refuses a second open pull request of a branch, and its first is used.
CreatePR(c) ==
    /\ call[c].at = "branched"
    /\ LET open == OpenOf(call[c].fact) IN
       /\ prs' = IF open = {} THEN Append(prs, [fact |-> call[c].fact, state |-> "OPEN"]) ELSE prs
       /\ call' = [call EXCEPT ![c].at = "created",
                     ![c].pr = IF open = {} THEN Len(prs) + 1 ELSE CHOOSE n \in open : TRUE]
    /\ UNCHANGED <<main, clone, record, poll, made, cutOff, faults>>

\* gh fails, or its answer is lost or holds no number, whether or not GitHub has made the request.
LoseCreate(c) ==
    /\ call[c].at \in {"branched", "created"}
    /\ Fault
    /\ At(c, "failed")
    /\ UNCHANGED <<main, clone, record, prs, poll, made, cutOff>>

\* Mutant of RollBack: the record of a failed request stays.
RollBackNot(c) ==
    /\ call[c].at = "failed"
    /\ At(c, "idle")
    /\ UNCHANGED <<main, clone, record, prs, poll, made, cutOff, faults>>

\* An exception of the backend removes the record again.
RollBack(c) ==
    /\ call[c].at = "failed"
    /\ Delete(call[c].id)
    /\ At(c, "idle")
    /\ UNCHANGED <<main, clone, prs, poll, made, cutOff, faults>>

Number(c) ==
    /\ call[c].at = "created"
    /\ Upsert(call[c].id, [fact |-> call[c].fact, state |-> "proposed", pr |-> call[c].pr])
    /\ At(c, "idle")
    /\ UNCHANGED <<main, clone, prs, poll, made, cutOff, faults>>

Working(c) == call[c].at \in {"requested", "branched", "created", "failed"}

\* CancelledError is no Exception: the record stays as it is.
Cancel(c) ==
    /\ Working(c) /\ Fault
    /\ cutOff' = cutOff \cup {call[c].id}
    /\ At(c, "idle")
    /\ UNCHANGED <<main, clone, record, prs, poll, made>>

-----------------------------------------------------------------------------
(* poll_promotions, one round after another in the process's only poll task *)

\* Mutant of PollRound: approved requests are not asked about any more.
PollRoundProposed ==
    /\ poll.at = "idle"
    /\ poll' = [IdlePoll EXCEPT
                  !.at = "asking",
                  !.queue = {id \in DOMAIN record : record[id].state = "proposed" /\ record[id].pr # None}]
    /\ UNCHANGED <<main, clone, record, prs, call, made, cutOff, faults>>

PollRound ==
    /\ poll.at = "idle"
    /\ poll' = [IdlePoll EXCEPT
                  !.at = "asking",
                  !.queue = {id \in DOMAIN record : record[id].state \in Pending /\ record[id].pr # None}]
    /\ UNCHANGED <<main, clone, record, prs, call, made, cutOff, faults>>

\* merged_state of the next request; one that cannot be asked is left to the next round.
Ask ==
    /\ poll.at = "asking"
    /\ \E id \in poll.queue :
          \/ /\ poll' = [poll EXCEPT !.at = "asked", !.id = id, !.seen = prs[record[id].pr].state]
             /\ UNCHANGED faults
          \/ Fault /\ poll' = [poll EXCEPT !.queue = @ \ {id}]
    /\ UNCHANGED <<main, clone, record, prs, call, made, cutOff>>

\* Mutant of Outcome: a closed request that was approved before counts as applied.
OutcomeOptimistic(seen, state) ==
    CASE seen = "MERGED" \/ (seen = "CLOSED" /\ state = "approved") -> "applied"
      [] seen = "CLOSED" -> "rejected"
      [] seen = "APPROVED" -> "approved"
      [] OTHER -> state

Outcome(seen, state) ==
    CASE seen = "MERGED" -> "applied"
      [] seen = "CLOSED" -> "rejected"
      [] seen = "APPROVED" -> "approved"
      [] OTHER -> state

\* What the answer means for the record as it is now; after a merge a sync follows, and
\* one that fails ends the round.
Follow ==
    /\ poll.at = "asked"
    /\ LET now == record[poll.id]
           next == Outcome(poll.seen, now.state)
           changes == now.state \in Pending /\ next \in AllowedFrom(now.state)
           rest == [poll EXCEPT !.at = "asking", !.queue = @ \ {poll.id}]
       IN /\ IF changes THEN Upsert(poll.id, [now EXCEPT !.state = next]) ELSE UNCHANGED record
          /\ \/ changes /\ next = "applied" /\ clone' = main /\ poll' = rest /\ UNCHANGED faults
             \/ changes /\ next = "applied" /\ Fault /\ poll' = IdlePoll /\ UNCHANGED clone
             \/ ~(changes /\ next = "applied") /\ poll' = rest /\ UNCHANGED <<clone, faults>>
    /\ UNCHANGED <<main, prs, call, made, cutOff>>

EndRound == poll.at = "asking" /\ poll.queue = {} /\ poll' = IdlePoll
            /\ UNCHANGED <<main, clone, record, prs, call, made, cutOff, faults>>

-----------------------------------------------------------------------------
(* The rest of the system *)

\* The process dies and starts again; promotions.json is on disk.
Crash ==
    /\ Fault
    /\ cutOff' = cutOff \cup {call[c].id : c \in {d \in Calls : Working(d)}}
    /\ call' = [c \in Calls |-> IdleCall]
    /\ poll' = IdlePoll
    /\ UNCHANGED <<main, clone, record, prs, made>>

\* Reviewers: GitHub's merge what is open, Slack's approve first (slack_promotion.py).
Review(n) ==
    /\ prs[n].state \in {"OPEN", "APPROVED"}
    /\ \/ /\ main[prs[n].fact].place = "domain"
          /\ prs' = [prs EXCEPT ![n].state = "MERGED"]
          /\ main' = [main EXCEPT ![prs[n].fact].place = "shared"]
       \/ /\ \E decision \in {"APPROVED", "CLOSED"} \ {prs[n].state} :
                prs' = [prs EXCEPT ![n].state = decision]
          /\ UNCHANGED main
    /\ UNCHANGED <<clone, record, call, poll, made, cutOff, faults>>

\* Another tool invalidates a fact, through the clone; a periodic sync updates the clone.
Invalidate(fact) ==
    /\ main[fact].active
    /\ main' = [main EXCEPT ![fact].active = FALSE]
    /\ clone' = main'
    /\ UNCHANGED <<record, prs, call, poll, made, cutOff, faults>>

Sync == clone # main /\ clone' = main /\ UNCHANGED <<main, record, prs, call, poll, made, cutOff, faults>>

-----------------------------------------------------------------------------
Init ==
    /\ main = [f \in Facts |-> [place |-> "domain", active |-> TRUE]]
    /\ clone = main
    /\ record = <<>> /\ prs = <<>>
    /\ call = [c \in Calls |-> IdleCall] /\ poll = IdlePoll
    /\ made = 0 /\ cutOff = {} /\ faults = 0

Step(c) == Request(c) \/ BuildBranch(c) \/ CreatePR(c) \/ RollBack(c) \/ Number(c)

Polling == PollRound \/ Ask \/ Follow \/ EndRound

Next ==
    \/ \E c \in Calls : (\E f \in Facts : Propose(c, f)) \/ Refuse(c) \/ Step(c) \/ LoseCreate(c) \/ Cancel(c)
    \/ Polling
    \/ Crash \/ Sync
    \/ \E n \in DOMAIN prs : Review(n)
    \/ \E f \in Facts : Invalidate(f)

Spec == Init /\ [][Next]_vars

\* The periodic poll goes on, whatever else happens.
LiveSpec == Spec /\ WF_vars(Polling)

-----------------------------------------------------------------------------
\* Concurrent proposals of a fact leave one pending record (the atomic section of
\* tool_propose_promotion).
OnePromotionPending == \A f \in Facts : Cardinality(PendingOf(f)) <= 1

\* A pending record without a number, which no poll would ever look at and which refuses
\* every further proposal, belongs to a call that is still at work - unless that
\* call was cancelled or the process died under it.
UnnumberedIsUnderway ==
    \A id \in DOMAIN record :
       record[id].state \in Pending /\ record[id].pr = None =>
          id \in cutOff \/ \E c \in Calls : Working(c) /\ call[c].id = id

\* A record only says what became of its own fact's pull request.
OutcomeIsTrue ==
    \A id \in DOMAIN record :
       record[id].pr # None =>
          LET pr == prs[record[id].pr] IN
          /\ pr.fact = record[id].fact
          /\ record[id].state = "applied" => pr.state = "MERGED" /\ main[pr.fact].place = "shared"
          /\ record[id].state = "rejected" => pr.state = "CLOSED"
          /\ record[id].state = "approved" => pr.state \in {"APPROVED", "MERGED", "CLOSED"}

\* What the reviewers decided reaches the record, across restarts and failed rounds.
DecisionArrives ==
    \A n \in 1..MaxRequests :
       (\E id \in DOMAIN record : record[id].pr = n /\ n \in DOMAIN prs /\ prs[n].state \in {"MERGED", "CLOSED"})
          ~> (\A id \in DOMAIN record : record[id].pr = n => record[id].state \in {"applied", "rejected"})
=============================================================================
