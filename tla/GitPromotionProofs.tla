------------------------- MODULE GitPromotionProofs -------------------------
(***************************************************************************)
(* A promotion record tells the truth about its pull request, and no two   *)
(* are pending for a fact, for any facts, calls, requests and faults.      *)
(*                                                                         *)
(* The file is shared by the calls and the poll, which both go on after    *)
(* awaits with what they read before.  It holds because they never meet:   *)
(* a call at work owns a record of its own that has no number yet          *)
(* (CallsOwn), and the poll only follows numbered records, which no call   *)
(* touches again (PollFollows).  What the poll saw of a pull request       *)
(* before an await may be old, but pull requests only move forward.        *)
(***************************************************************************)
EXTENDS GitPromotion, FiniteSetTheorems, SequenceTheorems, TLAPS

PlaceOf == [place : {"domain", "shared"}, active : BOOLEAN]
PullState == {"OPEN", "APPROVED", "MERGED", "CLOSED"}
State == Pending \cup {"applied", "rejected"}
CallAt == {"idle", "checked", "requested", "branched", "created", "failed"}
PollAt == {"idle", "asking", "asked"}

CallType == [at : CallAt, fact : Facts \cup {None}, id : Nat, pr : Nat \cup {None}]

PollType == [at : PollAt, queue : SUBSET Nat, id : Nat, seen : PullState \cup {None}]

Typed ==
    /\ main \in [Facts -> PlaceOf] /\ clone \in [Facts -> PlaceOf]
    /\ prs \in Seq([fact : Facts, state : PullState])
    /\ call \in [Calls -> CallType]
    /\ poll \in PollType
    /\ made \in Nat
    /\ \A c \in Calls : call[c].at # "idle" => call[c].fact \in Facts

RecordType == [fact : Facts, state : State, pr : Nat \cup {None}]

RecordsOK == DOMAIN record \subseteq 1..made /\ \A id \in DOMAIN record : record[id] \in RecordType

\* A call at work owns a record that has no number yet.
CallsOwn ==
    /\ \A c \in Calls : Working(c) =>
          /\ call[c].id \in DOMAIN record
          /\ record[call[c].id] = [fact |-> call[c].fact, state |-> "proposed", pr |-> None]
    /\ \A c, d \in Calls : Working(c) /\ Working(d) /\ call[c].id = call[d].id => c = d
    /\ \A c \in Calls : call[c].at = "created" =>
          call[c].pr \in DOMAIN prs /\ prs[call[c].pr].fact = call[c].fact

\* Merged means moved, for good.
MergedIsShared == \A n \in DOMAIN prs : prs[n].state = "MERGED" => main[prs[n].fact].place = "shared"

\* What a record of state s, or a poll that saw s, may find of the pull request now.
Since(s) == CASE s \in {"applied", "MERGED"} -> {"MERGED"}
              [] s \in {"rejected", "CLOSED"} -> {"CLOSED"}
              [] s \in {"approved", "APPROVED"} -> {"APPROVED", "MERGED", "CLOSED"}
              [] OTHER -> PullState

Numbered == {id \in DOMAIN record : record[id].pr # None}

NumberedAreTrue ==
    \A id \in Numbered :
        /\ record[id].pr \in DOMAIN prs
        /\ prs[record[id].pr].fact = record[id].fact
        /\ prs[record[id].pr].state \in Since(record[id].state)

PollFollows ==
    /\ poll.queue \subseteq Numbered
    /\ poll.at = "asked" =>
          /\ poll.id \in poll.queue
          /\ prs[record[poll.id].pr].state \in Since(poll.seen) /\ poll.seen \in PullState

OneEach ==
    \A i, j \in DOMAIN record :
        record[i].fact = record[j].fact /\ {record[i].state, record[j].state} \subseteq Pending => i = j

Inv == /\ Typed /\ RecordsOK /\ CallsOwn /\ MergedIsShared /\ NumberedAreTrue
       /\ PollFollows /\ OneEach /\ UnnumberedIsUnderway

-----------------------------------------------------------------------------
(* The file, the states of a pull request                                  *)

LEMMA UpsertIs ==
    ASSUME NEW id, NEW rec, Upsert(id, rec)
    PROVE  /\ DOMAIN record' = DOMAIN record \cup {id} /\ record'[id] = rec
           /\ \A i \in DOMAIN record \ {id} : record'[i] = record[i]
BY DEF Upsert

LEMMA DeleteIs ==
    ASSUME NEW id, Delete(id)
    PROVE  /\ DOMAIN record' = DOMAIN record \ {id}
           /\ \A i \in DOMAIN record' : record'[i] = record[i]
BY DEF Delete

\* A review moves a pull request to a state that whatever was said of it allows.
LEMMA ReviewsMoveOn ==
    ASSUME NEW s \in State \cup PullState, NEW now \in {"OPEN", "APPROVED"} \cap Since(s),
           NEW then \in {"APPROVED", "MERGED", "CLOSED"}
    PROVE  then \in Since(s)
BY DEF State, Pending, PullState, Since

\* What a poll concludes from what it saw is allowed by what it saw and by the record.
LEMMA OutcomeFits ==
    ASSUME NEW seen \in PullState, NEW state \in State, NEW now \in Since(seen) \cap Since(state)
    PROVE  Outcome(seen, state) \in State /\ now \in Since(Outcome(seen, state))
BY DEF State, Pending, PullState, Since, Outcome

LEMMA Appended ==
    ASSUME NEW S, NEW s \in Seq(S), NEW x \in S
    PROVE  /\ Append(s, x) \in Seq(S) /\ Len(s) + 1 \in DOMAIN Append(s, x)
           /\ Append(s, x)[Len(s) + 1] = x /\ Len(s) + 1 \in Nat
           /\ DOMAIN s \subseteq DOMAIN Append(s, x) /\ \A m \in DOMAIN s : Append(s, x)[m] = s[m]
           /\ \A m \in DOMAIN Append(s, x) \ DOMAIN s : Append(s, x)[m] = x
<1>1. /\ Append(s, x) \in Seq(S) /\ Len(Append(s, x)) = Len(s) + 1 /\ Len(s) \in Nat
      /\ \A m \in 1..Len(s) : Append(s, x)[m] = s[m]
      /\ Append(s, x)[Len(s) + 1] = x
    BY AppendProperties
<1>2. DOMAIN Append(s, x) = 1..(Len(s) + 1) /\ DOMAIN s = 1..Len(s)
    BY <1>1
<1>3. QED
    BY <1>1, <1>2

-----------------------------------------------------------------------------
(* Steps of a call that leave the file alone                               *)

LEMMA CallChanges ==
    ASSUME Typed, NEW c \in Calls, NEW e \in CallType, call' = [call EXCEPT ![c] = e]
    PROVE  /\ call' \in [Calls -> CallType] /\ call'[c] = e
           /\ \A d \in Calls \ {c} : call'[d] = call[d]
BY DEF Typed

\* A call that is at work goes on with its fact and its record.
LEMMA CallGoesOn ==
    ASSUME Inv, NEW c \in Calls, NEW e \in CallType, call' = [call EXCEPT ![c] = e],
           Working(c), e.at \in {"branched", "failed"},
           e.id = call[c].id, e.fact = call[c].fact,
           UNCHANGED <<main, clone, record, prs, poll, made, cutOff>>
    PROVE  Inv'
<1>1. /\ call' \in [Calls -> CallType] /\ call'[c] = e
      /\ \A d \in Calls \ {c} : call'[d] = call[d]
    BY CallChanges DEF Inv
<1>2. \A d \in Calls : /\ call'[d].id = call[d].id /\ call'[d].fact = call[d].fact
                       /\ Working(d)' <=> Working(d)
    BY <1>1 DEF Working
<1>3. Typed'
    <2>1. call[c].fact \in Facts
        BY DEF Inv, Typed, Working
    <2>2. \A d \in Calls : call'[d].at # "idle" => call'[d].fact \in Facts
        BY <1>1, <2>1 DEF Inv, Typed
    <2>3. QED
        BY <1>1, <2>2 DEF Inv, Typed
<1>4. CallsOwn'
    <2>1. \A d \in Calls : call'[d].at = "created" => d # c
        BY <1>1
    <2>2. QED
        BY <1>1, <1>2, <2>1 DEF Inv, CallsOwn
<1>5. UnnumberedIsUnderway'
    BY <1>2 DEF Inv, UnnumberedIsUnderway
<1>6. RecordsOK' /\ MergedIsShared' /\ NumberedAreTrue' /\ PollFollows' /\ OneEach'
    BY DEF Inv, RecordsOK, MergedIsShared, NumberedAreTrue, Numbered, PollFollows, OneEach
<1>7. QED
    BY <1>3, <1>4, <1>5, <1>6 DEF Inv

\* A call that owns no record, or gives its own up as cut off, begins or ends.
LEMMA CallLeaves ==
    ASSUME Inv, NEW c \in Calls, NEW e \in CallType, call' = [call EXCEPT ![c] = e],
           e.at \in {"idle", "checked"}, e.at = "checked" => e.fact \in Facts,
           cutOff \subseteq cutOff', Working(c) => call[c].id \in cutOff',
           UNCHANGED <<main, clone, record, prs, poll, made>>
    PROVE  Inv'
<1>1. /\ call' \in [Calls -> CallType] /\ call'[c] = e
      /\ \A d \in Calls \ {c} : call'[d] = call[d]
    BY CallChanges DEF Inv
<1>2. ~Working(c)' /\ \A d \in Calls \ {c} : Working(d)' <=> Working(d)
    BY <1>1 DEF Working
<1>3. Typed'
    BY <1>1 DEF Inv, Typed
<1>4. CallsOwn'
    BY <1>1, <1>2 DEF Inv, CallsOwn
<1>5. UnnumberedIsUnderway'
    BY <1>1, <1>2 DEF Inv, UnnumberedIsUnderway
<1>6. RecordsOK' /\ MergedIsShared' /\ NumberedAreTrue' /\ PollFollows' /\ OneEach'
    BY DEF Inv, RecordsOK, MergedIsShared, NumberedAreTrue, Numbered, PollFollows, OneEach
<1>7. QED
    BY <1>3, <1>4, <1>5, <1>6 DEF Inv

LEMMA CallFields ==
    ASSUME Inv, NEW c \in Calls
    PROVE  /\ call[c] \in CallType /\ call[c].id \in Nat
           /\ call[c].at # "idle" => call[c].fact \in Facts
BY DEF Inv, Typed, CallType

LEMMA ProposeKeeps == ASSUME Inv, NEW c \in Calls, NEW f \in Facts, Propose(c, f) PROVE Inv'
<1> DEFINE e == [IdleCall EXCEPT !.at = "checked", !.fact = f]
<1>1. e \in CallType /\ e.at = "checked" /\ e.fact = f
    BY DEF IdleCall, CallType, CallAt
<1>2. ~Working(c) /\ call' = [call EXCEPT ![c] = e]
    BY DEF Propose, Working
<1> HIDE DEF e
<1>3. QED
    BY <1>1, <1>2, CallLeaves DEF Propose

LEMMA RefuseKeeps == ASSUME Inv, NEW c \in Calls, Refuse(c) PROVE Inv'
<1> DEFINE e == [call[c] EXCEPT !.at = "idle"]
<1>1. e \in CallType /\ e.at = "idle"
    BY CallFields DEF CallType, CallAt
<1>2. ~Working(c) /\ call' = [call EXCEPT ![c] = e]
    BY DEF Refuse, At, Working, Inv, Typed
<1> HIDE DEF e
<1>3. QED
    BY <1>1, <1>2, CallLeaves DEF Refuse

\* A call at work that goes on, as "branched" or "failed".
LEMMA GoesOn ==
    ASSUME Inv, NEW c \in Calls, NEW at \in {"branched", "failed"}, Working(c), At(c, at),
           UNCHANGED <<main, clone, record, prs, poll, made, cutOff>>
    PROVE  Inv'
<1> DEFINE e == [call[c] EXCEPT !.at = at]
<1>1. e \in CallType /\ e.at = at /\ e.id = call[c].id /\ e.fact = call[c].fact
    BY CallFields DEF CallType, CallAt
<1>2. call' = [call EXCEPT ![c] = e]
    BY DEF At, Inv, Typed
<1> HIDE DEF e
<1>3. QED
    BY <1>1, <1>2, CallGoesOn

LEMMA BuildBranchKeeps == ASSUME Inv, NEW c \in Calls, BuildBranch(c) PROVE Inv'
<1>1. Working(c) /\ (At(c, "branched") \/ At(c, "failed"))
    BY DEF BuildBranch, Working
<1>2. QED
    BY <1>1, GoesOn DEF BuildBranch

LEMMA LoseCreateKeeps == ASSUME Inv, NEW c \in Calls, LoseCreate(c) PROVE Inv'
<1>1. Working(c) /\ At(c, "failed")
    BY DEF LoseCreate, Working
<1>2. QED
    BY <1>1, GoesOn DEF LoseCreate

LEMMA CancelKeeps == ASSUME Inv, NEW c \in Calls, Cancel(c) PROVE Inv'
<1> DEFINE e == [call[c] EXCEPT !.at = "idle"]
<1>1. e \in CallType /\ e.at = "idle"
    BY CallFields DEF CallType, CallAt
<1>2. call' = [call EXCEPT ![c] = e]
    BY DEF Cancel, At, Inv, Typed
<1> HIDE DEF e
<1>3. QED
    BY <1>1, <1>2, CallLeaves DEF Cancel

-----------------------------------------------------------------------------
(* Steps of a call that write the file or make a pull request              *)

\* No promotion of the fact is pending when the new record is added, under a new id.
LEMMA RequestKeeps == ASSUME Inv, NEW c \in Calls, Request(c) PROVE Inv'
<1> DEFINE e == [call[c] EXCEPT !.at = "requested", !.id = made + 1]
           rec == [fact |-> call[c].fact, state |-> "proposed", pr |-> None]
<1>1. made \in Nat /\ call[c].fact \in Facts /\ call[c].at = "checked" /\ made' = made + 1
    BY DEF Request, Inv, Typed
<1>2. e \in CallType /\ e.at = "requested" /\ e.id = made + 1 /\ e.fact = call[c].fact
    <2>1. made + 1 \in Nat /\ "requested" \in CallAt
        BY <1>1 DEF CallAt
    <2>2. call[c] \in CallType
        BY CallFields
    <2>3. QED
        BY <2>1, <2>2 DEF CallType
<1>3. call' = [call EXCEPT ![c] = e]
    BY <1>1 DEF Request, Inv, Typed
<1>4. /\ DOMAIN record' = DOMAIN record \cup {made + 1} /\ record'[made + 1] = rec
      /\ \A i \in DOMAIN record \ {made + 1} : record'[i] = record[i]
    BY <1>1, UpsertIs DEF Request
<1>5. made + 1 \notin DOMAIN record /\ made + 1 # None
    BY <1>1, NoneAssumption DEF Inv, RecordsOK
<1>6. /\ rec.fact = call[c].fact /\ rec.state = "proposed" /\ rec.pr = None
      /\ rec \in RecordType
    BY <1>1 DEF RecordType, State, Pending
<1> HIDE DEF e, rec
<1>7. /\ call' \in [Calls -> CallType] /\ call'[c] = e
      /\ \A d \in Calls \ {c} : call'[d] = call[d]
    BY <1>2, <1>3, CallChanges DEF Inv
<1>8. Numbered' = Numbered /\ \A id \in Numbered : record'[id] = record[id]
    BY <1>4, <1>5, <1>6 DEF Numbered
<1>9. Typed'
    BY <1>1, <1>2, <1>7 DEF Request, Inv, Typed
<1>10. RecordsOK'
    BY <1>1, <1>4, <1>6 DEF Inv, RecordsOK
<1>11. CallsOwn'
    <2>1. \A d \in Calls \ {c} : Working(d)' <=> Working(d)
        BY <1>7 DEF Working
    <2>2. \A d \in Calls \ {c} : Working(d) => call[d].id \in DOMAIN record
        BY DEF Inv, CallsOwn
    <2>3. \A d \in Calls : Working(d)' =>
             /\ call'[d].id \in DOMAIN record'
             /\ record'[call'[d].id]
                   = [fact |-> call'[d].fact, state |-> "proposed", pr |-> None]
        BY <1>2, <1>4, <1>5, <1>7, <2>1, <2>2 DEF Inv, CallsOwn, rec
    <2>4. \A d, b \in Calls : Working(d)' /\ Working(b)' /\ call'[d].id = call'[b].id => d = b
        BY <1>2, <1>5, <1>7, <2>1, <2>2 DEF Inv, CallsOwn
    <2>5. \A d \in Calls : call'[d].at = "created" => d # c /\ call[d].at = "created"
        BY <1>2, <1>7
    <2>6. prs' = prs
        BY DEF Request
    <2>7. QED
        BY <1>7, <2>3, <2>4, <2>5, <2>6 DEF Inv, CallsOwn
<1>12. MergedIsShared' /\ NumberedAreTrue' /\ PollFollows'
    <2>1. main' = main /\ prs' = prs /\ poll' = poll
        BY DEF Request
    <2>2. poll.at = "asked" => poll.id \in Numbered
        BY DEF Inv, PollFollows
    <2>3. QED
        BY <1>8, <2>1, <2>2 DEF Inv, MergedIsShared, NumberedAreTrue, PollFollows
<1>13. OneEach'
    <2>1. \A i \in DOMAIN record : record[i].fact = call[c].fact => record[i].state \notin Pending
        BY DEF Request, PendingOf
    <2>2. QED
        BY <1>4, <1>5, <1>6, <2>1 DEF Inv, OneEach
<1>14. UnnumberedIsUnderway'
    <2>1. Working(c)' /\ call'[c].id = made + 1 /\ cutOff' = cutOff
        BY <1>2, <1>7 DEF Request, Working
    <2>2. \A d \in Calls : Working(d) => Working(d)' /\ call'[d].id = call[d].id
        BY <1>1, <1>7 DEF Working
    <2>3. QED
        BY <1>4, <1>5, <2>1, <2>2 DEF Inv, UnnumberedIsUnderway
<1>15. QED
    BY <1>9, <1>10, <1>11, <1>12, <1>13, <1>14 DEF Inv

\* The pull request is the fact's: a new one, or the open one of its branch.
LEMMA CreatePRKeeps == ASSUME Inv, NEW c \in Calls, CreatePR(c) PROVE Inv'
<1> DEFINE open == OpenOf(call[c].fact)
           n == IF open = {} THEN Len(prs) + 1 ELSE CHOOSE m \in open : TRUE
           e == [call[c] EXCEPT !.at = "created", !.pr = n]
           new == [fact |-> call[c].fact, state |-> "OPEN"]
<1>1. /\ call[c].at = "branched" /\ call[c].fact \in Facts /\ Working(c)
      /\ prs' = IF open = {} THEN Append(prs, new) ELSE prs
      /\ prs \in Seq([fact : Facts, state : PullState]) /\ DOMAIN prs = 1..Len(prs)
      /\ new \in [fact : Facts, state : PullState]
    BY DEF CreatePR, Inv, Typed, Working, PullState
<1>2. /\ prs' \in Seq([fact : Facts, state : PullState])
      /\ DOMAIN prs \subseteq DOMAIN prs' /\ \A m \in DOMAIN prs : prs'[m] = prs[m]
      /\ \A m \in DOMAIN prs' \ DOMAIN prs : prs'[m] = new
      /\ n \in DOMAIN prs' /\ prs'[n].fact = call[c].fact /\ n \in Nat
    <2>0. new.fact = call[c].fact /\ Len(prs) \in Nat
        BY <1>1
    <2> HIDE DEF new
    <2>1. CASE open = {}
        <3>1. prs' = Append(prs, new) /\ n = Len(prs) + 1
            BY <1>1, <2>1
        <3>2. /\ prs \in Seq([fact : Facts, state : PullState])
              /\ new \in [fact : Facts, state : PullState]
            BY <1>1
        <3> HIDE DEF n, e
        <3>3. /\ prs' \in Seq([fact : Facts, state : PullState])
              /\ n \in DOMAIN prs' /\ prs'[n] = new /\ n \in Nat
              /\ DOMAIN prs \subseteq DOMAIN prs' /\ \A m \in DOMAIN prs : prs'[m] = prs[m]
              /\ \A m \in DOMAIN prs' \ DOMAIN prs : prs'[m] = new
            <4> DEFINE S == [fact : Facts, state : PullState]
            <4>1. prs \in Seq(S) /\ new \in S
                BY <3>2
            <4> HIDE DEF S
            <4>2. /\ Append(prs, new) \in Seq(S) /\ Len(prs) + 1 \in DOMAIN Append(prs, new)
                  /\ Append(prs, new)[Len(prs) + 1] = new /\ Len(prs) + 1 \in Nat
                  /\ DOMAIN prs \subseteq DOMAIN Append(prs, new)
                  /\ \A m \in DOMAIN prs : Append(prs, new)[m] = prs[m]
                  /\ \A m \in DOMAIN Append(prs, new) \ DOMAIN prs : Append(prs, new)[m] = new
                BY <4>1, Appended
            <4>3. QED
                BY <3>1, <4>2 DEF S
        <3>4. QED
            BY <2>0, <3>3, Zenon
    <2>2. CASE open # {}
        <3>1. n \in open /\ prs' = prs
            BY <1>1, <2>2
        <3>2. n \in DOMAIN prs /\ prs[n].fact = call[c].fact
            BY <3>1 DEF OpenOf
        <3> HIDE DEF n, open
        <3>3. n \in Nat
            BY <1>1, <2>0, <3>2
        <3>4. QED
            BY <1>1, <3>1, <3>2, <3>3, Zenon
    <2>3. QED
        BY <2>1, <2>2
<1>3. call' = [call EXCEPT ![c] = e]
    BY <1>1 DEF CreatePR, Inv, Typed
<1> HIDE DEF n
<1>4. e \in CallType /\ e.at = "created" /\ e.id = call[c].id /\ e.fact = call[c].fact /\ e.pr = n
    BY <1>2, CallFields DEF CallType, CallAt
<1> HIDE DEF e
<1>5. /\ call' \in [Calls -> CallType] /\ call'[c] = e
      /\ \A d \in Calls \ {c} : call'[d] = call[d]
      /\ UNCHANGED <<main, clone, record, poll, made, cutOff>>
    BY <1>3, <1>4, CallChanges DEF Inv, CreatePR
<1>6. \A d \in Calls : /\ call'[d].id = call[d].id /\ call'[d].fact = call[d].fact
                       /\ Working(d)' <=> Working(d)
    BY <1>1, <1>4, <1>5 DEF Working
<1>7. Typed'
    BY <1>1, <1>2, <1>4, <1>5 DEF Inv, Typed
<1>8. CallsOwn'
    BY <1>2, <1>4, <1>5, <1>6 DEF Inv, CallsOwn
<1>9. MergedIsShared'
    <2>1. new.state = "OPEN"
        OBVIOUS
    <2>2. QED
        BY <1>2, <1>5, <2>1 DEF Inv, MergedIsShared
<1>10. NumberedAreTrue' /\ PollFollows'
    BY <1>2, <1>5 DEF Inv, NumberedAreTrue, PollFollows, Numbered
<1>11. UnnumberedIsUnderway'
    BY <1>5, <1>6 DEF Inv, UnnumberedIsUnderway
<1>12. RecordsOK' /\ OneEach'
    BY <1>5 DEF Inv, RecordsOK, OneEach
<1>13. QED
    BY <1>7, <1>8, <1>9, <1>10, <1>11, <1>12 DEF Inv

\* The records of the other calls at work are others, and none of them has a number.
LEMMA OwnRecord ==
    ASSUME Inv, NEW c \in Calls, Working(c)
    PROVE  /\ call[c].id \in DOMAIN record \ Numbered
           /\ record[call[c].id].fact = call[c].fact /\ record[call[c].id].state = "proposed"
           /\ record[call[c].id].pr = None /\ call[c].fact \in Facts
           /\ \A d \in Calls \ {c} : Working(d) => call[d].id # call[c].id
<1>1. call[c].fact \in Facts
    BY CallFields DEF Working
<1>2. /\ call[c].id \in DOMAIN record
      /\ record[call[c].id] = [fact |-> call[c].fact, state |-> "proposed", pr |-> None]
      /\ \A d \in Calls \ {c} : Working(d) => call[d].id # call[c].id
    BY DEF Inv, CallsOwn
<1>3. QED
    BY <1>1, <1>2 DEF Numbered

LEMMA PullFields ==
    ASSUME Inv, NEW n \in DOMAIN prs
    PROVE  n \in Nat /\ prs[n].fact \in Facts /\ prs[n].state \in PullState
<1>1. prs \in Seq([fact : Facts, state : PullState]) /\ Len(prs) \in Nat /\ DOMAIN prs = 1..Len(prs)
    BY DEF Inv, Typed
<1>2. n \in 1..Len(prs)
    BY <1>1
<1>3. prs[n] \in [fact : Facts, state : PullState]
    BY <1>1, <1>2, ElementOfSeq
<1>4. QED
    BY <1>2, <1>3

LEMMA RollBackKeeps == ASSUME Inv, NEW c \in Calls, RollBack(c) PROVE Inv'
<1> DEFINE e == [call[c] EXCEPT !.at = "idle"]
           id == call[c].id
<1>1. Working(c) /\ call[c].at = "failed"
    BY DEF RollBack, Working
<1>2. e \in CallType /\ e.at = "idle"
    BY CallFields DEF CallType, CallAt
<1>3. call' = [call EXCEPT ![c] = e]
    BY DEF RollBack, At, Inv, Typed
<1>4. DOMAIN record' = DOMAIN record \ {id} /\ \A i \in DOMAIN record' : record'[i] = record[i]
    BY DeleteIs DEF RollBack
<1>5. /\ id \in DOMAIN record \ Numbered
      /\ \A d \in Calls \ {c} : Working(d) => call[d].id # id
    BY <1>1, OwnRecord
<1> HIDE DEF e, id
<1>6. /\ call' \in [Calls -> CallType] /\ call'[c] = e
      /\ \A d \in Calls \ {c} : call'[d] = call[d]
    BY <1>2, <1>3, CallChanges DEF Inv
<1>7. /\ UNCHANGED <<main, clone, prs, poll, made, cutOff>>
    BY DEF RollBack
<1>8. ~Working(c)' /\ \A d \in Calls \ {c} : Working(d)' <=> Working(d)
    BY <1>2, <1>6 DEF Working
<1>9. Numbered' = Numbered /\ \A i \in Numbered : record'[i] = record[i]
    BY <1>4, <1>5 DEF Numbered
<1>10. Typed'
    BY <1>2, <1>6, <1>7 DEF Inv, Typed
<1>11. RecordsOK' /\ OneEach'
    BY <1>4, <1>7 DEF Inv, RecordsOK, OneEach
<1>12. CallsOwn'
    <2>1. \A d \in Calls : Working(d)' =>
             /\ call'[d].id \in DOMAIN record'
             /\ record'[call'[d].id] = [fact |-> call'[d].fact, state |-> "proposed", pr |-> None]
        BY <1>4, <1>5, <1>6, <1>8 DEF Inv, CallsOwn
    <2>2. \A d, b \in Calls : Working(d)' /\ Working(b)' /\ call'[d].id = call'[b].id => d = b
        BY <1>6, <1>8 DEF Inv, CallsOwn
    <2>3. \A d \in Calls : call'[d].at = "created" =>
             call'[d].pr \in DOMAIN prs /\ prs[call'[d].pr].fact = call'[d].fact
        BY <1>2, <1>6 DEF Inv, CallsOwn
    <2>4. QED
        BY <1>7, <2>1, <2>2, <2>3 DEF CallsOwn
<1>13. MergedIsShared' /\ NumberedAreTrue' /\ PollFollows'
    <2>1. poll.at = "asked" => poll.id \in Numbered
        BY DEF Inv, PollFollows
    <2>2. QED
        BY <1>7, <1>9, <2>1 DEF Inv, MergedIsShared, NumberedAreTrue, PollFollows
<1>14. UnnumberedIsUnderway'
    <2>1. \A d \in Calls : Working(d) /\ d # c => Working(d)' /\ call'[d].id = call[d].id
        BY <1>6, <1>8
    <2>2. \A d \in Calls : Working(d) /\ call[d].id # id => d # c
        BY DEF id
    <2>3. QED
        BY <1>4, <1>7, <2>1, <2>2 DEF Inv, UnnumberedIsUnderway
<1>15. QED
    BY <1>10, <1>11, <1>12, <1>13, <1>14 DEF Inv

\* The record gets the number of the call's own pull request.
LEMMA NumberKeeps == ASSUME Inv, NEW c \in Calls, Number(c) PROVE Inv'
<1> DEFINE e == [call[c] EXCEPT !.at = "idle"]
           id == call[c].id
           rec == [fact |-> call[c].fact, state |-> "proposed", pr |-> call[c].pr]
<1>1. Working(c) /\ call[c].at = "created"
    BY DEF Number, Working
<1>2. e \in CallType /\ e.at = "idle"
    BY CallFields DEF CallType, CallAt
<1>3. call' = [call EXCEPT ![c] = e]
    BY DEF Number, At, Inv, Typed
<1>4. /\ id \in DOMAIN record \ Numbered
      /\ record[id].fact = call[c].fact /\ record[id].state = "proposed"
      /\ record[id].pr = None /\ call[c].fact \in Facts
      /\ \A d \in Calls \ {c} : Working(d) => call[d].id # id
    BY <1>1, OwnRecord
<1>5. /\ DOMAIN record' = DOMAIN record /\ record'[id] = rec
      /\ \A i \in DOMAIN record \ {id} : record'[i] = record[i]
    BY <1>4, UpsertIs DEF Number
<1>6. call[c].pr \in DOMAIN prs /\ prs[call[c].pr].fact = call[c].fact
    BY <1>1 DEF Inv, CallsOwn
<1>7. call[c].pr \in Nat /\ prs[call[c].pr].state \in PullState
    BY <1>6, PullFields
<1>8. /\ rec.fact = call[c].fact /\ rec.state = "proposed" /\ rec.pr = call[c].pr
      /\ rec \in RecordType /\ call[c].pr # None
    BY <1>4, <1>7, NoneAssumption DEF RecordType, State, Pending
<1> HIDE DEF e, id, rec
<1>9. /\ call' \in [Calls -> CallType] /\ call'[c] = e
      /\ \A d \in Calls \ {c} : call'[d] = call[d]
    BY <1>2, <1>3, CallChanges DEF Inv
<1>10. UNCHANGED <<main, clone, prs, poll, made, cutOff>>
    BY DEF Number
<1>11. ~Working(c)' /\ \A d \in Calls \ {c} : Working(d)' <=> Working(d)
    BY <1>2, <1>9 DEF Working
<1>12. Numbered' = Numbered \cup {id} /\ \A i \in Numbered : i # id /\ record'[i] = record[i]
    BY <1>4, <1>5, <1>8 DEF Numbered
<1>13. Typed'
    BY <1>2, <1>9, <1>10 DEF Inv, Typed
<1>14. RecordsOK'
    BY <1>4, <1>5, <1>8, <1>10 DEF Inv, RecordsOK
<1>15. OneEach'
    <2>1. \A i \in DOMAIN record : record'[i].fact = record[i].fact /\ record'[i].state = record[i].state
        BY <1>4, <1>5, <1>8
    <2>2. QED
        BY <1>5, <2>1 DEF Inv, OneEach
<1>16. CallsOwn'
    <2>1. \A d \in Calls : Working(d)' =>
             /\ call'[d].id \in DOMAIN record'
             /\ record'[call'[d].id] = [fact |-> call'[d].fact, state |-> "proposed", pr |-> None]
        BY <1>4, <1>5, <1>9, <1>11 DEF Inv, CallsOwn
    <2>2. \A d, b \in Calls : Working(d)' /\ Working(b)' /\ call'[d].id = call'[b].id => d = b
        BY <1>9, <1>11 DEF Inv, CallsOwn
    <2>3. \A d \in Calls : call'[d].at = "created" =>
             call'[d].pr \in DOMAIN prs /\ prs[call'[d].pr].fact = call'[d].fact
        BY <1>2, <1>9 DEF Inv, CallsOwn
    <2>4. QED
        BY <1>10, <2>1, <2>2, <2>3 DEF CallsOwn
<1>17. NumberedAreTrue'
    <2>1. Since("proposed") = PullState
        BY DEF Since
    <2>2. prs' = prs
        BY <1>10
    <2>3. ASSUME NEW i \in Numbered'
          PROVE  /\ record'[i].pr \in DOMAIN prs /\ prs[record'[i].pr].fact = record'[i].fact
                 /\ prs[record'[i].pr].state \in Since(record'[i].state)
        <3>1. CASE i = id
            BY <1>5, <1>6, <1>7, <1>8, <2>1, <3>1
        <3>2. CASE i \in Numbered
            BY <1>12, <3>2 DEF Inv, NumberedAreTrue
        <3>3. QED
            BY <1>12, <3>1, <3>2
    <2>4. QED
        BY <2>2, <2>3 DEF NumberedAreTrue
<1>18. MergedIsShared' /\ PollFollows'
    <2>1. poll.at = "asked" => poll.id \in Numbered
        BY DEF Inv, PollFollows
    <2>2. QED
        BY <1>10, <1>12, <2>1 DEF Inv, MergedIsShared, PollFollows
<1>19. UnnumberedIsUnderway'
    <2>1. \A d \in Calls : Working(d) /\ d # c => Working(d)' /\ call'[d].id = call[d].id
        BY <1>9, <1>11
    <2>2. \A d \in Calls : Working(d) /\ call[d].id # id => d # c
        BY DEF id
    <2>3. QED
        BY <1>5, <1>8, <1>10, <2>1, <2>2 DEF Inv, UnnumberedIsUnderway
<1>20. QED
    BY <1>13, <1>14, <1>15, <1>16, <1>17, <1>18, <1>19 DEF Inv

-----------------------------------------------------------------------------
(* The poll                                                                *)

LEMMA NumberedIds == ASSUME Inv PROVE Numbered \subseteq Nat
BY DEF Inv, RecordsOK, Typed, Numbered

\* Steps that change neither the file nor a pull request: the poll's own, and a sync.
LEMMA PollMoves ==
    ASSUME Inv, poll' \in PollType, PollFollows', clone' \in {clone, main},
           UNCHANGED <<main, record, prs, call, made, cutOff>>
    PROVE  Inv'
<1>1. Typed'
    BY DEF Inv, Typed
<1>2. \A c \in Calls : Working(c)' <=> Working(c)
    BY DEF Working
<1>3. RecordsOK' /\ CallsOwn' /\ MergedIsShared' /\ NumberedAreTrue' /\ OneEach'
    BY <1>2 DEF Inv, RecordsOK, CallsOwn, MergedIsShared, NumberedAreTrue, Numbered, OneEach
<1>4. UnnumberedIsUnderway'
    BY <1>2 DEF Inv, UnnumberedIsUnderway
<1>5. QED
    BY <1>1, <1>3, <1>4 DEF Inv

LEMMA PollRoundKeeps == ASSUME Inv, PollRound PROVE Inv'
<1> DEFINE q == {id \in DOMAIN record : record[id].state \in Pending /\ record[id].pr # None}
           e == [IdlePoll EXCEPT !.at = "asking", !.queue = q]
<1>1. q \subseteq Numbered /\ q \subseteq Nat
    BY NumberedIds DEF Numbered
<1> HIDE DEF q
<1>2. e \in PollType /\ e.at = "asking" /\ e.queue = q
    BY <1>1 DEF PollType, IdlePoll, PollAt
<1>3. poll' = e /\ UNCHANGED <<main, clone, record, prs, call, made, cutOff>>
    BY DEF PollRound, q
<1> HIDE DEF e
<1>4. PollFollows'
    BY <1>1, <1>2, <1>3 DEF PollFollows, Numbered
<1>5. QED
    BY <1>2, <1>3, <1>4, PollMoves

LEMMA AskKeeps == ASSUME Inv, Ask PROVE Inv'
<1>1. /\ poll \in PollType /\ poll.at = "asking" /\ poll.queue \subseteq Numbered
      /\ UNCHANGED <<main, clone, record, prs, call, made, cutOff>>
    BY DEF Ask, Inv, Typed, PollFollows
<1>2. PICK id \in poll.queue :
          \/ poll' = [poll EXCEPT !.at = "asked", !.id = id, !.seen = prs[record[id].pr].state]
          \/ poll' = [poll EXCEPT !.queue = @ \ {id}]
    BY DEF Ask
<1>3. id \in Numbered /\ record[id].pr \in DOMAIN prs
    BY <1>1 DEF Inv, NumberedAreTrue
<1>4. id \in Nat /\ prs[record[id].pr].state \in PullState
    BY <1>3, NumberedIds, PullFields
<1>5. prs[record[id].pr].state \in Since(prs[record[id].pr].state)
    BY <1>4 DEF Since, PullState
<1>6. CASE poll' = [poll EXCEPT !.at = "asked", !.id = id, !.seen = prs[record[id].pr].state]
    <2>1. /\ poll' \in PollType /\ poll'.queue = poll.queue /\ poll'.id = id
          /\ poll'.seen = prs[record[id].pr].state
        BY <1>1, <1>4, <1>6 DEF PollType, PollAt
    <2>2. PollFollows'
        BY <1>1, <1>4, <1>5, <2>1 DEF PollFollows, Numbered
    <2>3. QED
        BY <1>1, <2>1, <2>2, PollMoves
<1>7. CASE poll' = [poll EXCEPT !.queue = @ \ {id}]
    <2>1. /\ poll' \in PollType /\ poll'.queue \subseteq poll.queue /\ poll'.at = "asking"
        BY <1>1, <1>7 DEF PollType
    <2>2. PollFollows'
        BY <1>1, <2>1 DEF PollFollows, Numbered
    <2>3. QED
        BY <1>1, <2>1, <2>2, PollMoves
<1>8. QED
    BY <1>2, <1>6, <1>7

LEMMA IdlePollIs == IdlePoll \in PollType /\ IdlePoll.at = "idle" /\ IdlePoll.queue = {}
BY DEF IdlePoll, PollType, PollAt

LEMMA EndRoundKeeps == ASSUME Inv, EndRound PROVE Inv'
<1>1. poll' = IdlePoll /\ UNCHANGED <<main, clone, record, prs, call, made, cutOff>>
    BY DEF EndRound
<1>2. PollFollows'
    BY <1>1, IdlePollIs DEF PollFollows
<1>3. QED
    BY <1>1, <1>2, IdlePollIs, PollMoves

LEMMA SyncKeeps == ASSUME Inv, Sync PROVE Inv'
<1>1. clone' = main /\ UNCHANGED <<main, record, prs, call, poll, made, cutOff>>
    BY DEF Sync
<1>2. PollFollows'
    BY <1>1 DEF Inv, PollFollows, Numbered
<1>3. QED
    BY <1>1, <1>2, PollMoves DEF Inv, Typed

\* What the poll saw and what the record says now are both old news of one pull request.
LEMMA FollowKeeps == ASSUME Inv, Follow PROVE Inv'
<1> DEFINE id == poll.id
           now == record[id]
           next == Outcome(poll.seen, now.state)
           changes == now.state \in Pending /\ next \in AllowedFrom(now.state)
           rec == [now EXCEPT !.state = next]
           rest == [poll EXCEPT !.at = "asking", !.queue = @ \ {id}]
<1>1. /\ id \in poll.queue /\ id \in Numbered /\ id \in DOMAIN record /\ now.pr # None
      /\ prs[now.pr].state \in Since(poll.seen) /\ poll.seen \in PullState
      /\ poll \in PollType /\ poll.queue \subseteq Numbered
    BY DEF Follow, Inv, Typed, PollFollows, Numbered
<1>2. /\ now.pr \in DOMAIN prs /\ prs[now.pr].fact = now.fact
      /\ prs[now.pr].state \in Since(now.state) /\ now \in RecordType
    BY <1>1 DEF Inv, NumberedAreTrue, RecordsOK
<1>3. next \in State /\ prs[now.pr].state \in Since(next)
    BY <1>1, <1>2, OutcomeFits DEF RecordType
<1>4. rec \in RecordType /\ rec.fact = now.fact /\ rec.pr = now.pr /\ rec.state = next
    BY <1>2, <1>3 DEF RecordType
<1>5. rest \in PollType /\ rest.queue \subseteq poll.queue /\ rest.at = "asking"
    BY <1>1 DEF PollType, PollAt
<1>6. UNCHANGED <<main, prs, call, made, cutOff>> /\ clone' \in {clone, main} /\ poll' \in {rest, IdlePoll}
    BY DEF Follow
<1>7. \/ changes /\ Upsert(id, rec)
      \/ record' = record
    BY DEF Follow
<1> HIDE DEF id, now, next, changes, rec, rest
<1>8. poll' \in PollType /\ poll'.at # "asked" /\ poll'.queue \subseteq poll.queue
    BY <1>5, <1>6, IdlePollIs
<1>9. CASE record' = record
    <2>1. PollFollows'
        BY <1>1, <1>8, <1>9 DEF PollFollows, Numbered
    <2>2. QED
        BY <1>6, <1>8, <1>9, <2>1, PollMoves
<1>10. CASE changes /\ Upsert(id, rec)
    <2>1. /\ DOMAIN record' = DOMAIN record /\ record'[id] = rec
          /\ \A i \in DOMAIN record \ {id} : record'[i] = record[i]
          /\ now.state \in Pending /\ now = record[id]
        <3>1. /\ DOMAIN record' = DOMAIN record \cup {id} /\ record'[id] = rec
              /\ \A i \in DOMAIN record \ {id} : record'[i] = record[i]
            BY <1>10, UpsertIs
        <3>2. now.state \in Pending /\ now = record[id]
            BY <1>10 DEF changes, now
        <3>3. DOMAIN record \cup {id} = DOMAIN record
            BY <1>1
        <3>4. QED
            BY <3>1, <3>2, <3>3
    <2>2. Numbered' = Numbered
        BY <1>1, <1>4, <2>1 DEF Numbered
    <2>3. Typed'
        BY <1>6, <1>8 DEF Inv, Typed
    <2>4. RecordsOK'
        BY <1>4, <1>6, <2>1 DEF Inv, RecordsOK
    <2>5. \A c \in Calls : Working(c)' <=> Working(c)
        BY <1>6 DEF Working
    <2>6. CallsOwn'
        <3>1. \A c \in Calls : Working(c) => call[c].id \in DOMAIN record \ {id}
            BY <1>1, OwnRecord
        <3>2. QED
            BY <1>6, <2>1, <2>5, <3>1 DEF Inv, CallsOwn
    <2>7. NumberedAreTrue'
        <3>1. \A i \in Numbered \ {id} : record'[i] = record[i]
            BY <2>1 DEF Numbered
        <3>2. QED
            BY <1>2, <1>3, <1>4, <1>6, <2>1, <2>2, <3>1 DEF Inv, NumberedAreTrue
    <2>8. MergedIsShared' /\ PollFollows'
        BY <1>1, <1>6, <1>8, <2>2 DEF Inv, MergedIsShared, PollFollows
    <2>9. OneEach'
        <3>1. \A i \in DOMAIN record : record'[i].fact = record[i].fact
                                       /\ (record'[i].state \in Pending => record[i].state \in Pending)
            BY <1>4, <2>1
        <3>2. QED
            BY <2>1, <3>1 DEF Inv, OneEach
    <2>10. UnnumberedIsUnderway'
        <3>1. \A i \in DOMAIN record : record'[i].pr = None => i # id
            BY <1>1, <1>4, <2>1
        <3>2. QED
            BY <1>6, <2>1, <2>5, <3>1 DEF Inv, UnnumberedIsUnderway
    <2>11. QED
        BY <2>3, <2>4, <2>6, <2>7, <2>8, <2>9, <2>10 DEF Inv
<1>11. QED
    BY <1>7, <1>9, <1>10

-----------------------------------------------------------------------------
(* The process, the reviewers and the other tools                          *)

\* Whoever was at work is cut off.
LEMMA CrashKeeps == ASSUME Inv, Crash PROVE Inv'
<1>1. /\ call' = [c \in Calls |-> IdleCall] /\ poll' = IdlePoll
      /\ UNCHANGED <<main, clone, record, prs, made>>
      /\ cutOff' = cutOff \cup {call[c].id : c \in {d \in Calls : Working(d)}}
    BY DEF Crash
<1>2. IdleCall \in CallType /\ IdleCall.at = "idle"
    BY DEF IdleCall, CallType, CallAt
<1>3. call' \in [Calls -> CallType] /\ \A c \in Calls : call'[c].at = "idle" /\ ~Working(c)'
    BY <1>1, <1>2 DEF Working
<1>4. Typed'
    BY <1>1, <1>3, IdlePollIs DEF Inv, Typed
<1>5. CallsOwn'
    BY <1>3 DEF CallsOwn
<1>6. PollFollows'
    BY <1>1, IdlePollIs DEF PollFollows
<1>7. RecordsOK' /\ MergedIsShared' /\ NumberedAreTrue' /\ OneEach'
    BY <1>1 DEF Inv, RecordsOK, MergedIsShared, NumberedAreTrue, Numbered, OneEach
<1>8. UnnumberedIsUnderway'
    BY <1>1 DEF Inv, UnnumberedIsUnderway
<1>9. QED
    BY <1>4, <1>5, <1>6, <1>7, <1>8 DEF Inv

LEMMA ReviewKeeps == ASSUME Inv, NEW n \in DOMAIN prs, Review(n) PROVE Inv'
<1> DEFINE f == prs[n].fact
<1>1. /\ n \in Nat /\ f \in Facts /\ prs[n].state \in {"OPEN", "APPROVED"}
      /\ UNCHANGED <<clone, record, call, poll, made, cutOff>>
      /\ prs \in Seq([fact : Facts, state : PullState]) /\ main \in [Facts -> PlaceOf]
    BY PullFields DEF Review, Inv, Typed
<1>2. PICK then \in {"APPROVED", "MERGED", "CLOSED"} :
          /\ prs' = [prs EXCEPT ![n].state = then]
          /\ IF then = "MERGED" THEN main' = [main EXCEPT ![f].place = "shared"] ELSE main' = main
    BY DEF Review
<1> DEFINE e == [prs[n] EXCEPT !.state = then]
<1>3. DOMAIN prs = 1..Len(prs) /\ Len(prs) \in Nat /\ prs[n] \in [fact : Facts, state : PullState]
    <2>1. DOMAIN prs = 1..Len(prs) /\ Len(prs) \in Nat
        BY <1>1
    <2>2. QED
        BY <1>1, <2>1, ElementOfSeq
<1>4. e \in [fact : Facts, state : PullState] /\ e.fact = f /\ e.state = then
    BY <1>3 DEF PullState
<1>5. prs' = [prs EXCEPT ![n] = e]
    BY <1>2
<1> HIDE DEF e
<1>6. /\ prs' \in Seq([fact : Facts, state : PullState]) /\ DOMAIN prs' = DOMAIN prs
      /\ prs'[n] = e /\ \A m \in DOMAIN prs \ {n} : prs'[m] = prs[m]
    BY <1>1, <1>3, <1>4, <1>5, ExceptSeq
<1>7. \A m \in DOMAIN prs : prs'[m].fact = prs[m].fact
    BY <1>4, <1>6
<1> HIDE DEF f
<1>8. /\ main' \in [Facts -> PlaceOf]
      /\ \A g \in Facts : main[g].place = "shared" => main'[g].place = "shared"
      /\ then = "MERGED" => main'[f].place = "shared"
    <2>1. CASE then = "MERGED"
        <3>1. main' = [main EXCEPT ![f].place = "shared"]
            BY <1>2, <2>1
        <3>2. QED
            BY <1>1, <3>1 DEF PlaceOf
    <2>2. CASE then # "MERGED"
        BY <1>1, <1>2, <2>2
    <2>3. QED
        BY <2>1, <2>2
<1>9. \A s \in State \cup PullState :
          prs[n].state \in Since(s) => then \in Since(s)
    BY <1>1, ReviewsMoveOn
<1>10. \A s \in State \cup PullState, m \in DOMAIN prs :
          prs[m].state \in Since(s) => prs'[m].state \in Since(s)
    BY <1>4, <1>6, <1>9
<1>11. \A c \in Calls : Working(c)' <=> Working(c)
    BY <1>1 DEF Working
<1>12. Typed'
    BY <1>1, <1>6, <1>8 DEF Inv, Typed
<1>13. RecordsOK' /\ OneEach'
    BY <1>1 DEF Inv, RecordsOK, OneEach
<1>14. CallsOwn'
    BY <1>1, <1>6, <1>7, <1>11 DEF Inv, CallsOwn
<1>15. MergedIsShared'
    <2>1. ASSUME NEW m \in DOMAIN prs, prs'[m].state = "MERGED" PROVE main'[prs'[m].fact].place = "shared"
        <3>1. prs[m].fact \in Facts /\ prs'[m].fact = prs[m].fact
            BY <1>7, PullFields
        <3>2. CASE m = n
            BY <1>4, <1>6, <1>8, <2>1, <3>2
        <3>3. CASE m # n
            BY <1>6, <1>8, <2>1, <3>1, <3>3 DEF Inv, MergedIsShared
        <3>4. QED
            BY <3>2, <3>3
    <2>2. QED
        BY <1>6, <2>1 DEF MergedIsShared
<1>16. NumberedAreTrue'
    <2>1. \A id \in Numbered : record[id].state \in State
        BY DEF Inv, RecordsOK, RecordType, Numbered
    <2>2. QED
        BY <1>1, <1>6, <1>7, <1>10, <2>1 DEF Inv, NumberedAreTrue, Numbered
<1>17. PollFollows'
    <2>1. poll.at = "asked" => poll.id \in Numbered /\ record[poll.id].pr \in DOMAIN prs
        BY DEF Inv, PollFollows, NumberedAreTrue
    <2>2. QED
        BY <1>1, <1>10, <2>1 DEF Inv, PollFollows, Numbered
<1>18. UnnumberedIsUnderway'
    BY <1>1, <1>11 DEF Inv, UnnumberedIsUnderway
<1>19. QED
    BY <1>12, <1>13, <1>14, <1>15, <1>16, <1>17, <1>18 DEF Inv

LEMMA InvalidateKeeps == ASSUME Inv, NEW f \in Facts, Invalidate(f) PROVE Inv'
<1>1. /\ main' = [main EXCEPT ![f].active = FALSE] /\ clone' = main'
      /\ UNCHANGED <<record, prs, call, poll, made, cutOff>>
      /\ main \in [Facts -> PlaceOf]
    BY DEF Invalidate, Inv, Typed
<1>2. main' \in [Facts -> PlaceOf] /\ \A g \in Facts : main'[g].place = main[g].place
    BY <1>1 DEF PlaceOf
<1>3. \A c \in Calls : Working(c)' <=> Working(c)
    BY <1>1 DEF Working
<1>4. Typed'
    BY <1>1, <1>2 DEF Inv, Typed
<1>5. MergedIsShared'
    <2>1. \A n \in DOMAIN prs : prs[n].fact \in Facts
        BY PullFields
    <2>2. QED
        BY <1>1, <1>2, <2>1 DEF Inv, MergedIsShared
<1>6. RecordsOK' /\ CallsOwn' /\ NumberedAreTrue' /\ PollFollows' /\ OneEach'
    BY <1>1, <1>3 DEF Inv, RecordsOK, CallsOwn, NumberedAreTrue, Numbered, PollFollows, OneEach
<1>7. UnnumberedIsUnderway'
    BY <1>1, <1>3 DEF Inv, UnnumberedIsUnderway
<1>8. QED
    BY <1>4, <1>5, <1>6, <1>7 DEF Inv

-----------------------------------------------------------------------------
(* The theorems                                                            *)

LEMMA InitHolds == ASSUME Init PROVE Inv
<1>1. IdleCall \in CallType /\ IdleCall.at = "idle"
    BY DEF IdleCall, CallType, CallAt
<1>2. \A c \in Calls : call[c].at = "idle" /\ ~Working(c)
    BY <1>1 DEF Init, Working
<1>3. [place |-> "domain", active |-> TRUE] \in PlaceOf
    BY DEF PlaceOf
<1>4. Typed
    BY <1>1, <1>3, IdlePollIs DEF Init, Typed
<1>5. DOMAIN record = {} /\ DOMAIN prs = {}
    BY DEF Init
<1>6. CallsOwn
    BY <1>2 DEF CallsOwn
<1>7. PollFollows
    BY IdlePollIs DEF Init, PollFollows
<1>8. RecordsOK /\ MergedIsShared /\ NumberedAreTrue /\ OneEach /\ UnnumberedIsUnderway
    BY <1>5 DEF RecordsOK, MergedIsShared, NumberedAreTrue, Numbered, OneEach, UnnumberedIsUnderway
<1>9. QED
    BY <1>4, <1>6, <1>7, <1>8 DEF Inv

LEMMA NextKeeps == ASSUME Inv, [Next]_vars PROVE Inv'
<1>1. ASSUME NEW c \in Calls, Step(c) PROVE Inv'
    BY <1>1, RequestKeeps, BuildBranchKeeps, CreatePRKeeps, RollBackKeeps, NumberKeeps DEF Step
<1>2. ASSUME NEW c \in Calls, (\E f \in Facts : Propose(c, f)) \/ Refuse(c) \/ LoseCreate(c) \/ Cancel(c)
      PROVE  Inv'
    BY <1>2, ProposeKeeps, RefuseKeeps, LoseCreateKeeps, CancelKeeps
<1>3. ASSUME Polling PROVE Inv'
    BY <1>3, PollRoundKeeps, AskKeeps, FollowKeeps, EndRoundKeeps DEF Polling
<1>4. CASE UNCHANGED vars
    <2>1. PollFollows'
        BY <1>4 DEF vars, Inv, PollFollows, Numbered
    <2>2. QED
        BY <1>4, <2>1, PollMoves DEF vars, Inv, Typed
<1>5. QED
    BY <1>1, <1>2, <1>3, <1>4, CrashKeeps, SyncKeeps, ReviewKeeps, InvalidateKeeps DEF Next

\* The inductive invariant: a call at work owns an unnumbered record, the poll follows
\* numbered ones, and what either remembers of a pull request may only be overtaken by it.
THEOREM Inductive == Spec => []Inv
<1>1. Init => Inv
    BY InitHolds
<1>2. Inv /\ [Next]_vars => Inv'
    BY NextKeeps
<1>3. QED
    BY <1>1, <1>2, PTL DEF Spec

\* However many calls propose a fact at once, and whatever fails, one record of it is pending:
\* nothing comes between the look for duplicates and the new record in tool_propose_promotion.
THEOREM OnePending == Spec => []OnePromotionPending
<1>1. ASSUME Inv PROVE OnePromotionPending
    <2>1. SUFFICES ASSUME NEW f \in Facts PROVE Cardinality(PendingOf(f)) <= 1
        BY DEF OnePromotionPending
    <2>2. \A i, j \in PendingOf(f) : i = j
        BY <1>1 DEF Inv, OneEach, PendingOf
    <2>3. CASE PendingOf(f) = {}
        BY <2>3, FS_EmptySet
    <2>4. CASE \E i : i \in PendingOf(f)
        <3>1. PICK i : PendingOf(f) = {i}
            BY <2>2, <2>4
        <3>2. QED
            BY <3>1, FS_Singleton
    <2>5. QED
        BY <2>3, <2>4
<1>2. QED
    BY <1>1, Inductive, PTL

\* A pending record that no poll will ever look at belongs to a call at work, or was left by
\* one that was cancelled or died with the process: every other failure takes it back.
THEOREM UnnumberedHaveACall == Spec => []UnnumberedIsUnderway
<1>1. Inv => UnnumberedIsUnderway
    BY DEF Inv
<1>2. QED
    BY <1>1, Inductive, PTL

\* What a record says of its fact's pull request is true, however long ago the poll asked.
THEOREM RecordsAreTrue == Spec => []OutcomeIsTrue
<1>1. ASSUME Inv PROVE OutcomeIsTrue
    <2>1. SUFFICES ASSUME NEW id \in DOMAIN record, record[id].pr # None
                   PROVE  LET pr == prs[record[id].pr] IN
                          /\ pr.fact = record[id].fact
                          /\ record[id].state = "applied" =>
                                pr.state = "MERGED" /\ main[pr.fact].place = "shared"
                          /\ record[id].state = "rejected" => pr.state = "CLOSED"
                          /\ record[id].state = "approved" => pr.state \in {"APPROVED", "MERGED", "CLOSED"}
        BY DEF OutcomeIsTrue
    <2>2. /\ record[id].pr \in DOMAIN prs
          /\ prs[record[id].pr].fact = record[id].fact
          /\ prs[record[id].pr].state \in Since(record[id].state)
        BY <1>1, <2>1 DEF Inv, NumberedAreTrue, Numbered
    <2>3. prs[record[id].pr].state = "MERGED" => main[prs[record[id].pr].fact].place = "shared"
        BY <1>1, <2>2 DEF Inv, MergedIsShared
    <2>4. QED
        BY <2>2, <2>3 DEF Since
<1>2. QED
    BY <1>1, Inductive, PTL
=============================================================================
