--------------------------- MODULE TelemetryProofs ---------------------------
(***************************************************************************)
(* The telemetry, proved part by part and then as TelemetryBackends puts   *)
(* it together:                                                            *)
(*   - the rules of TelemetryRules, and what lasts of what they found;     *)
(*   - the contract of Telemetry, and the listings made of what keeps it;  *)
(*   - the PostgreSQL store, whose concurrent transactions keep it;        *)
(*   - the JSONL log, which keeps it and schedules its redactions;         *)
(*   - the metrics, which count each record of a listing once;             *)
(*   - the whole, whose steps are steps of one part each.                  *)
(***************************************************************************)
EXTENDS TelemetryBackends, SequenceTheorems, FiniteSetTheorems, WellFoundedInduction, TLAPS

(***************************************************************************)
(* The rules of the telemetry only look backwards: what they found of the  *)
(* records there stays true when one more is added.                        *)
(***************************************************************************)

\* A record that names others still finds them when one more is accepted.
LEMMA NamedGrows ==
    ASSUME NEW R, NEW cmd, NEW kind, NEW id
    PROVE  /\ Named(R, kind, id) \subseteq Named(R \cup {cmd}, kind, id)
           /\ Named(R \cup {cmd}, kind, id) \subseteq Named(R, kind, id) \cup {cmd}
           /\ (cmd.kind # kind \/ cmd.id # id) => Named(R \cup {cmd}, kind, id) = Named(R, kind,
                      id)
BY DEF Named, Of

LEMMA TraceStays ==
    ASSUME NEW R, NEW cmd, NEW r, TraceKnown(R, r)
    PROVE  TraceKnown(R \cup {cmd}, r)
BY NamedGrows DEF TraceKnown

\* A search with the id of one that is there is not accepted, so the searches a
\* decision fits stay the only ones of their ids.
LEMMA SearchesStay ==
    ASSUME NEW R, NEW cmd, NEW r, SearchesFit(R, r), Fresh(R, cmd)
    PROVE  SearchesFit(R \cup {cmd}, r)
<1> SUFFICES ASSUME NEW id \in SearchIds(r)
             PROVE  /\ Named(R \cup {cmd}, "search", id) # {}
                    /\ \A s \in Named(R \cup {cmd}, "search", id) :
                          s.client = r.client /\ s.trace = r.trace /\ s.facts # {}
    BY DEF SearchesFit
<1>1. /\ Named(R, "search", id) # {}
      /\ \A s \in Named(R, "search", id) : s.client = r.client /\ s.trace = r.trace
                 /\ s.facts # {}
    BY DEF SearchesFit
<1>2. cmd.kind # "search" \/ cmd.id # id
    BY <1>1 DEF Fresh
<1>3. Named(R \cup {cmd}, "search", id) = Named(R, "search", id)
    BY <1>2, NamedGrows
<1>4. QED
    BY <1>1, <1>3, Zenon

LEMMA UsedStay ==
    ASSUME NEW R, NEW cmd, NEW r, UsedWereReturned(R, r)
    PROVE  UsedWereReturned(R \cup {cmd}, r)
BY DEF UsedWereReturned, Of

LEMMA ActionStays ==
    ASSUME NEW R, NEW cmd, NEW r
    PROVE  /\ IntentFits(R, r) => IntentFits(R \cup {cmd}, r)
           /\ DecisionFits(R, r) => DecisionFits(R \cup {cmd}, r)
           /\ Attempted(R, r) => Attempted(R \cup {cmd}, r)
<1>1. IntentFits(R, r) => IntentFits(R \cup {cmd}, r)
    BY NamedGrows DEF IntentFits
<1>2. DecisionFits(R, r) => DecisionFits(R \cup {cmd}, r)
    BY NamedGrows DEF DecisionFits
<1>3. Attempted(R, r) => Attempted(R \cup {cmd}, r)
    BY DEF Attempted, Of
<1>4. QED
    BY <1>1, <1>2, <1>3

-----------------------------------------------------------------------------
(***************************************************************************)
(* What the telemetry contract is worth: records accepted one at a time,   *)
(* each fitting those already there, form a sound whole; and a listing of  *)
(* them is closed, whatever is committed between the statements that make  *)
(* it up, since searches and decisions are selected before the intents     *)
(* they rest on.                                                           *)
(***************************************************************************)

\* One more record that fits leaves the whole sound.
LEMMA SoundStays == Sound /\ ContractNext => Sound'
<1> SUFFICES ASSUME Sound, NEW cmd \in Commands, Accept(cmd)
             PROVE  Sound'
    BY DEF ContractNext, Sound, IdsUnique, ResolvedOnce, DecisionsRest, ActionsRest
<1>1. accepted' = accepted \cup {cmd} /\ Fresh(accepted, cmd)
    BY DEF Accept, Acceptable
<1>2. IdsUnique'
    BY <1>1 DEF Sound, IdsUnique, Fresh, Named, Of
<1>3. ResolvedOnce'
    <2>1. SUFFICES ASSUME NEW d \in Of(accepted, "decision"), cmd.kind = "decision"
                   PROVE  SearchIds(d) \cap SearchIds(cmd) = {}
        BY <1>1 DEF Sound, ResolvedOnce, Of
    <2>2. Unresolved(accepted, cmd)
        BY <2>1 DEF Accept, Acceptable
    <2>3. QED
        BY <2>1, <2>2 DEF Unresolved, Resolved
<1>4. DecisionsRest'
    <2> SUFFICES ASSUME NEW d \in Of(accepted', "decision")
                 PROVE  /\ TraceKnown(accepted', d)
                        /\ SearchesFit(accepted', d)
                        /\ UsedWereReturned(accepted', d)
        BY DEF DecisionsRest
    <2>1. TraceKnown(accepted, d) /\ SearchesFit(accepted, d) /\ UsedWereReturned(accepted, d)
        BY <1>1 DEF Sound, DecisionsRest, Accept, Acceptable, Of
    <2>2. QED
        BY <1>1, <2>1, TraceStays, SearchesStay, UsedStay
<1>5. ActionsRest'
    <2> SUFFICES ASSUME NEW a \in Of(accepted', "action")
                 PROVE  /\ IntentFits(accepted', a)
                        /\ DecisionFits(accepted', a)
                        /\ Attempted(accepted', a)
        BY DEF ActionsRest
    <2>1. IntentFits(accepted, a) /\ DecisionFits(accepted, a) /\ Attempted(accepted, a)
        BY <1>1 DEF Sound, ActionsRest, Accept, Acceptable, Of
    <2>2. QED
        BY <1>1, <2>1, ActionStays
<1>6. QED
    BY <1>2, <1>3, <1>4, <1>5 DEF Sound

\* Whatever commands there are, what a backend of the contract has accepted is
\* sound: ids are unique, no search is resolved twice, a decision rests on
\* searches of its own client and trace and used what they returned, and an action
\* rests on its intent, its decision and its attempt (telemetry.py, record_*).
THEOREM ContractIsSound == ContractSpec => []Sound
<1>1. ContractInit => Sound
    BY DEF ContractInit, Sound, IdsUnique, ResolvedOnce, DecisionsRest, ActionsRest, Of
<1>2. Sound /\ [ContractNext]_accepted => Sound'
    BY SoundStays DEF Sound, IdsUnique, ResolvedOnce, DecisionsRest, ActionsRest
<1>3. QED
    BY <1>1, <1>2, PTL DEF ContractSpec

-----------------------------------------------------------------------------
(* Listings                                                                *)

\* What list_usage finds at any moment: sound records, each search with its intent.
SearchesRest == \A s \in Of(accepted, "search") : TraceKnown(accepted, s)
ListableInv == Sound /\ SearchesRest

\* The listing so far holds accepted records (and hand-edited ones); the third
\* statement closes it towards the intents, the fourth towards the attempts.
ListingInv ==
    /\ statements \in 0..4
    /\ listed \ Edited \subseteq accepted
    /\ statements >= 3 => \A r \in listed \ Edited :
          r.kind \in {"search", "decision"} => TraceKnown(listed, r)
    /\ statements = 4 => \A r \in listed \ Edited :
          r.kind = "action" => Attempted(listed, r)

ReadingInv == ListableInv /\ ListingInv

LEMMA ListableStays == ListableInv /\ [ContractNext]_accepted => ListableInv'
<1> SUFFICES ASSUME ListableInv, [ContractNext]_accepted PROVE ListableInv'
    OBVIOUS
<1>1. Sound'
    <2>1. CASE UNCHANGED accepted
        BY <2>1 DEF ListableInv, Sound, IdsUnique, ResolvedOnce, DecisionsRest, ActionsRest
    <2>2. CASE ContractNext
        BY <2>2, SoundStays DEF ListableInv
    <2>3. QED
        BY <2>1, <2>2
<1>2. SearchesRest'
    <2>1. CASE UNCHANGED accepted
        BY <2>1 DEF ListableInv, SearchesRest
    <2>2. ASSUME NEW cmd \in Commands, Accept(cmd) PROVE SearchesRest'
        <3>1. accepted' = accepted \cup {cmd}
            BY <2>2 DEF Accept
        <3>2. SUFFICES ASSUME NEW s \in Of(accepted', "search") PROVE TraceKnown(accepted', s)
            BY DEF SearchesRest
        <3>3. TraceKnown(accepted, s)
            BY <2>2, <3>1 DEF ListableInv, SearchesRest, Accept, Acceptable, Of
        <3>4. QED
            BY <3>1, <3>3, TraceStays
    <2>3. QED
        BY <2>1, <2>2 DEF ContractNext
<1>3. QED
    BY <1>1, <1>2 DEF ListableInv

\* A listing that holds all intents there are closes every accepted record.
LEMMA IntentsClose ==
    ASSUME NEW r, NEW L, Of(accepted, "intent") \subseteq L, TraceKnown(accepted, r)
    PROVE  TraceKnown(L, r)
BY DEF TraceKnown, Named, Of

LEMMA TablesAre == Len(Tables) = 4 /\ Tables[3] = "intent" /\ Tables[4] = "action"
BY DEF Tables

LEMMA SelectCloses == ListableInv /\ ListingInv /\ Select => ListingInv'
<1> SUFFICES ASSUME ListableInv, ListingInv, Select PROVE ListingInv'
    OBVIOUS
<1>1. /\ statements \in 0..3 /\ statements' = statements + 1 /\ accepted' = accepted
      /\ listed' = listed \cup Of(accepted, Tables[statements + 1])
    BY TablesAre DEF Select, Complete, ListingInv
<1>2. statements' \in 0..4
    BY <1>1
<1>3. listed' \ Edited \subseteq accepted'
    BY <1>1 DEF ListingInv, Of
<1>4. ASSUME statements' >= 3, NEW r \in listed' \ Edited, r.kind \in {"search", "decision"}
      PROVE  TraceKnown(listed', r)
    <2>1. CASE statements = 2
        <3>1. Of(accepted, "intent") \subseteq listed'
            BY <1>1, <2>1, TablesAre
        <3>2. TraceKnown(accepted, r)
            BY <1>1, <1>3, <1>4 DEF ListableInv, Sound, DecisionsRest, SearchesRest, Of
        <3>3. QED
            BY <3>1, <3>2, IntentsClose
    <2>2. CASE statements = 3
        <3>1. r \in listed
            BY <1>1, <1>4, <2>2, TablesAre DEF Of
        <3>2. TraceKnown(listed, r)
            BY <1>4, <2>2, <3>1 DEF ListingInv
        <3>3. QED
            BY <1>1, <3>2 DEF TraceKnown, Named, Of
    <2>3. QED
        BY <1>1, <1>4, <2>1, <2>2
<1>5. ASSUME statements' = 4, NEW r \in listed' \ Edited, r.kind = "action"
      PROVE  Attempted(listed', r)
    <2>1. Attempted(accepted, r)
        BY <1>1, <1>3, <1>5 DEF ListableInv, Sound, ActionsRest, Of
    <2>2. Of(accepted, "action") \subseteq Of(listed', "action")
        BY <1>1, <1>5, TablesAre DEF Of
    <2>3. QED
        BY <2>1, <2>2 DEF Attempted
<1>6. QED
    BY <1>2, <1>3, <1>4, <1>5 DEF ListingInv

\* A complete listing shows no search or decision without its intent and no
\* completion without its attempt (postgres/telemetry.py list_usage), for any
\* commands, any number of callers and any hand-edited records beside them.
THEOREM ListingsAreClosed == ReadingSpec => []ListedIsClosed
<1>1. ReadingInit => ReadingInv
    BY DEF ReadingInit, ContractInit, ReadingInv, ListableInv, ListingInv, SearchesRest, Sound,
           IdsUnique,
           ResolvedOnce, DecisionsRest, ActionsRest, Of
<1>2. ReadingInv /\ [ReadingNext]_readingVars => ReadingInv'
    <2> SUFFICES ASSUME ReadingInv, [ReadingNext]_readingVars PROVE ReadingInv'
        OBVIOUS
    <2>1. [ContractNext]_accepted
        BY DEF ReadingNext, Select, ListAgain, readingVars
    <2>2. ListableInv'
        BY <2>1, ListableStays DEF ReadingInv
    <2>3. CASE ContractNext /\ UNCHANGED <<listed, statements>>
        <3>1. accepted \subseteq accepted'
            BY <2>3 DEF ContractNext, Accept
        <3>2. QED
            BY <2>2, <2>3, <3>1 DEF ReadingInv, ListingInv
    <2>4. CASE Select
        BY <2>2, <2>4, SelectCloses DEF ReadingInv
    <2>5. CASE ListAgain
        BY <2>2, <2>5 DEF ListAgain, ReadingInv, ListingInv
    <2>6. CASE UNCHANGED readingVars
        BY <2>2, <2>6 DEF readingVars, ReadingInv, ListingInv
    <2>7. QED
        BY <2>3, <2>4, <2>5, <2>6 DEF ReadingNext
<1>3. ReadingInv => ListedIsClosed
    <2> SUFFICES ASSUME ReadingInv, Complete, NEW r \in listed \ Edited
                 PROVE  /\ r.kind \in {"search", "decision"} => TraceKnown(listed, r)
                        /\ r.kind = "action" => Attempted(listed, r)
        BY DEF ListedIsClosed
    <2>1. statements = 4
        BY TablesAre DEF Complete
    <2>2. QED
        BY <2>1 DEF ReadingInv, ListingInv
<1>4. QED
    BY <1>1, <1>2, <1>3, PTL DEF ReadingSpec

-----------------------------------------------------------------------------
(***************************************************************************)
(* The PostgreSQL telemetry keeps the contract of Telemetry, for any       *)
(* commands, any number of callers and any bounds.                         *)
(*                                                                         *)
(* A call's checks are statements of READ COMMITTED, made at other moments *)
(* than its commit.  The argument has two halves.  What a check found of   *)
(* the records a call names lasts, because records are only added and no   *)
(* two have one id (Lasting).  What it found missing, its own id and a     *)
(* decision on its searches, need not last; but a call commits holding the *)
(* primary keys of its rows, which no committed row has and no other call  *)
(* holds (KeysHeld).                                                       *)
(***************************************************************************)

\* What a passed check found in the records R, and nobody can undo.
Lasting(R, check, cmd) ==
    /\ check = "trace" => TraceKnown(R, cmd)
    /\ check = "searches" => SearchesFit(R, cmd)
    /\ check = "links" => UsedWereReturned(R, cmd)
    /\ check = "intent" => IntentFits(R, cmd)
    /\ check = "decision" => DecisionFits(R, cmd)
    /\ check = "attempted" => Attempted(R, cmd)

State == {"done", "checks", "inserts", "lookup"}

CallOK ==
    /\ call \in [Callers -> [state : State, cmd : Commands \cup {None}, passed : Nat, held : Nat,
                             answer : Answers \cup {None}]]
    /\ \A c \in Callers :
          /\ call[c].state # "done" => call[c].cmd \in Commands /\ Valid(call[c].cmd)
          /\ call[c].state # "inserts" => call[c].held = 0
          /\ call[c].state = "inserts" => call[c].held <= Len(KeysOf(call[c].cmd))
          /\ call[c].state = "checks" => call[c].passed <= Len(Checks(call[c].cmd))

ChecksLast ==
    \A c \in Callers :
        /\ call[c].state = "checks" =>
              \A i \in 1..call[c].passed : Lasting(stored, Checks(call[c].cmd)[i], call[c].cmd)
        /\ call[c].state = "inserts" =>
              \A i \in 1..Len(Checks(call[c].cmd)) :
                 Lasting(stored, Checks(call[c].cmd)[i], call[c].cmd)

\* The keys of uncommitted rows are no other call's and no committed row's.
KeysHeld ==
    /\ \A c \in Callers : Held(c) \cap Taken = {}
    /\ \A c, d \in Callers : c # d => Held(c) \cap Held(d) = {}

StoreInv == CallOK /\ ChecksLast /\ KeysHeld

-----------------------------------------------------------------------------
(* Keys and checks                                                         *)

AllKeys(cmd) ==
    {<<cmd.kind, cmd.id>>} \cup
    (IF cmd.kind = "decision" THEN {<<"link", s>> : s \in SearchIds(cmd)} ELSE {})

LEMMA LinkKeysAre ==
    ASSUME NEW cmd \in Commands
    PROVE  /\ LinkKeys(cmd) \in Seq({<<"link", s>> : s \in SearchIds(cmd)})
           /\ \A k \in AllKeys(cmd) : k = <<cmd.kind, cmd.id>> \/
                  \E i \in 1..Len(LinkKeys(cmd)) : LinkKeys(cmd)[i] = k
<1>1. CASE cmd.kind # "decision"
    BY <1>1 DEF LinkKeys, AllKeys
<1>2. CASE cmd.kind = "decision"
    <2>1. cmd.searches \in Seq(SearchIds(cmd))
        BY <1>2, CommandsAssumption
    <2>2. /\ DOMAIN cmd.searches = 1..Len(cmd.searches) /\ Len(cmd.searches) \in Nat
          /\ LinkKeys(cmd) = [i \in 1..Len(cmd.searches) |-> <<"link", cmd.searches[i]>>]
        BY <1>2, <2>1 DEF LinkKeys
    <2>3. \A i \in 1..Len(cmd.searches) : cmd.searches[i] \in SearchIds(cmd)
        BY <2>2 DEF SearchIds
    <2>4. LinkKeys(cmd) \in Seq({<<"link", s>> : s \in SearchIds(cmd)})
          /\ Len(LinkKeys(cmd)) = Len(cmd.searches)
        BY <2>2, <2>3
    <2>5. ASSUME NEW s \in SearchIds(cmd)
          PROVE  \E i \in 1..Len(LinkKeys(cmd)) : LinkKeys(cmd)[i] = <<"link", s>>
        BY <2>2, <2>4 DEF SearchIds
    <2>6. QED
        BY <1>2, <2>4, <2>5 DEF AllKeys
<1>3. QED
    BY <1>1, <1>2

LEMMA ElementsOfSeq == ASSUME NEW S, NEW s \in Seq(S) PROVE \A i \in 1..Len(s) : s[i] \in S
OBVIOUS

LEMMA KeysAre ==
    ASSUME NEW cmd \in Commands
    PROVE  /\ Len(KeysOf(cmd)) \in Nat /\ Len(KeysOf(cmd)) >= 1
           /\ {KeysOf(cmd)[i] : i \in 1..Len(KeysOf(cmd))} = AllKeys(cmd)
<1> DEFINE first == <<cmd.kind, cmd.id>>
           links == LinkKeys(cmd)
<1>1. links \in Seq(AllKeys(cmd)) /\ <<first>> \in Seq(AllKeys(cmd))
    <2>1. first \in AllKeys(cmd)
        BY DEF AllKeys
    <2>2. CASE cmd.kind = "decision"
        <3> DEFINE K == {<<"link", s>> : s \in SearchIds(cmd)}
        <3>1. links \in Seq(K)
            BY LinkKeysAre
        <3>2. K \subseteq AllKeys(cmd)
            BY <2>2 DEF AllKeys
        <3> HIDE DEF K, links
        <3>3. links \in Seq(AllKeys(cmd))
            BY <3>1, <3>2
        <3>4. QED
            BY <2>1, <3>3
    <2>3. CASE cmd.kind # "decision"
        BY <2>1, <2>3 DEF LinkKeys
    <2>4. QED
        BY <2>2, <2>3
<1>2. /\ KeysOf(cmd) = <<first>> \o links
      /\ KeysOf(cmd) \in Seq(AllKeys(cmd))
      /\ Len(KeysOf(cmd)) = 1 + Len(links)
      /\ Len(links) \in Nat
    BY <1>1 DEF KeysOf
<1>3. /\ KeysOf(cmd)[1] = first
      /\ \A i \in 1..Len(links) : KeysOf(cmd)[i + 1] = links[i]
    BY <1>1, <1>2
<1>4. AllKeys(cmd) \subseteq {KeysOf(cmd)[i] : i \in 1..Len(KeysOf(cmd))}
    <2> SUFFICES ASSUME NEW k \in AllKeys(cmd)
                 PROVE  \E i \in 1..Len(KeysOf(cmd)) : KeysOf(cmd)[i] = k
        OBVIOUS
    <2>1. CASE k = first
        BY <1>2, <1>3, <2>1
    <2>2. CASE \E i \in 1..Len(links) : links[i] = k
        <3>1. PICK i \in 1..Len(links) : links[i] = k
            BY <2>2
        <3>2. i + 1 \in 1..Len(KeysOf(cmd))
            BY <1>2, <3>1
        <3>3. QED
            BY <1>3, <3>1, <3>2
    <2>3. QED
        BY <2>1, <2>2, LinkKeysAre
<1>5. \A i \in 1..Len(KeysOf(cmd)) : KeysOf(cmd)[i] \in AllKeys(cmd)
    <2> HIDE DEF first, links
    <2>1. KeysOf(cmd) \in Seq(AllKeys(cmd))
        BY <1>2
    <2>2. QED
        BY <2>1, ElementsOfSeq
<1>6. Len(KeysOf(cmd)) \in Nat /\ Len(KeysOf(cmd)) >= 1
    BY <1>2
<1>7. QED
    BY <1>4, <1>5, <1>6

\* The checks of a call contain those the contract asks of its kind, and only a
\* decision's looks at links.
LEMMA ChecksCover ==
    ASSUME NEW cmd \in Commands
    PROVE  /\ Len(Checks(cmd)) \in Nat
           /\ \A i \in 1..Len(Checks(cmd)) :
                 /\ Checks(cmd)[i] \in {"replay", "trace", "searches", "links", "intent",
                                        "decision", "attempted"}
                 /\ Checks(cmd)[i] = "links" => cmd.kind = "decision"
           /\ cmd.kind \in {"search", "decision"} /\ cmd.trace # None =>
                 \E i \in 1..Len(Checks(cmd)) : Checks(cmd)[i] = "trace"
           /\ cmd.kind = "decision" =>
                 /\ \E i \in 1..Len(Checks(cmd)) : Checks(cmd)[i] = "searches"
                 /\ \E i \in 1..Len(Checks(cmd)) : Checks(cmd)[i] = "links"
           /\ cmd.kind = "action" =>
                 /\ \E i \in 1..Len(Checks(cmd)) : Checks(cmd)[i] = "intent"
                 /\ cmd.decision # None
                            => \E i \in 1..Len(Checks(cmd)) : Checks(cmd)[i] = "decision"
                 /\ cmd.phase = "completed"
                            => \E i \in 1..Len(Checks(cmd)) : Checks(cmd)[i] = "attempted"
<1>1. CASE cmd.kind = "search"
    BY <1>1 DEF Checks, SearchChecks
<1>2. CASE cmd.kind = "intent"
    BY <1>2 DEF Checks, IntentChecks
<1>3. CASE cmd.kind = "decision"
    <2>1. CASE cmd.trace = None
        <3> DEFINE s == <<"replay", "searches", "links">>
        <3>1. Checks(cmd) = s
            BY <1>3, <2>1 DEF Checks, DecisionChecks
        <3>2. Len(s) = 3 /\ s[1] = "replay" /\ s[2] = "searches" /\ s[3] = "links"
            OBVIOUS
        <3>3. QED
            BY <1>3, <2>1, <3>1, <3>2
    <2>2. CASE cmd.trace # None
        <3> DEFINE s == <<"replay", "searches", "trace", "links">>
        <3>1. Checks(cmd) = s
            BY <1>3, <2>2 DEF Checks, DecisionChecks
        <3>2. Len(s) = 4 /\ s[1] = "replay" /\ s[2] = "searches" /\ s[3] = "trace"
                   /\ s[4] = "links"
            OBVIOUS
        <3>3. QED
            BY <1>3, <2>2, <3>1, <3>2
    <2>3. QED
        BY <2>1, <2>2
<1>4. CASE cmd.kind = "action"
    <2>1. CASE cmd.decision = None /\ cmd.phase # "completed"
        BY <1>4, <2>1 DEF Checks, ActionChecks
    <2>2. CASE cmd.decision = None /\ cmd.phase = "completed"
        <3> DEFINE s == <<"replay", "intent", "attempted">>
        <3>1. Checks(cmd) = s
            BY <1>4, <2>2 DEF Checks, ActionChecks
        <3>2. Len(s) = 3 /\ s[1] = "replay" /\ s[2] = "intent" /\ s[3] = "attempted"
            OBVIOUS
        <3>3. QED
            BY <1>4, <2>2, <3>1, <3>2
    <2>3. CASE cmd.decision # None /\ cmd.phase # "completed"
        <3> DEFINE s == <<"replay", "intent", "decision">>
        <3>1. Checks(cmd) = s
            BY <1>4, <2>3 DEF Checks, ActionChecks
        <3>2. Len(s) = 3 /\ s[1] = "replay" /\ s[2] = "intent" /\ s[3] = "decision"
            OBVIOUS
        <3>3. QED
            BY <1>4, <2>3, <3>1, <3>2
    <2>4. CASE cmd.decision # None /\ cmd.phase = "completed"
        <3> DEFINE s == <<"replay", "intent", "decision", "attempted">>
        <3>1. Checks(cmd) = s
            BY <1>4, <2>4 DEF Checks, ActionChecks
        <3>2. Len(s) = 4 /\ s[1] = "replay" /\ s[2] = "intent" /\ s[3] = "decision"
                   /\ s[4] = "attempted"
            OBVIOUS
        <3>3. QED
            BY <1>4, <2>4, <3>1, <3>2
    <2>5. QED
        BY <2>1, <2>2, <2>3, <2>4
<1>5. QED
    BY <1>1, <1>2, <1>3, <1>4, CommandsAssumption

-----------------------------------------------------------------------------
(* The commit                                                              *)

LEMMA LastingStays ==
    ASSUME NEW R, NEW new, NEW check, NEW cmd, Lasting(R, check, cmd), Fresh(R, new)
    PROVE  Lasting(R \cup {new}, check, cmd)
<1>1. check = "trace" => TraceKnown(R \cup {new}, cmd)
    BY TraceStays DEF Lasting
<1>2. check = "searches" => SearchesFit(R \cup {new}, cmd)
    BY SearchesStay DEF Lasting
<1>3. check = "links" => UsedWereReturned(R \cup {new}, cmd)
    BY UsedStay DEF Lasting
<1>4. /\ check = "intent" => IntentFits(R \cup {new}, cmd)
      /\ check = "decision" => DecisionFits(R \cup {new}, cmd)
      /\ check = "attempted" => Attempted(R \cup {new}, cmd)
    BY ActionStays DEF Lasting
<1>5. QED
    BY <1>1, <1>2, <1>3, <1>4 DEF Lasting

\* A call that goes on has found what its check looks for.
LEMMA PassedLasts ==
    ASSUME NEW check, NEW cmd, Verdict(check, cmd) = None,
           check \in {"replay", "trace", "searches", "links", "intent", "decision", "attempted"}
    PROVE  Lasting(stored, check, cmd)
<1>1. None # "refused" /\ None # "conflict"
    BY NoneAssumption DEF Answers
<1>2. CASE check = "links"
    BY <1>1, <1>2 DEF Verdict, LinksVerdict, RefusedUnless, Lasting
<1>3. CASE check # "links"
    BY <1>1, <1>3 DEF Verdict, RefusedUnless, Lasting
<1>4. QED
    BY <1>2, <1>3

\* A call that has inserted all its rows holds all its keys.
LEMMA HoldsAll ==
    ASSUME CallOK, NEW c \in Callers, call[c].state = "inserts", ~Inserting(c)
    PROVE  call[c].cmd \in Commands /\ Held(c) = AllKeys(call[c].cmd)
<1>1. call[c].cmd \in Commands
    BY DEF CallOK
<1>2. call[c].held \in Nat /\ call[c].held <= Len(KeysOf(call[c].cmd))
    BY DEF CallOK
<1>3. call[c].held = Len(KeysOf(call[c].cmd))
    BY <1>1, <1>2, KeysAre DEF Inserting
<1>4. QED
    BY <1>1, <1>3, KeysAre DEF Held

\* Keys nobody has committed are an id nobody has used and searches nobody has resolved.
LEMMA KeysFree ==
    ASSUME NEW cmd \in Commands, AllKeys(cmd) \cap Taken = {}
    PROVE  Fresh(stored, cmd) /\ (cmd.kind = "decision" => Unresolved(stored, cmd))
<1>1. Fresh(stored, cmd)
    <2>1. <<cmd.kind, cmd.id>> \notin Taken
        BY DEF AllKeys
    <2>2. \A r \in stored : <<r.kind, r.id>> # <<cmd.kind, cmd.id>>
        BY <2>1 DEF Taken
    <2>3. QED
        BY <2>2 DEF Fresh, Named, Of
<1>2. ASSUME cmd.kind = "decision", NEW s \in SearchIds(cmd) PROVE s \notin Resolved(stored)
    BY <1>2 DEF AllKeys, Taken
<1>3. QED
    BY <1>1, <1>2 DEF Unresolved

\* A call that may commit has a record that fits.
LEMMA CommitFits ==
    ASSUME StoreInv, NEW c \in Callers, call[c].state = "inserts", ~Inserting(c)
    PROVE  Acceptable(stored, call[c].cmd)
<1> DEFINE cmd == call[c].cmd
<1>1. cmd \in Commands /\ Valid(cmd)
    BY DEF StoreInv, CallOK
<1>2. Fresh(stored, cmd) /\ (cmd.kind = "decision" => Unresolved(stored, cmd))
    BY <1>1, HoldsAll, KeysFree DEF StoreInv, KeysHeld
<1>3. \A i \in 1..Len(Checks(cmd)) : Lasting(stored, Checks(cmd)[i], cmd)
    BY DEF StoreInv, ChecksLast
<1> HIDE DEF cmd
<1>4. cmd.kind \in {"search", "decision"} => TraceKnown(stored, cmd)
    BY <1>1, <1>3, ChecksCover DEF Lasting, TraceKnown
<1>5. cmd.kind = "decision" => SearchesFit(stored, cmd) /\ UsedWereReturned(stored, cmd)
    BY <1>1, <1>3, ChecksCover DEF Lasting
<1>6. cmd.kind = "action" =>
          IntentFits(stored, cmd) /\ DecisionFits(stored, cmd) /\ Attempted(stored, cmd)
    <2> SUFFICES ASSUME cmd.kind = "action"
                 PROVE  IntentFits(stored, cmd) /\ DecisionFits(stored, cmd)
                            /\ Attempted(stored, cmd)
        OBVIOUS
    <2>1. IntentFits(stored, cmd)
        BY <1>1, <1>3, ChecksCover DEF Lasting
    <2>2. DecisionFits(stored, cmd)
        BY <1>1, <1>3, ChecksCover DEF Lasting, DecisionFits
    <2>3. Attempted(stored, cmd)
        BY <1>1, <1>3, ChecksCover DEF Lasting, Attempted
    <2>4. QED
        BY <2>1, <2>2, <2>3
<1>7. Acceptable(stored, cmd)
    BY <1>1, <1>2, <1>4, <1>5, <1>6 DEF Acceptable
<1>8. QED
    BY <1>7 DEF cmd

LEMMA TakenGrows ==
    ASSUME NEW cmd, stored' = stored \cup {cmd}
    PROVE  Taken' = Taken \cup AllKeys(cmd)
<1>1. Resolved(stored') = Resolved(stored) \cup (IF cmd.kind = "decision" THEN SearchIds(cmd) ELSE {}
           )
    BY DEF Resolved, Of
<1>2. QED
    BY <1>1 DEF Taken, AllKeys

-----------------------------------------------------------------------------
(* The invariant                                                           *)

\* A call that moves on to a well formed record leaves the others as they are.
Form == [state : State, cmd : Commands \cup {None}, passed : Nat, held : Nat,
         answer : Answers \cup {None}]
Fits(e) == /\ e.state # "done" => e.cmd \in Commands /\ Valid(e.cmd)
           /\ e.state # "inserts" => e.held = 0
           /\ e.state = "inserts" => e.held <= Len(KeysOf(e.cmd))
           /\ e.state = "checks" => e.passed <= Len(Checks(e.cmd))

LEMMA MovesOn ==
    ASSUME CallOK, NEW c \in Callers, NEW e \in Form, Fits(e), call' = [call EXCEPT ![c] = e]
    PROVE  CallOK' /\ call'[c] = e /\ \A d \in Callers \ {c} : call'[d] = call[d]
<1>1. call \in [Callers -> Form] /\ \A d \in Callers : Fits(call[d])
    BY DEF CallOK, Form, Fits
<1>2. /\ call' \in [Callers -> Form] /\ call'[c] = e
      /\ \A d \in Callers \ {c} : call'[d] = call[d]
    BY <1>1
<1>3. \A d \in Callers : Fits(call'[d])
    BY <1>1, <1>2
<1>4. CallOK'
    BY <1>2, <1>3 DEF CallOK, Form, Fits
<1>5. QED
    BY <1>2, <1>4

\* A call that ends is well formed.
LEMMA EndedOK ==
    ASSUME CallOK, NEW c \in Callers, NEW answer \in Answers, call' = Ended(c, answer)
    PROVE  /\ CallOK'
           /\ call'[c].state = "done" /\ call'[c].held = 0
           /\ call'[c].cmd = call[c].cmd /\ call'[c].answer = answer
           /\ \A d \in Callers \ {c} : call'[d] = call[d]
<1> DEFINE ended == [call[c] EXCEPT !.state = "done", !.held = 0, !.answer = answer]
<1>1. call[c] \in Form /\ call \in [Callers -> Form]
    BY DEF CallOK, Form
<1>2. call' = [call EXCEPT ![c] = ended]
    BY <1>1 DEF Ended
<1>3. /\ ended \in Form /\ ended.state = "done" /\ ended.held = 0
      /\ ended.cmd = call[c].cmd /\ ended.answer = answer
    BY <1>1 DEF State, Form
<1>4. Fits(ended)
    BY <1>3 DEF Fits
<1> HIDE DEF ended
<1>5. QED
    BY <1>2, <1>3, <1>4, MovesOn

\* A step that writes nothing: it moves one call c on, which then holds no more than
\* it did, and whose passed checks last.
LEMMA QuietStep ==
    ASSUME StoreInv, NEW c \in Callers, stored' = stored, CallOK',
           \A d \in Callers \ {c} : call'[d] = call[d],
           Held(c)' \subseteq Held(c),
           call'[c].state = "checks" =>
               \A i \in 1..call'[c].passed : Lasting(stored, Checks(call'[c].cmd)[i],
                          call'[c].cmd),
           call'[c].state = "inserts" =>
               \A i \in 1..Len(Checks(call'[c].cmd)) :
                  Lasting(stored, Checks(call'[c].cmd)[i], call'[c].cmd)
    PROVE  StoreInv'
<1>1. \A d \in Callers : Held(d)' \subseteq Held(d)
    BY DEF Held
<1>2. Taken' = Taken
    BY DEF Taken
<1>3. KeysHeld'
    BY <1>1, <1>2 DEF StoreInv, KeysHeld
<1>4. ChecksLast'
    <2> SUFFICES ASSUME NEW d \in Callers
                 PROVE  /\ call'[d].state = "checks" =>
                              \A i \in 1..call'[d].passed :
                                 Lasting(stored', Checks(call'[d].cmd)[i], call'[d].cmd)
                        /\ call'[d].state = "inserts" =>
                              \A i \in 1..Len(Checks(call'[d].cmd)) :
                                 Lasting(stored', Checks(call'[d].cmd)[i], call'[d].cmd)
        BY DEF ChecksLast
    <2>1. CASE d = c
        BY <2>1
    <2>2. CASE d # c
        BY <2>2 DEF StoreInv, ChecksLast
    <2>3. QED
        BY <2>1, <2>2
<1>5. QED
    BY <1>3, <1>4 DEF StoreInv

\* A call that ends without having committed.
LEMMA EndStep ==
    ASSUME StoreInv, NEW c \in Callers, NEW answer \in Answers,
           call' = Ended(c, answer), stored' = stored
    PROVE  StoreInv'
<1>1. /\ call'[c].state = "done" /\ call'[c].held = 0
      /\ \A d \in Callers \ {c} : call'[d] = call[d]
    BY DEF Ended, StoreInv, CallOK
<1>2. CallOK'
    BY EndedOK DEF StoreInv
<1>3. Held(c)' \subseteq Held(c)
    BY <1>1 DEF Held
<1>4. QED
    BY <1>1, <1>2, <1>3, QuietStep

\* A call that commits and ends: its keys become the committed ones.
LEMMA CommitStep ==
    ASSUME StoreInv, NEW c \in Callers, NEW answer \in Answers,
           call[c].state = "inserts", ~Inserting(c),
           call' = Ended(c, answer), stored' = stored \cup {call[c].cmd}
    PROVE  StoreInv'
<1> DEFINE cmd == call[c].cmd
<1>1. /\ call'[c].state = "done" /\ call'[c].held = 0
      /\ \A d \in Callers \ {c} : call'[d] = call[d]
    BY DEF Ended, StoreInv, CallOK
<1>2. CallOK'
    BY EndedOK DEF StoreInv
<1>3. Held(c) = AllKeys(cmd) /\ Taken' = Taken \cup AllKeys(cmd)
    BY HoldsAll, TakenGrows DEF StoreInv
<1>4. Held(c)' = {} /\ \A d \in Callers \ {c} : Held(d)' = Held(d)
    BY <1>1 DEF Held
<1>5. KeysHeld'
    BY <1>3, <1>4 DEF StoreInv, KeysHeld
<1>6. Fresh(stored, cmd)
    BY CommitFits DEF Acceptable
<1>7. ChecksLast'
    <2> SUFFICES ASSUME NEW d \in Callers \ {c}
                 PROVE  /\ call[d].state = "checks" =>
                              \A i \in 1..call[d].passed :
                                 Lasting(stored \cup {cmd}, Checks(call[d].cmd)[i], call[d].cmd)
                        /\ call[d].state = "inserts" =>
                              \A i \in 1..Len(Checks(call[d].cmd)) :
                                 Lasting(stored \cup {cmd}, Checks(call[d].cmd)[i], call[d].cmd)
        BY <1>1 DEF ChecksLast
    <2>1. /\ call[d].state = "checks" =>
                 \A i \in 1..call[d].passed : Lasting(stored, Checks(call[d].cmd)[i],
                            call[d].cmd)
          /\ call[d].state = "inserts" =>
                 \A i \in 1..Len(Checks(call[d].cmd)) :
                    Lasting(stored, Checks(call[d].cmd)[i], call[d].cmd)
        BY DEF StoreInv, ChecksLast
    <2>2. QED
        BY <1>6, <2>1, LastingStays
<1>8. QED
    BY <1>2, <1>5, <1>7 DEF StoreInv

LEMMA BeginKeeps ==
    ASSUME StoreInv, NEW c \in Callers, NEW cmd \in Commands, Begin(c, cmd)
    PROVE  StoreInv'
<1>1. CASE ~Valid(cmd)
    <2>1. /\ stored' = stored
          /\ call' = [call EXCEPT ![c] = [NoCall EXCEPT !.cmd = cmd, !.answer = "refused"]]
        BY <1>1 DEF Begin
    <2>2. CallOK'
        BY <2>1 DEF StoreInv, CallOK, NoCall, State, Answers
    <2>3. /\ call'[c].state = "done" /\ call'[c].held = 0
          /\ \A d \in Callers \ {c} : call'[d] = call[d]
        BY <2>1 DEF StoreInv, CallOK, NoCall
    <2>4. Held(c)' \subseteq Held(c)
        BY <2>3 DEF Held
    <2>5. QED
        BY <2>1, <2>2, <2>3, <2>4, QuietStep
<1>2. CASE Valid(cmd)
    <2>1. /\ stored' = stored
          /\ call' = [call EXCEPT ![c] = [NoCall EXCEPT !.state = "checks", !.cmd = cmd]]
        BY <1>2 DEF Begin
    <2>2. /\ call'[c].state = "checks" /\ call'[c].held = 0 /\ call'[c].passed = 0
          /\ call'[c].cmd = cmd
          /\ \A d \in Callers \ {c} : call'[d] = call[d]
        BY <2>1 DEF StoreInv, CallOK, NoCall
    <2>3. CallOK'
        <3>1. 0 <= Len(Checks(cmd))
            BY ChecksCover
        <3>2. QED
            BY <1>2, <2>1, <2>2, <3>1 DEF StoreInv, CallOK, NoCall, State, Answers
    <2>4. Held(c)' \subseteq Held(c)
        BY <2>2 DEF Held
    <2>5. QED
        BY <2>1, <2>2, <2>3, <2>4, QuietStep
<1>3. QED
    BY <1>1, <1>2

LEMMA VerdictIs ==
    ASSUME NEW check, NEW cmd,
           check \in {"replay", "trace", "searches", "links", "intent", "decision", "attempted"}
    PROVE  Verdict(check, cmd) \in Answers \cup {None}
<1>1. CASE check \in {"replay", "links"}
    BY <1>1 DEF Verdict, ReplayVerdict, LinksVerdict, RefusedUnless, Answers
<1>2. CASE check \notin {"replay", "links"}
    BY <1>2 DEF Verdict, RefusedUnless, Answers
<1>3. QED
    BY <1>1, <1>2

LEMMA CheckKeeps ==
    ASSUME StoreInv, NEW c \in Callers, Check(c)
    PROVE  StoreInv'
<1> DEFINE cmd == call[c].cmd
           n == call[c].passed
           verdict == Verdict(Checks(cmd)[n + 1], cmd)
<1>1. cmd \in Commands /\ Valid(cmd) /\ n \in Nat /\ call[c].held = 0
    BY DEF Check, StoreInv, CallOK
<1>2. n + 1 \in 1..Len(Checks(cmd)) /\ stored' = stored
    BY <1>1, ChecksCover DEF Check
<1>3. Checks(cmd)[n + 1] \in {"replay", "trace", "searches", "links", "intent", "decision",
           "attempted"}
    BY <1>1, <1>2, ChecksCover
<1>4. CASE verdict # None
    <2>1. verdict \in Answers
        BY <1>3, <1>4, VerdictIs
    <2>2. call' = Ended(c, verdict)
        BY <1>4 DEF Check
    <2>3. QED
        BY <1>2, <2>1, <2>2, EndStep
<1>5. CASE verdict = None
    <2>1. call' = [call EXCEPT ![c].passed = @ + 1]
        BY <1>5 DEF Check
    <2>2. /\ call'[c].state = "checks" /\ call'[c].held = 0 /\ call'[c].passed = n + 1
          /\ call'[c].cmd = cmd
          /\ \A d \in Callers \ {c} : call'[d] = call[d]
        BY <1>1, <2>1 DEF Check, StoreInv, CallOK
    <2>3. CallOK'
        <3> DEFINE moved == [call[c] EXCEPT !.passed = @ + 1]
        <3>1. call[c] \in Form /\ call \in [Callers -> Form] /\ call[c].state = "checks"
            BY DEF Check, StoreInv, CallOK, Form
        <3>2. moved \in Form /\ call' = [call EXCEPT ![c] = moved]
            BY <2>1, <3>1 DEF Form
        <3>3. Fits(moved)
            BY <1>1, <1>2, <3>1 DEF Form, Fits
        <3> HIDE DEF moved
        <3>4. QED
            BY <3>2, <3>3, MovesOn DEF StoreInv
    <2>4. Held(c)' \subseteq Held(c)
        BY <2>2 DEF Held
    <2>5. \A i \in 1..n : Lasting(stored, Checks(cmd)[i], cmd)
        BY DEF Check, StoreInv, ChecksLast
    <2>6. Lasting(stored, Checks(cmd)[n + 1], cmd)
        BY <1>3, <1>5, PassedLasts
    <2>7. \A i \in 1..n + 1 : Lasting(stored, Checks(cmd)[i], cmd)
        BY <1>1, <2>5, <2>6
    <2>8. QED
        BY <1>2, <2>2, <2>3, <2>4, <2>7, QuietStep
<1>6. QED
    BY <1>4, <1>5

LEMMA ChecksPassedKeeps ==
    ASSUME StoreInv, NEW c \in Callers, ChecksPassed(c)
    PROVE  StoreInv'
<1> DEFINE cmd == call[c].cmd
<1>1. cmd \in Commands /\ Valid(cmd) /\ call[c].passed = Len(Checks(cmd)) /\ call[c].held = 0
    BY DEF ChecksPassed, StoreInv, CallOK
<1>2. stored' = stored /\ call' = [call EXCEPT ![c].state = "inserts"]
    BY DEF ChecksPassed
<1>3. /\ call'[c].state = "inserts" /\ call'[c].held = 0 /\ call'[c].cmd = cmd
      /\ \A d \in Callers \ {c} : call'[d] = call[d]
    BY <1>1, <1>2 DEF StoreInv, CallOK
<1>4. CallOK'
    <2>1. 0 <= Len(KeysOf(cmd))
        BY <1>1, KeysAre
    <2>2. QED
        BY <1>1, <1>2, <1>3, <2>1 DEF StoreInv, CallOK, State
<1>5. Held(c)' \subseteq Held(c)
    BY <1>3 DEF Held
<1>6. \A i \in 1..Len(Checks(cmd)) : Lasting(stored, Checks(cmd)[i], cmd)
    BY <1>1 DEF ChecksPassed, StoreInv, ChecksLast
<1>7. QED
    BY <1>2, <1>3, <1>4, <1>5, <1>6, QuietStep

\* An INSERT that finds its key free takes it; one that does not ends the call or
\* sends it to the lookup.
LEMMA InsertKeeps ==
    ASSUME StoreInv, NEW c \in Callers, Insert(c)
    PROVE  StoreInv'
<1> DEFINE cmd == call[c].cmd
           n == call[c].held
           key == NextKey(c)
<1>1. /\ cmd \in Commands /\ Valid(cmd) /\ n \in Nat /\ call[c].state = "inserts"
      /\ n < Len(KeysOf(cmd)) /\ stored' = stored
    BY DEF Insert, Inserting, StoreInv, CallOK
<1>2. CASE key \in Taken /\ cmd.kind = "search"
    <2>1. call' = Ended(c, "unavailable")
        BY <1>2 DEF Insert, Integrity
    <2>2. "unavailable" \in Answers
        BY DEF Answers
    <2>3. QED
        BY <1>1, <2>1, <2>2, EndStep
<1>3. CASE key \in Taken /\ cmd.kind # "search"
    <2> DEFINE sent == [call[c] EXCEPT !.state = "lookup", !.held = 0]
    <2>1. call[c] \in Form /\ call \in [Callers -> Form]
        BY DEF StoreInv, CallOK, Form
    <2>2. call' = [call EXCEPT ![c] = sent]
        BY <1>3, <2>1 DEF Insert, Integrity
    <2>3. sent \in Form /\ sent.state = "lookup" /\ sent.held = 0 /\ sent.cmd = cmd
        BY <2>1 DEF Form, State
    <2>4. Fits(sent)
        BY <1>1, <2>3 DEF Fits
    <2> HIDE DEF sent
    <2>5. CallOK' /\ call'[c] = sent /\ \A d \in Callers \ {c} : call'[d] = call[d]
        BY <2>2, <2>3, <2>4, MovesOn DEF StoreInv
    <2>6. Held(c)' \subseteq Held(c)
        BY <2>3, <2>5 DEF Held
    <2>7. QED
        BY <1>1, <2>3, <2>5, <2>6, QuietStep
<1>4. CASE key \notin Taken
    <2> DEFINE longer == [call[c] EXCEPT !.held = @ + 1]
    <2>1. call[c] \in Form /\ call \in [Callers -> Form]
        BY DEF StoreInv, CallOK, Form
    <2>2. call' = [call EXCEPT ![c] = longer]
        BY <1>4, <2>1 DEF Insert
    <2>3. /\ longer \in Form /\ longer.state = "inserts" /\ longer.held = n + 1
          /\ longer.cmd = cmd
        BY <1>1, <2>1 DEF Form
    <2>4. Fits(longer)
        <3>1. Len(KeysOf(cmd)) \in Nat
            BY <1>1, KeysAre
        <3>2. n + 1 <= Len(KeysOf(cmd))
            BY <1>1, <3>1
        <3>3. QED
            BY <1>1, <2>3, <3>2 DEF Fits
    <2> HIDE DEF longer
    <2>5. CallOK' /\ call'[c] = longer /\ \A d \in Callers \ {c} : call'[d] = call[d]
        BY <2>2, <2>3, <2>4, MovesOn DEF StoreInv
    <2>6. /\ call'[c].state = "inserts" /\ call'[c].held = n + 1 /\ call'[c].cmd = cmd
          /\ \A d \in Callers \ {c} : call'[d] = call[d]
        BY <2>3, <2>5
    <2>7. CallOK'
        BY <2>5
    <2>8. Held(c)' = Held(c) \cup {key}
        BY <1>1, <2>6 DEF Held, NextKey
    <2>9. \A d \in Callers \ {c} : Held(d)' = Held(d) /\ key \notin Held(d)
        BY <2>6 DEF Insert, WaitsFor, Held
    <2>10. Taken' = Taken
        BY <1>1 DEF Taken
    <2>11. KeysHeld'
        BY <1>4, <2>8, <2>9, <2>10 DEF StoreInv, KeysHeld
    <2>12. ChecksLast'
        BY <1>1, <2>6 DEF StoreInv, ChecksLast
    <2>13. QED
        BY <2>7, <2>11, <2>12 DEF StoreInv
<1>5. QED
    BY <1>2, <1>3, <1>4

\* A lost connection rolls the call back, or hides that it committed.
LEMMA LoseConnectionKeeps ==
    ASSUME StoreInv, NEW c \in Callers, LoseConnection(c)
    PROVE  StoreInv'
<1>1. "unavailable" \in Answers /\ call' = Ended(c, "unavailable")
    BY DEF LoseConnection, Answers
<1>2. CASE stored' = stored
    BY <1>1, <1>2, EndStep
<1>3. CASE stored' # stored
    <2>1. call[c].state = "inserts" /\ ~Inserting(c) /\ stored' = stored \cup {call[c].cmd}
        BY <1>3 DEF LoseConnection
    <2>2. QED
        BY <1>1, <2>1, CommitStep
<1>4. QED
    BY <1>2, <1>3

LEMMA ProceedKeeps ==
    ASSUME StoreInv, NEW c \in Callers, Proceed(c)
    PROVE  StoreInv'
<1>1. CASE Check(c)
    BY <1>1, CheckKeeps
<1>2. CASE ChecksPassed(c)
    BY <1>2, ChecksPassedKeeps
<1>3. CASE Insert(c)
    BY <1>3, InsertKeeps
<1>4. CASE Commit(c)
    <2>1. "recorded" \in Answers
        BY DEF Answers
    <2>2. QED
        BY <1>4, <2>1, CommitStep DEF Commit
<1>5. CASE Lookup(c)
    <2>1. PICK answer \in Answers : call' = Ended(c, answer)
        BY <1>5 DEF Lookup, Answers
    <2>2. QED
        BY <1>5, <2>1, EndStep DEF Lookup
<1>6. CASE DeadlockVictim(c)
    <2>1. "unavailable" \in Answers
        BY DEF Answers
    <2>2. QED
        BY <1>6, <2>1, EndStep DEF DeadlockVictim
<1>7. QED
    BY <1>1, <1>2, <1>3, <1>4, <1>5, <1>6 DEF Proceed

LEMMA StoreInvInit == ASSUME DatabaseInit PROVE StoreInv
<1>1. CallOK
    BY DEF DatabaseInit, CallOK, NoCall, State
<1>2. \A c \in Callers : Held(c) = {} /\ call[c].state = "done"
    BY DEF DatabaseInit, NoCall, Held
<1>3. QED
    BY <1>1, <1>2 DEF StoreInv, ChecksLast, KeysHeld

LEMMA StoreInvNext == ASSUME StoreInv, [DatabaseNext]_databaseVars PROVE StoreInv'
<1>1. CASE UNCHANGED databaseVars
    <2>1. stored' = stored /\ call' = call
        BY <1>1 DEF databaseVars
    <2>2. CallOK' /\ ChecksLast'
        BY <2>1 DEF StoreInv, CallOK, ChecksLast
    <2>3. Taken' = Taken /\ \A c \in Callers : Held(c)' = Held(c)
        BY <2>1 DEF Taken, Held
    <2>4. KeysHeld'
        BY <2>3 DEF StoreInv, KeysHeld
    <2>5. QED
        BY <2>2, <2>4 DEF StoreInv
<1>2. ASSUME NEW c \in Callers, NEW cmd \in Commands, Begin(c, cmd) PROVE StoreInv'
    BY <1>2, BeginKeeps
<1>3. ASSUME NEW c \in Callers, Proceed(c) PROVE StoreInv'
    BY <1>3, ProceedKeeps
<1>4. ASSUME NEW c \in Callers, LoseConnection(c) PROVE StoreInv'
    BY <1>4, LoseConnectionKeeps
<1>5. QED
    BY <1>1, <1>2, <1>3, <1>4 DEF DatabaseNext

-----------------------------------------------------------------------------
(* The contract                                                            *)

LEMMA SameDatabaseRules ==
    ASSUME NEW R, NEW cmd
    PROVE  DatabaseContract!Acceptable(R, cmd) = Acceptable(R, cmd)
BY DEF Acceptable, DatabaseContract!Acceptable, Valid, DatabaseContract!Valid, ValidIntent,
       DatabaseContract!ValidIntent,
       ValidDecision, DatabaseContract!ValidDecision, ValidAction, DatabaseContract!ValidAction,
       Fresh, DatabaseContract!Fresh, TraceKnown, DatabaseContract!TraceKnown, SearchesFit,
                  DatabaseContract!SearchesFit,
       Unresolved, DatabaseContract!Unresolved, Resolved, DatabaseContract!Resolved,
       UsedWereReturned, DatabaseContract!UsedWereReturned, IntentFits,
                  DatabaseContract!IntentFits,
       DecisionFits, DatabaseContract!DecisionFits, Attempted, DatabaseContract!Attempted,
       Named, DatabaseContract!Named, Of, DatabaseContract!Of, SearchIds,
                  DatabaseContract!SearchIds

\* Every step adds nothing or a record that fits.
LEMMA StepKeepsContract ==
    ASSUME StoreInv, [DatabaseNext]_databaseVars
    PROVE  [DatabaseContract!ContractNext]_stored
<1>1. SUFFICES ASSUME stored' # stored PROVE DatabaseContract!ContractNext
    OBVIOUS
<1>2. PICK c \in Callers : call[c].state = "inserts" /\ ~Inserting(c)
                          /\ stored' = stored \cup {call[c].cmd}
    BY <1>1 DEF DatabaseNext, databaseVars, Begin, Proceed, Check, ChecksPassed, Insert, Commit,
           Lookup,
                DeadlockVictim, LoseConnection
<1>3. call[c].cmd \in Commands
    BY <1>2 DEF StoreInv, CallOK
<1>4. DatabaseContract!Acceptable(stored, call[c].cmd)
    BY <1>2, CommitFits, SameDatabaseRules
<1>5. QED
    BY <1>2, <1>3, <1>4 DEF DatabaseContract!ContractNext, DatabaseContract!Accept

\* postgres/telemetry.py keeps the contract of the telemetry, for any commands, callers
\* and faults: whatever its transactions interleave, each record that becomes visible
\* fits those already there.
THEOREM PostgresKeepsContract == DatabaseSpec => DatabaseKeepsContract
<1>1. DatabaseInit => StoreInv
    BY StoreInvInit
<1>2. StoreInv /\ [DatabaseNext]_databaseVars => StoreInv'
    BY StoreInvNext
<1>3. StoreInv /\ [DatabaseNext]_databaseVars => [DatabaseContract!ContractNext]_stored
    BY StepKeepsContract
<1>4. QED
    BY <1>1, <1>2, <1>3, PTL DEF DatabaseSpec, DatabaseKeepsContract

-----------------------------------------------------------------------------
(* The answers                                                             *)

\* What a caller that is told of a conflict may rely on.
LostOut(R, cmd) == ~Fresh(R, cmd) \/ (cmd.kind = "decision" /\ ~Unresolved(R, cmd))

TrueOf(R, e) ==
    /\ e.answer \in {"recorded", "replayed"} => e.cmd \in R
    /\ e.answer = "conflict" => LostOut(R, e.cmd)
    /\ e.state # "done" => e.answer = None
    /\ e.state = "lookup" => LostOut(R, e.cmd)

AnswerInv == stored \subseteq Commands /\ \A c \in Callers : TrueOf(stored, call[c])

LEMMA TruthLasts ==
    ASSUME NEW R, NEW S, R \subseteq S, NEW e, TrueOf(R, e)
    PROVE  TrueOf(S, e)
<1>1. \A cmd : LostOut(R, cmd) => LostOut(S, cmd)
    BY DEF LostOut, Fresh, Named, Of, Unresolved, Resolved
<1>2. QED
    BY <1>1 DEF TrueOf

\* Records are only added, and only commands.
LEMMA StoredGrows ==
    ASSUME StoreInv, [DatabaseNext]_databaseVars
    PROVE  stored \subseteq stored' /\ (stored \subseteq Commands => stored' \subseteq Commands)
<1>1. CASE stored' = stored
    BY <1>1
<1>2. CASE stored' # stored
    <2>1. PICK c \in Callers : call[c].state = "inserts" /\ stored' = stored \cup {call[c].cmd}
        BY <1>2 DEF DatabaseNext, databaseVars, Begin, Proceed, Check, ChecksPassed, Insert,
               Commit, Lookup,
                    DeadlockVictim, LoseConnection
    <2>2. QED
        BY <2>1 DEF StoreInv, CallOK
<1>3. QED
    BY <1>1, <1>2

\* A check ends a call with the truth.
LEMMA VerdictTrue ==
    ASSUME NEW cmd \in Commands, NEW i \in 1..Len(Checks(cmd)),
           NEW e, e.cmd = cmd, e.state = "done", e.answer = Verdict(Checks(cmd)[i], cmd),
           e.answer # None
    PROVE  TrueOf(stored, e)
<1> DEFINE check == Checks(cmd)[i]
<1>1. /\ check \in {"replay", "trace", "searches", "links", "intent", "decision", "attempted"}
      /\ check = "links" => cmd.kind = "decision"
    BY ChecksCover
<1> HIDE DEF check
<1>2. CASE check = "replay"
    <2>1. Verdict(check, cmd) = ReplayVerdict(cmd)
        BY <1>2 DEF Verdict
    <2>2. QED
        BY <2>1 DEF ReplayVerdict, TrueOf, LostOut, check
<1>3. CASE check = "links"
    <2>1. Verdict(check, cmd) = LinksVerdict(cmd)
        BY <1>3 DEF Verdict
    <2>2. QED
        BY <1>1, <1>3, <2>1, NoneAssumption DEF LinksVerdict, RefusedUnless, TrueOf, LostOut,
               check
<1>4. CASE check \notin {"replay", "links"}
    <2>1. Verdict(check, cmd) \in {None, "refused"}
        BY <1>1, <1>4 DEF Verdict, RefusedUnless
    <2>2. QED
        BY <2>1 DEF TrueOf, check
<1>5. QED
    BY <1>2, <1>3, <1>4

\* A key that is taken is the call's own id or a search it resolves.
LEMMA TakenMeansLost ==
    ASSUME NEW cmd \in Commands, stored \subseteq Commands, NEW key \in AllKeys(cmd),
               key \in Taken
    PROVE  LostOut(stored, cmd)
<1>1. cmd.kind # "link" /\ \A r \in stored : r.kind # "link"
    BY CommandsAssumption
<1>2. CASE key = <<cmd.kind, cmd.id>>
    <2>1. PICK r \in stored : r.kind = cmd.kind /\ r.id = cmd.id
        BY <1>1, <1>2 DEF Taken
    <2>2. QED
        BY <2>1 DEF LostOut, Fresh, Named, Of
<1>3. CASE key # <<cmd.kind, cmd.id>>
    <2>1. PICK s \in SearchIds(cmd) : cmd.kind = "decision" /\ key = <<"link", s>>
        BY <1>3 DEF AllKeys
    <2>2. s \in Resolved(stored)
        BY <1>1, <2>1 DEF Taken
    <2>3. QED
        BY <2>1, <2>2 DEF LostOut, Unresolved
<1>4. QED
    BY <1>2, <1>3

\* The call a step moves on is told the truth.
LEMMA BeginTrue ==
    ASSUME StoreInv, NEW c \in Callers, NEW cmd \in Commands, Begin(c, cmd)
    PROVE  TrueOf(stored', call'[c]) /\ \A d \in Callers \ {c} : call'[d] = call[d]
<1> DEFINE begun == IF Valid(cmd) THEN [NoCall EXCEPT !.state = "checks", !.cmd = cmd]
                                  ELSE [NoCall EXCEPT !.cmd = cmd, !.answer = "refused"]
<1>1. call' = [call EXCEPT ![c] = begun]
    BY DEF Begin
<1>2. TrueOf(stored', begun)
    BY NoneAssumption DEF NoCall, TrueOf, Answers
<1> HIDE DEF begun
<1>3. QED
    BY <1>1, <1>2 DEF StoreInv, CallOK

LEMMA ProceedTrue ==
    ASSUME StoreInv, AnswerInv, NEW c \in Callers, Proceed(c)
    PROVE  TrueOf(stored', call'[c]) /\ \A d \in Callers \ {c} : call'[d] = call[d]
<1> DEFINE cmd == call[c].cmd
<1>1. call \in [Callers -> Form] /\ call[c] \in Form /\ TrueOf(stored, call[c]) /\ CallOK
    BY DEF StoreInv, CallOK, Form, AnswerInv
<1>2. ASSUME NEW answer \in Answers, call' = Ended(c, answer)
      PROVE  /\ call'[c].state = "done" /\ call'[c].cmd = cmd /\ call'[c].answer = answer
             /\ \A d \in Callers \ {c} : call'[d] = call[d]
    BY <1>1, <1>2, EndedOK
<1>3. CASE Check(c)
    <2> DEFINE n == call[c].passed
               verdict == Verdict(Checks(cmd)[n + 1], cmd)
    <2>1. cmd \in Commands /\ n \in Nat /\ stored' = stored
        BY <1>3 DEF Check, StoreInv, CallOK
    <2>2. n + 1 \in 1..Len(Checks(cmd))
        BY <1>3, <2>1, ChecksCover DEF Check
    <2>3. CASE verdict = None
        <3>1. call' = [call EXCEPT ![c].passed = @ + 1]
            BY <1>3, <2>3 DEF Check
        <3>2. /\ call'[c].answer = call[c].answer /\ call'[c].cmd = call[c].cmd
              /\ call'[c].state = call[c].state
              /\ \A d \in Callers \ {c} : call'[d] = call[d]
            BY <1>1, <3>1 DEF Form
        <3>3. QED
            BY <1>1, <2>1, <3>2 DEF TrueOf
    <2>4. CASE verdict # None
        <3>1. verdict \in Answers /\ call' = Ended(c, verdict)
            BY <1>3, <2>1, <2>2, <2>4, ChecksCover, VerdictIs DEF Check
        <3> HIDE DEF verdict
        <3>2. call'[c].state = "done" /\ call'[c].cmd = cmd /\ call'[c].answer = verdict
            BY <1>2, <3>1
        <3>3. TrueOf(stored, call'[c])
            BY <2>1, <2>2, <2>4, <3>2, VerdictTrue DEF verdict
        <3>4. QED
            BY <1>2, <2>1, <3>1, <3>3
    <2>5. QED
        BY <2>3, <2>4
<1>4. CASE ChecksPassed(c)
    <2>1. call' = [call EXCEPT ![c].state = "inserts"] /\ stored' = stored
               /\ call[c].state = "checks"
        BY <1>4 DEF ChecksPassed
    <2>2. /\ call'[c].answer = call[c].answer /\ call'[c].cmd = call[c].cmd
          /\ call'[c].state = "inserts"
          /\ \A d \in Callers \ {c} : call'[d] = call[d]
        BY <1>1, <2>1 DEF Form
    <2>3. QED
        BY <1>1, <2>1, <2>2 DEF TrueOf
<1>5. CASE Insert(c)
    <2> DEFINE key == NextKey(c)
    <2>1. /\ cmd \in Commands /\ call[c].state = "inserts" /\ stored' = stored
          /\ call[c].held \in Nat /\ call[c].held < Len(KeysOf(cmd))
        BY <1>5 DEF Insert, Inserting, StoreInv, CallOK
    <2>2. key \in AllKeys(cmd)
        <3>1. call[c].held + 1 \in 1..Len(KeysOf(cmd))
            BY <2>1, KeysAre
        <3>2. QED
            BY <2>1, <3>1, KeysAre DEF NextKey
    <2>3. CASE key \in Taken /\ cmd.kind = "search"
        <3>1. "unavailable" \in Answers /\ call' = Ended(c, "unavailable")
            BY <1>5, <2>3 DEF Insert, Integrity, Answers
        <3>2. QED
            BY <1>2, <2>1, <3>1 DEF TrueOf
    <2>4. CASE key \in Taken /\ cmd.kind # "search"
        <3>1. call' = [call EXCEPT ![c].state = "lookup", ![c].held = 0]
            BY <1>5, <2>4 DEF Insert, Integrity
        <3>2. /\ call'[c].answer = call[c].answer /\ call'[c].cmd = cmd
                   /\ call'[c].state = "lookup"
              /\ \A d \in Callers \ {c} : call'[d] = call[d]
            BY <1>1, <3>1 DEF Form
        <3>3. LostOut(stored, cmd)
            BY <2>1, <2>2, <2>4, TakenMeansLost DEF AnswerInv
        <3>4. QED
            BY <1>1, <2>1, <3>2, <3>3 DEF TrueOf
    <2>5. CASE key \notin Taken
        <3>1. call' = [call EXCEPT ![c].held = @ + 1]
            BY <1>5, <2>5 DEF Insert
        <3>2. /\ call'[c].answer = call[c].answer /\ call'[c].cmd = cmd
              /\ call'[c].state = call[c].state
              /\ \A d \in Callers \ {c} : call'[d] = call[d]
            BY <1>1, <3>1 DEF Form
        <3>3. QED
            BY <1>1, <2>1, <3>2 DEF TrueOf
    <2>6. QED
        BY <2>3, <2>4, <2>5
<1>6. CASE Commit(c)
    <2>1. "recorded" \in Answers /\ call' = Ended(c, "recorded") /\ cmd \in stored'
        BY <1>6 DEF Commit, Answers
    <2>2. QED
        BY <1>2, <2>1 DEF TrueOf
<1>7. CASE Lookup(c)
    <2>1. stored' = stored /\ LostOut(stored, cmd)
        BY <1>1, <1>7 DEF Lookup, TrueOf
    <2>2. CASE ReplayVerdict(cmd) = "replayed"
        <3>1. call' = Ended(c, "replayed") /\ "replayed" \in Answers
            BY <1>7, <2>2 DEF Lookup, Answers
        <3>2. cmd \in stored
            BY <2>2, NoneAssumption DEF ReplayVerdict, Answers
        <3>3. QED
            BY <1>2, <2>1, <3>1, <3>2 DEF TrueOf
    <2>3. CASE ReplayVerdict(cmd) # "replayed"
        <3>1. call' = Ended(c, "conflict") /\ "conflict" \in Answers
            BY <1>7, <2>3 DEF Lookup, Answers
        <3>2. QED
            BY <1>2, <2>1, <3>1 DEF TrueOf
    <2>4. QED
        BY <2>2, <2>3
<1>8. CASE DeadlockVictim(c)
    <2>1. "unavailable" \in Answers /\ call' = Ended(c, "unavailable")
        BY <1>8 DEF DeadlockVictim, Answers
    <2>2. QED
        BY <1>2, <2>1 DEF TrueOf
<1>9. QED
    BY <1>3, <1>4, <1>5, <1>6, <1>7, <1>8 DEF Proceed

LEMMA LoseConnectionTrue ==
    ASSUME StoreInv, NEW c \in Callers, LoseConnection(c)
    PROVE  TrueOf(stored', call'[c]) /\ \A d \in Callers \ {c} : call'[d] = call[d]
<1>1. "unavailable" \in Answers /\ call' = Ended(c, "unavailable")
    BY DEF LoseConnection, Answers
<1>2. /\ call'[c].state = "done" /\ call'[c].answer = "unavailable"
      /\ \A d \in Callers \ {c} : call'[d] = call[d]
    BY <1>1, EndedOK DEF StoreInv
<1>3. QED
    BY <1>2 DEF TrueOf

LEMMA AnswerInvNext == ASSUME StoreInv, AnswerInv, [DatabaseNext]_databaseVars PROVE AnswerInv'
<1>1. stored \subseteq stored' /\ stored' \subseteq Commands
    BY StoredGrows DEF AnswerInv
<1>2. CASE UNCHANGED databaseVars
    BY <1>2 DEF databaseVars, AnswerInv
<1>3. ASSUME NEW c \in Callers, TrueOf(stored', call'[c]),
           \A d \in Callers \ {c} : call'[d] = call[d]
      PROVE  AnswerInv'
    <2>1. \A d \in Callers \ {c} : TrueOf(stored', call[d])
        BY <1>1, TruthLasts DEF AnswerInv
    <2>2. \A d \in Callers : TrueOf(stored', call'[d])
        BY <1>3, <2>1
    <2>3. QED
        BY <1>1, <2>2 DEF AnswerInv
<1>4. ASSUME NEW c \in Callers, NEW cmd \in Commands, Begin(c, cmd) PROVE AnswerInv'
    BY <1>3, <1>4, BeginTrue
<1>5. ASSUME NEW c \in Callers, Proceed(c) PROVE AnswerInv'
    BY <1>3, <1>5, ProceedTrue
<1>6. ASSUME NEW c \in Callers, LoseConnection(c) PROVE AnswerInv'
    BY <1>3, <1>6, LoseConnectionTrue
<1>7. QED
    BY <1>2, <1>4, <1>5, <1>6 DEF DatabaseNext

\* Nobody is told anything untrue of its record: "recorded" and "replayed" mean it is
\* kept, "conflict" that its id or one of its searches is another's.
THEOREM AnswersHold == DatabaseSpec => []AnswersAreTrue
<1>1. DatabaseInit => StoreInv
    BY StoreInvInit
<1>2. DatabaseInit => AnswerInv
    BY NoneAssumption DEF DatabaseInit, AnswerInv, NoCall, TrueOf, Answers
<1>3. StoreInv /\ [DatabaseNext]_databaseVars => StoreInv'
    BY StoreInvNext
<1>4. StoreInv /\ AnswerInv /\ [DatabaseNext]_databaseVars => AnswerInv'
    BY AnswerInvNext
<1>5. AnswerInv => AnswersAreTrue
    BY DEF AnswerInv, TrueOf, LostOut, AnswersAreTrue
<1>6. QED
    BY <1>1, <1>2, <1>3, <1>4, <1>5, PTL DEF DatabaseSpec

-----------------------------------------------------------------------------
(***************************************************************************)
(* The JSONL log keeps the telemetry's contract while its file can be      *)
(* decoded, and has a timer for every preview it keeps, for any commands,  *)
(* retention and bounds.                                                   *)
(*                                                                         *)
(* Every line is whole or not from the moment it is appended, so what the  *)
(* calls read back grows by the record just checked or not at all.  For    *)
(* the timers: the one _redaction_timer refers to is running or has fired  *)
(* (TimerLives), so leaving an earlier timer in place is enough.           *)
(***************************************************************************)

Line == [rec : Commands, at : Nat, raw : BOOLEAN, whole : BOOLEAN]

LinesOK == lines \subseteq Line /\ clock \in Nat

-----------------------------------------------------------------------------
(* What the calls can read                                                 *)

LEMMA PreviewTaken ==
    ASSUME NEW l \in Line
    PROVE  LET r == [l EXCEPT !.raw = FALSE] IN
           r \in Line /\ r.rec = l.rec /\ r.whole = l.whole /\ r.at = l.at /\ r.raw = FALSE
BY DEF Line

\* Redaction changes previews, not records.
LEMMA RedactionKeepsRecords ==
    ASSUME LinesOK, lines' = Redacted
    PROVE  lines' \subseteq Line /\ {l.rec : l \in {m \in lines' : m.whole}}
                                  = {l.rec : l \in {m \in lines : m.whole}}
<1>1. Expired \subseteq lines /\ lines \subseteq Line
    BY DEF Expired, LinesOK
<1>2. \A r \in lines' : r \in lines \/ \E l \in Expired : r = [l EXCEPT !.raw = FALSE]
    BY DEF Redacted
<1>3. \A l \in lines : l \in lines' \/ [l EXCEPT !.raw = FALSE] \in lines'
    BY DEF Redacted
<1>4. ASSUME NEW r \in lines'
      PROVE  r \in Line /\ \E l \in lines : r.rec = l.rec /\ r.whole = l.whole
    <2>1. CASE r \in lines
        BY <1>1, <2>1
    <2>2. ASSUME NEW l \in Expired, r = [l EXCEPT !.raw = FALSE]
          PROVE  r \in Line /\ \E m \in lines : r.rec = m.rec /\ r.whole = m.whole
        BY <1>1, <2>2, PreviewTaken
    <2>3. QED
        BY <1>2, <2>1, <2>2
<1>5. ASSUME NEW l \in lines
      PROVE  \E r \in lines' : r.rec = l.rec /\ r.whole = l.whole
    BY <1>1, <1>3, PreviewTaken
<1>6. QED
    BY <1>4, <1>5

LEMMA SameFileRules ==
    ASSUME NEW R, NEW cmd
    PROVE  FileContract!Acceptable(R, cmd) = Acceptable(R, cmd)
BY DEF Acceptable, FileContract!Acceptable, Valid, FileContract!Valid, ValidIntent,
       FileContract!ValidIntent,
       ValidDecision, FileContract!ValidDecision, ValidAction, FileContract!ValidAction,
       Fresh, FileContract!Fresh, TraceKnown, FileContract!TraceKnown, SearchesFit,
                  FileContract!SearchesFit,
       Unresolved, FileContract!Unresolved, Resolved, FileContract!Resolved,
       UsedWereReturned, FileContract!UsedWereReturned, IntentFits, FileContract!IntentFits,
       DecisionFits, FileContract!DecisionFits, Attempted, FileContract!Attempted,
       Named, FileContract!Named, Of, FileContract!Of, SearchIds, FileContract!SearchIds

\* One line is appended, and the clock stands still.
LEMMA AppendIs ==
    ASSUME LinesOK, NEW cmd \in Commands, AppendLine(cmd)
    PROVE  \E new \in Line :
              /\ new.rec = cmd /\ new.at = clock /\ new.raw = Preview(cmd)
              /\ lines' = lines \cup {new} /\ clock' = clock
<1>1. Preview(cmd) \in BOOLEAN /\ clock \in Nat
    BY DEF Preview, LinesOK
<1>2. \E w \in BOOLEAN : lines' = lines \cup {[rec |-> cmd, at |-> clock, raw |-> Preview(cmd),
           whole |-> w]}
    BY DEF AppendLine, Written, WrittenShort
<1>3. PICK w \in BOOLEAN :
         lines' = lines \cup {[rec |-> cmd, at |-> clock, raw |-> Preview(cmd), whole |-> w]}
    BY <1>2
<1>4. [rec |-> cmd, at |-> clock, raw |-> Preview(cmd), whole |-> w] \in Line
    BY <1>1 DEF Line
<1>5. clock' = clock
    BY DEF AppendLine
<1>6. QED
    BY <1>3, <1>4, <1>5

\* A line is appended for a record that fits what can be read; it may be unreadable.
LEMMA AppendAddsOne ==
    ASSUME LinesOK, NEW cmd \in Commands, AppendLine(cmd), Acceptable(Readable, cmd)
    PROVE  garbled \/ garbled' \/ UNCHANGED Readable \/ FileContract!ContractNext
<1>1. PICK new \in Line : new.rec = cmd /\ lines' = lines \cup {new}
    BY AppendIs
<1>2. new.whole \in BOOLEAN
    BY DEF Line
<1>3. CASE ~garbled /\ ~garbled' /\ new.whole
    <2>1. /\ Readable = {l.rec : l \in {m \in lines : m.whole}}
          /\ Readable' = {l.rec : l \in {m \in lines' : m.whole}}
        BY <1>3 DEF Readable
    <2>2. {m \in lines' : m.whole} = {m \in lines : m.whole} \cup {new}
        BY <1>1, <1>3
    <2>3. Readable' = Readable \cup {cmd}
        BY <1>1, <2>1, <2>2
    <2>4. FileContract!Accept(cmd)
        BY <2>3, SameFileRules DEF FileContract!Accept
    <2>5. QED
        BY <2>4 DEF FileContract!ContractNext
<1>4. CASE ~garbled /\ ~garbled' /\ ~new.whole
    <2>1. {m \in lines' : m.whole} = {m \in lines : m.whole}
        BY <1>1, <1>4
    <2>2. QED
        BY <1>4, <2>1 DEF Readable
<1>5. QED
    BY <1>2, <1>3, <1>4

\* What the code checks before it appends is what the contract asks.
LEMMA RecordChecks ==
    ASSUME NEW cmd \in Commands, LinesOK, Record(cmd)
    PROVE  AppendLine(cmd) /\ Acceptable(Readable, cmd)
<1>1. CASE cmd.kind = "search" /\ RecordSearch(cmd)
           /\ \A l \in lines : l.rec.kind = "search" => l.rec.id # cmd.id
    <2>1. Fresh(Readable, cmd)
        BY <1>1 DEF Fresh, Named, Of, Readable
    <2>2. QED
        BY <1>1, <2>1 DEF RecordSearch, Acceptable, Valid
<1>2. CASE RecordIntent(cmd)
    BY <1>2 DEF RecordIntent, Acceptable
<1>3. CASE RecordDecision(cmd)
    BY <1>3 DEF RecordDecision, Acceptable
<1>4. CASE RecordAction(cmd)
    BY <1>4 DEF RecordAction, Acceptable
<1>5. QED
    BY <1>1, <1>2, <1>3, <1>4 DEF Record, RecordSearch

LEMMA RedactReads ==
    ASSUME LinesOK, NEW current, RedactAndSchedule(current)
    PROVE  lines' \subseteq Line /\ (garbled \/ UNCHANGED Readable)
<1>1. CASE garbled
    BY <1>1 DEF RedactAndSchedule, LinesOK
<1>2. CASE ~garbled
    <2>1. lines' = Redacted /\ garbled' = garbled
        BY <1>2 DEF RedactAndSchedule
    <2>2. QED
        BY <1>2, <2>1, RedactionKeepsRecords DEF Readable
<1>3. QED
    BY <1>1, <1>2

\* The type of the lines, and the contract, step by step.
LEMMA StepReads ==
    ASSUME LinesOK, [FileNext]_fileVars
    PROVE  LinesOK' /\ (garbled \/ garbled' \/ UNCHANGED Readable \/ FileContract!ContractNext)
<1>1. ASSUME NEW cmd \in Commands, Record(cmd)
      PROVE  LinesOK' /\ (garbled \/ garbled' \/ UNCHANGED Readable \/ FileContract!ContractNext)
    <2>1. AppendLine(cmd) /\ Acceptable(Readable, cmd)
        BY <1>1, RecordChecks
    <2>2. LinesOK'
        BY <2>1, AppendIs DEF LinesOK
    <2>3. QED
        BY <2>1, <2>2, AppendAddsOne
<1>2. ASSUME NEW current, RedactAndSchedule(current), clock' = clock
      PROVE  LinesOK' /\ (garbled \/ UNCHANGED Readable)
    BY <1>2, RedactReads DEF LinesOK
<1>3. ASSUME UNCHANGED file, clock' \in Nat
      PROVE  LinesOK' /\ UNCHANGED Readable
    BY <1>3 DEF LinesOK, Readable, file
<1>4. CASE ListUsage
    BY <1>2, <1>3, <1>4 DEF ListUsage, RedactionFails, LinesOK
<1>5. CASE TimerFires
    BY <1>3, <1>5 DEF TimerFires, LinesOK
<1>6. CASE RunRedaction
    BY <1>2, <1>3, <1>6 DEF RunRedaction, RedactionFails, LinesOK
<1>7. CASE Stop \/ Tick \/ UNCHANGED fileVars
    BY <1>3, <1>7 DEF Stop, Tick, fileVars, LinesOK
<1>8. CASE Start
    BY <1>2, <1>8 DEF Start
<1>9. QED
    BY <1>1, <1>4, <1>5, <1>6, <1>7, <1>8 DEF FileNext

\* usage_log.py keeps the contract of the telemetry, for any commands, retention and
\* faults: what the calls read of the file grows by records that fit those before them,
\* unless a short write has left a file that is no UTF-8.
THEOREM LogKeepsContract == FileSpec => FileKeepsContract
<1>1. FileInit => LinesOK
    BY DEF FileInit, LinesOK
<1>2. LinesOK /\ [FileNext]_fileVars => LinesOK' /\ [garbled \/ garbled'
           \/ FileContract!ContractNext]_Readable
    BY StepReads
<1>3. QED
    BY <1>1, <1>2, PTL DEF FileSpec, FileKeepsContract

-----------------------------------------------------------------------------
(* The timers                                                              *)

\* The timer that would be cancelled is running, or has fired and wants the lock.
TimerLives == timer # None => timer \in ticking \/ waiting > 0

TimersOK ==
    /\ timer \in Nat \cup {None} /\ ticking \subseteq Nat /\ waiting \in Nat
    /\ TimerLives

TimerInv == LinesOK /\ TimersOK /\ RawIsScheduled

LEMMA MinOf ==
    ASSUME NEW S, S \subseteq Nat, S # {}
    PROVE  Min(S) \in S /\ \A y \in S : Min(S) <= y
<1>1. PICK x \in S : \A y \in S : ~ (<<y, x>> \in OpToRel(<, Nat))
    BY NatLessThanWellFounded, WFMin, Zenon
<1>2. ASSUME NEW y \in S PROVE x <= y
    <2>1. x \in Nat /\ y \in Nat
        OBVIOUS
    <2>2. ASSUME y < x PROVE <<y, x>> \in OpToRel(<, Nat)
        BY <2>1, <2>2 DEF OpToRel
    <2>3. ~(y < x)
        BY <1>1, <2>2
    <2>4. QED
        BY <2>1, <2>3
<1>3. QED
    BY <1>2 DEF Min

\* Scheduling leaves a timer no later than the one asked for, and none later than before.
LEMMA ScheduleDoes ==
    ASSUME NEW due \in Nat \cup {None}, NEW current \in Nat \cup {None},
           ticking \subseteq Nat, Schedule(due, current, ticking)
    PROVE  /\ timer' \in Nat \cup {None} /\ ticking' \subseteq Nat
           /\ (timer' = current /\ ticking' = ticking) \/ timer' \in ticking'
           /\ due # None => timer' # None /\ timer' <= due
           /\ \A t \in ticking : \E u \in ticking' : u <= t
<1>1. None \notin Nat
    BY NoneAssumption
<1>2. CASE due = None \/ (current # None /\ current <= due)
    <2>1. timer' = current /\ ticking' = ticking
        BY <1>2 DEF Schedule
    <2>2. QED
        BY <1>2, <2>1
<1>3. CASE ~(due = None \/ (current # None /\ current <= due))
    <2>1. timer' = due /\ ticking' = (ticking \ {current}) \cup {due}
        BY <1>3 DEF Schedule
    <2>2. due \in Nat /\ (current # None => current \in Nat /\ due < current)
        BY <1>3
    <2>3. ASSUME NEW t \in ticking PROVE \E u \in ticking' : u <= t
        <3>1. CASE t = current
            BY <1>1, <2>1, <2>2, <2>3, <3>1
        <3>2. CASE t # current
            BY <2>1, <2>3, <3>2
        <3>3. QED
            BY <3>1, <3>2
    <2>4. QED
        BY <1>1, <2>1, <2>2, <2>3
<1>4. QED
    BY <1>2, <1>3

\* A readable file's previews all have a timer after a redaction, whatever was there before.
LEMMA RedactSchedules ==
    ASSUME LinesOK, ticking \subseteq Nat, NEW current \in Nat \cup {None},
           RedactAndSchedule(current), ~garbled
    PROVE  /\ timer' \in Nat \cup {None} /\ ticking' \subseteq Nat
           /\ (timer' = current /\ ticking' = ticking) \/ timer' \in ticking'
           /\ \A l \in lines' : l.whole /\ l.raw => timer' # None /\ timer' <= Expiry(l)
<1> DEFINE pending == {l \in lines : l.whole /\ l.raw} \ Expired
           dues == {Expiry(l) : l \in pending}
<1>1. lines' = Redacted /\ Schedule(NextRedaction, current, ticking)
    BY DEF RedactAndSchedule
<1>2. dues \subseteq Nat
    BY RetentionAssumption DEF LinesOK, Line, Expiry
<1>3. NextRedaction = IF pending = {} THEN None ELSE Min(dues)
    BY DEF NextRedaction
<1>4. ASSUME NEW l \in lines', l.whole, l.raw PROVE l \in pending
    <2>1. l \in lines \ Expired \/ \E e \in Expired : l = [e EXCEPT !.raw = FALSE]
        BY <1>1 DEF Redacted
    <2>2. Expired \subseteq Line
        BY DEF Expired, LinesOK
    <2>3. l \in lines \ Expired
        BY <1>4, <2>1, <2>2, PreviewTaken
    <2>4. QED
        BY <1>4, <2>3
<1> HIDE DEF pending
<1>5. CASE pending = {}
    BY <1>1, <1>3, <1>4, <1>5, ScheduleDoes
<1>6. CASE pending # {}
    <2>1. NextRedaction \in dues /\ \A d \in dues : NextRedaction <= d
        <3>1. dues # {}
            BY <1>6
        <3> HIDE DEF dues
        <3>2. Min(dues) \in dues /\ \A d \in dues : Min(dues) <= d
            BY <1>2, <3>1, MinOf
        <3>3. QED
            BY <1>3, <1>6, <3>2
    <2>2. NextRedaction \in Nat /\ NextRedaction # None
        BY <1>2, <2>1, NoneAssumption
    <2>3. /\ timer' \in Nat \cup {None} /\ ticking' \subseteq Nat
          /\ (timer' = current /\ ticking' = ticking) \/ timer' \in ticking'
          /\ timer' # None /\ timer' <= NextRedaction
        BY <1>1, <2>2, ScheduleDoes
    <2>4. ASSUME NEW l \in lines', l.whole, l.raw PROVE timer' <= Expiry(l)
        <3>1. Expiry(l) \in dues
            BY <1>4, <2>4
        <3>2. QED
            BY <1>2, <2>1, <2>2, <2>3, <3>1
    <2>5. QED
        BY <2>3, <2>4
<1>7. QED
    BY <1>5, <1>6

\* ... so that the timers cover them again: from "missed" or from a start with no timer.
LEMMA RedactKeeps ==
    ASSUME TimerInv, NEW current \in {timer, None}, RedactAndSchedule(current),
           waiting' \in Nat, current = None \/ waiting' = waiting
    PROVE  TimersOK' /\ RawIsScheduled'
<1>1. current \in Nat \cup {None} /\ ticking \subseteq Nat /\ LinesOK
    BY DEF TimerInv, TimersOK
<1>2. CASE garbled
    <2>1. garbled' /\ Schedule(None, current, ticking)
        BY <1>2 DEF RedactAndSchedule
    <2>2. timer' = current /\ ticking' = ticking
        BY <2>1 DEF Schedule
    <2>3. QED
        BY <1>1, <2>1, <2>2 DEF TimerInv, TimersOK, TimerLives, RawIsScheduled, Covered
<1>3. CASE ~garbled
    <2>1. /\ timer' \in Nat \cup {None} /\ ticking' \subseteq Nat
          /\ (timer' = current /\ ticking' = ticking) \/ timer' \in ticking'
          /\ \A l \in lines' : l.whole /\ l.raw => timer' # None /\ timer' <= Expiry(l)
        BY <1>1, <1>3, RedactSchedules
    <2>2. TimerLives'
        BY <2>1 DEF TimerLives, TimerInv, TimersOK
    <2>3. TimersOK'
        BY <2>1, <2>2 DEF TimersOK
    <2>4. ASSUME NEW l \in lines', l.whole, l.raw
          PROVE  waiting' > 0 \/ \E due \in ticking' : due <= Expiry(l)
        BY <2>1, <2>2, <2>4 DEF TimerLives
    <2>5. RawIsScheduled'
        BY <2>4 DEF RawIsScheduled, Expiry
    <2>6. QED
        BY <2>3, <2>5
<1>4. QED
    BY <1>2, <1>3

LEMMA AppendKeeps ==
    ASSUME TimerInv, NEW cmd \in Commands, AppendLine(cmd)
    PROVE  TimersOK' /\ RawIsScheduled'
<1> DEFINE due == IF Preview(cmd) THEN clock + Retention ELSE None
<1>1. /\ Schedule(due, timer, ticking) /\ waiting' = waiting /\ up' = up /\ missed' = missed
      /\ garbled' = garbled \/ garbled' = TRUE
    BY DEF AppendLine, Written, WrittenShort
<1>2. PICK new \in Line : new.at = clock /\ new.raw = Preview(cmd) /\ lines' = lines \cup {new}
    BY AppendIs DEF TimerInv
<1>3. due \in Nat \cup {None} /\ (Preview(cmd) => due # None /\ due = Expiry(new))
    <2>1. clock + Retention \in Nat /\ clock + Retention # None
        BY NoneAssumption, RetentionAssumption DEF TimerInv, LinesOK
    <2>2. QED
        BY <1>2, <2>1 DEF Expiry
<1> HIDE DEF due
<1>4. /\ timer' \in Nat \cup {None} /\ ticking' \subseteq Nat
      /\ (timer' = timer /\ ticking' = ticking) \/ timer' \in ticking'
      /\ due # None => timer' # None /\ timer' <= due
      /\ \A t \in ticking : \E u \in ticking' : u <= t
    BY <1>1, <1>3, ScheduleDoes DEF TimerInv, TimersOK
<1>5. TimersOK'
    BY <1>1, <1>4 DEF TimerInv, TimersOK, TimerLives
<1>6. ASSUME Covered', NEW l \in lines', l.whole, l.raw
      PROVE  waiting' > 0 \/ \E d \in ticking' : d <= Expiry(l)
    <2>1. CASE l = new
        BY <1>2, <1>3, <1>4, <1>5, <1>6, <2>1 DEF TimersOK, TimerLives
    <2>2. CASE l \in lines
        <3>1. Covered
            BY <1>1, <1>6 DEF Covered
        <3>2. CASE waiting > 0
            BY <1>1, <3>2
        <3>3. ASSUME NEW d \in ticking, d <= Expiry(l) PROVE \E u \in ticking' : u <= Expiry(l)
            <4>1. PICK u \in ticking' : u <= d
                BY <1>4, <3>3
            <4>2. u \in Nat /\ d \in Nat /\ Expiry(l) \in Nat
                BY <1>4, <2>2, <3>3, RetentionAssumption DEF TimerInv, TimersOK, LinesOK, Line, Expiry
            <4>3. QED
                BY <3>3, <4>1, <4>2
        <3>4. QED
            BY <1>6, <2>2, <3>1, <3>2, <3>3 DEF TimerInv, RawIsScheduled
    <2>3. QED
        BY <1>2, <2>1, <2>2
<1>7. RawIsScheduled'
    BY <1>6 DEF RawIsScheduled, Expiry
<1>8. QED
    BY <1>5, <1>7

LEMMA TimersStay ==
    ASSUME TimerInv, [FileNext]_fileVars
    PROVE  TimersOK' /\ RawIsScheduled'
<1>1. waiting \in Nat /\ timer \in Nat \cup {None} /\ ticking \subseteq Nat
    BY DEF TimerInv, TimersOK
<1>2. ASSUME NEW cmd \in Commands, Record(cmd) PROVE TimersOK' /\ RawIsScheduled'
    BY <1>2, AppendKeeps, RecordChecks DEF TimerInv
<1>3. ASSUME missed' = TRUE, TimersOK' PROVE TimersOK' /\ RawIsScheduled'
    BY <1>3 DEF RawIsScheduled, Covered
<1>4. CASE ListUsage
    <2>1. CASE RedactAndSchedule(timer)
        BY <1>1, <1>4, <2>1, RedactKeeps DEF ListUsage
    <2>2. CASE RedactionFails /\ UNCHANGED <<timer, ticking>>
        BY <1>3, <1>4, <2>2 DEF ListUsage, RedactionFails, TimerInv, TimersOK, TimerLives
    <2>3. QED
        BY <1>4, <2>1, <2>2 DEF ListUsage
<1>5. CASE TimerFires
    BY <1>1, <1>5 DEF TimerFires, TimerInv, TimersOK, TimerLives, RawIsScheduled
<1>6. CASE RunRedaction
    <2>1. waiting' \in Nat
        BY <1>1, <1>6 DEF RunRedaction
    <2>2. CASE RedactAndSchedule(None)
        BY <2>1, <2>2, RedactKeeps
    <2>3. CASE RedactionFails /\ timer' = None /\ UNCHANGED ticking
        BY <1>1, <1>3, <2>1, <2>3 DEF RedactionFails, TimersOK, TimerLives
    <2>4. QED
        BY <1>6, <2>2, <2>3 DEF RunRedaction
<1>7. CASE Stop
    BY <1>7 DEF Stop, TimersOK, TimerLives, RawIsScheduled, Covered
<1>8. CASE Start
    BY <1>1, <1>8, RedactKeeps DEF Start
<1>9. CASE Tick \/ UNCHANGED fileVars
    <2>1. UNCHANGED <<lines, garbled, up, timer, ticking, waiting, missed>>
        BY <1>9 DEF Tick, fileVars, timers, file
    <2>2. QED
        BY <2>1 DEF TimerInv, TimersOK, TimerLives, RawIsScheduled, Covered, Expiry
<1>10. QED
    BY <1>2, <1>4, <1>5, <1>6, <1>7, <1>8, <1>9 DEF FileNext

\* While the log runs and its last redaction succeeded, every preview it can read has a
\* timer due by its expiry, or one that has fired (usage_log.py _schedule_redaction,
\* _run_redaction), for any retention, commands and number of lines.
THEOREM PreviewsAreScheduled == FileSpec => []RawIsScheduled
<1>1. FileInit => TimerInv
    BY DEF FileInit, TimerInv, LinesOK, TimersOK, TimerLives, RawIsScheduled
<1>2. TimerInv /\ [FileNext]_fileVars => TimerInv'
    BY StepReads, TimersStay DEF TimerInv
<1>3. TimerInv => RawIsScheduled
    BY DEF TimerInv
<1>4. QED
    BY <1>1, <1>2, <1>3, PTL DEF FileSpec

-----------------------------------------------------------------------------
(***************************************************************************)
(* The metrics.  What one pass over a listing counts is well defined, for  *)
(* any listing and order (PassEnds); it is all that was recorded, when the *)
(* listing is what a store accepted, and no search is counted for two      *)
(* decisions, whatever the listing holds.                                  *)
(***************************************************************************)

\* A pass that has come to the n-th place.
PassedTo(usage, order, n, counted) ==
    /\ \A d \in counted : order[d] <= n
    /\ \A d \in Decisions(usage, order) :
          order[d] <= n => (d \in counted <=> Counts(usage, {e \in counted : order[e] < order[d]}, d))

LEMMA OrderIs ==
    ASSUME NEW usage, IsFiniteSet(usage), NEW order \in Orders(usage)
    PROVE  /\ Cardinality(Of(usage, "decision")) \in Nat
           /\ \A d \in Of(usage, "decision") : order[d] \in 1..Cardinality(Of(usage, "decision"))
           /\ \A d, e \in Of(usage, "decision") : order[d] = order[e] => d = e
<1>1. IsFiniteSet(Of(usage, "decision"))
    BY FS_Subset DEF Of
<1>2. Cardinality(Of(usage, "decision")) \in Nat
    BY <1>1, FS_CardinalityType
<1> QED BY <1>2 DEF Orders, Injection, IsInjective

\* The pass goes on by one place.
LEMMA PassGoesOn ==
    ASSUME NEW usage, IsFiniteSet(usage), NEW order \in Orders(usage), NEW n \in Nat,
           NEW counted \in SUBSET Decisions(usage, order), PassedTo(usage, order, n, counted)
    PROVE  \E more \in SUBSET Decisions(usage, order) : PassedTo(usage, order, n + 1, more)
<1> DEFINE D == Decisions(usage, order)
           Next1 == {d \in D : order[d] = n + 1 /\ Counts(usage, counted, d)}
           more == counted \cup Next1
<1>1. /\ \A d \in D : order[d] \in Int
      /\ \A d, e \in D : order[d] = order[e] => d = e
    BY OrderIs DEF Decisions
<1>2. \A d \in counted : order[d] <= n
    BY DEF PassedTo
<1>3. ASSUME NEW d \in D, order[d] <= n + 1
      PROVE  {e \in more : order[e] < order[d]} = {e \in counted : order[e] < order[d]}
    BY <1>1, <1>3
<1>4. ASSUME NEW d \in D, order[d] <= n + 1
      PROVE  d \in more <=> Counts(usage, {e \in more : order[e] < order[d]}, d)
    <2>1. CASE order[d] = n + 1
        <3>1. {e \in more : order[e] < order[d]} = counted
            BY <1>1, <1>2, <1>3, <2>1
        <3>2. d \notin counted
            BY <1>1, <1>2, <2>1
        <3> QED BY <2>1, <3>1, <3>2
    <2>2. CASE order[d] <= n
        <3>1. d \in counted <=> Counts(usage, {e \in counted : order[e] < order[d]}, d)
            BY <2>2 DEF PassedTo
        <3>2. d \notin Next1
            BY <1>1, <2>2
        <3>3. {e \in more : order[e] < order[d]} = {e \in counted : order[e] < order[d]}
            BY <1>3, <1>4
        <3> HIDE DEF Next1
        <3> QED BY <3>1, <3>2, <3>3
    <2> QED BY <1>1, <1>4, <2>1, <2>2
<1>5. \A d \in more : order[d] <= n + 1
    BY <1>1, <1>2
<1>6. more \in SUBSET D
    OBVIOUS
<1> HIDE DEF more
<1> QED BY <1>4, <1>5, <1>6 DEF PassedTo

\* There is one result of a pass to choose: it goes on to the end of the listing.
LEMMA PassEnds ==
    ASSUME NEW usage, IsFiniteSet(usage), NEW order \in Orders(usage)
    PROVE  /\ Validated(usage, order) \subseteq Decisions(usage, order)
           /\ Passes(usage, order, Validated(usage, order))
<1> DEFINE D == Decisions(usage, order)
           Reached == {n \in Nat : \E counted \in SUBSET D : PassedTo(usage, order, n, counted)}
<1>1. 0 \in Reached
    <2>1. PassedTo(usage, order, 0, {})
        BY OrderIs DEF PassedTo, Decisions
    <2> QED BY <2>1
<1>2. \A n \in Nat : n \in Reached => n + 1 \in Reached
    BY PassGoesOn
<1>3. Nat \subseteq Reached
    <2> HIDE DEF Reached
    <2> SUFFICES ASSUME Nat \ Reached # {} PROVE FALSE
        OBVIOUS
    <2>1. PICK n \in Nat \ Reached : \A m \in Nat \ Reached : n <= m
        BY MinOf
    <2>2. n # 0 /\ n - 1 \in Nat /\ n - 1 < n /\ (n - 1) + 1 = n
        BY <1>1, <2>1
    <2>3. n - 1 \in Reached
        BY <2>1, <2>2
    <2> QED BY <1>2, <2>1, <2>2, <2>3
<1> DEFINE size == Cardinality(Of(usage, "decision"))
<1>4. PICK counted \in SUBSET D : PassedTo(usage, order, size, counted)
    BY <1>3, OrderIs
<1>5. Passes(usage, order, counted)
    <2>1. \A d \in D : order[d] <= size
        BY OrderIs DEF Decisions
    <2> QED BY <1>4, <2>1 DEF PassedTo, Passes
<1> QED BY <1>5 DEF Validated

\* Records a pass counts all the decisions of.
Countable(R) ==
    /\ IsFiniteSet(R)
    /\ \A d, e \in Of(R, "decision") :
          (d.id = e.id \/ SearchIds(d) \cap SearchIds(e) # {}) => d = e
    /\ \A d \in Of(R, "decision") :
          ValidDecision(d) /\ SearchesFit(R, d) /\ UsedWereReturned(R, d)

LEMMA CountableGrows ==
    ASSUME NEW R, Countable(R), NEW cmd, Acceptable(R, cmd)
    PROVE  Countable(R \cup {cmd})
<1> DEFINE S == R \cup {cmd}
<1>1. IsFiniteSet(S)
    BY FS_AddElement DEF Countable
<1>2. Fresh(R, cmd)
    BY DEF Acceptable
<1>3. ASSUME NEW d \in Of(S, "decision"), NEW e \in Of(S, "decision"),
             d.id = e.id \/ SearchIds(d) \cap SearchIds(e) # {}
      PROVE  d = e
    <2>1. ASSUME NEW f \in Of(R, "decision"), cmd.kind = "decision"
          PROVE  f.id # cmd.id /\ SearchIds(f) \cap SearchIds(cmd) = {}
        <3>1. Unresolved(R, cmd)
            BY <2>1 DEF Acceptable
        <3> QED BY <1>2, <2>1, <3>1 DEF Fresh, Named, Of, Unresolved, Resolved
    <2>2. \A f \in Of(S, "decision") : f \in Of(R, "decision") \/ (f = cmd /\ cmd.kind = "decision")
        BY DEF Of
    <2> QED BY <1>3, <2>1, <2>2 DEF Countable
<1>4. ASSUME NEW d \in Of(S, "decision")
      PROVE  ValidDecision(d) /\ SearchesFit(S, d) /\ UsedWereReturned(S, d)
    <2>1. ValidDecision(d) /\ SearchesFit(R, d) /\ UsedWereReturned(R, d)
        BY DEF Countable, Acceptable, Valid, Of
    <2> QED BY <1>2, <2>1, SearchesStay, UsedStay
<1> QED BY <1>1, <1>3, <1>4 DEF Countable

\* What was checked when the decisions were recorded is all a pass checks.
LEMMA AllCounted ==
    ASSUME NEW R, Countable(R), NEW order \in Orders(R)
    PROVE  Validated(R, order) = Of(R, "decision")
<1> DEFINE V == Validated(R, order)
<1>1. V \subseteq Decisions(R, order) /\ Passes(R, order, V)
    BY PassEnds DEF Countable
<1>2. V \subseteq Of(R, "decision")
    BY <1>1 DEF Decisions
<1> HIDE DEF V
<1>3. ASSUME NEW d \in Of(R, "decision") PROVE d \in V
    <2> DEFINE before == {e \in V : order[e] < order[d]}
    <2>0. order[d] \in Int
        BY OrderIs DEF Countable
    <2>1. d \in Decisions(R, order)
        BY <2>0 DEF Decisions, Countable
    <2>2. \A e \in before : e \in Of(R, "decision") /\ e # d
        BY <1>2, <2>0
    <2>3. /\ ValidDecision(d) /\ SearchesFit(R, d) /\ UsedWereReturned(R, d)
          /\ \A e \in Of(R, "decision") : SearchIds(d) \cap SearchIds(e) # {} => d = e
        BY DEF Countable
    <2> HIDE DEF before
    <2>4. ASSUME NEW id \in SearchIds(d)
          PROVE  /\ \E s \in HitSearches(R) : s.id = id /\ s.client = d.client
                 /\ id \notin Resolved(before)
        <3>1. PICK s \in Named(R, "search", id) : s.client = d.client /\ s.facts # {}
            BY <2>3, <2>4 DEF SearchesFit
        <3>2. s \in HitSearches(R) /\ s.id = id
            BY <3>1 DEF HitSearches, Named
        <3>3. id \notin Resolved(before)
            BY <2>2, <2>3, <2>4 DEF Resolved, Of
        <3> QED BY <3>1, <3>2, <3>3
    <2>5. d.used \subseteq ReturnedBy(R, SearchIds(d))
        BY <2>3 DEF UsedWereReturned, ReturnedBy, HitSearches
    <2>6. Counts(R, before, d)
        BY <2>3, <2>4, <2>5 DEF Counts
    <2> QED BY <1>1, <2>1, <2>6 DEF Passes, before
<1> QED BY <1>2, <1>3 DEF V

\* No search is counted for two decisions, and each returned what its decision used.
LEMMA UsedInOneSearch ==
    ASSUME NEW usage, IsFiniteSet(usage), NEW order \in Orders(usage), NEW fact
    PROVE  UsedDecisions(usage, order, fact) <= ReturnedSearches(usage, fact)
<1> DEFINE V == Validated(usage, order)
           D == {d \in V : fact \in d.used}
           S == {s \in HitSearches(usage) : fact \in s.facts}
           f == [d \in D |-> CHOOSE s \in S : s.id \in SearchIds(d)]
<1>1. V \subseteq Decisions(usage, order) /\ Passes(usage, order, V)
    BY PassEnds
<1>2. ASSUME NEW d \in V
      PROVE  /\ d \in Of(usage, "decision") /\ order[d] \in Int
             /\ Counts(usage, {e \in V : order[e] < order[d]}, d)
    BY <1>1, OrderIs DEF Passes, Decisions
<1>3. \A d, e \in V : order[d] = order[e] => d = e
    BY <1>2, OrderIs
<1> HIDE DEF V
<1>4. ASSUME NEW d \in V, NEW e \in V, d # e PROVE SearchIds(d) \cap SearchIds(e) = {}
    <2>1. ASSUME NEW a \in V, NEW b \in V, order[a] < order[b] PROVE SearchIds(a) \cap SearchIds(b) = {}
        <3>1. a \in Of({c \in V : order[c] < order[b]}, "decision")
            BY <1>2, <2>1 DEF Of
        <3>2. SearchIds(a) \subseteq Resolved({c \in V : order[c] < order[b]})
            BY <3>1 DEF Resolved
        <3> QED BY <1>2, <3>2 DEF Counts
    <2>2. order[d] < order[e] \/ order[e] < order[d]
        <3>1. order[d] \in Int /\ order[e] \in Int /\ order[d] # order[e]
            BY <1>2, <1>3, <1>4, Zenon
        <3> QED BY <3>1
    <2> QED BY <2>1, <2>2
<1>5. ASSUME NEW d \in D PROVE f[d] \in S /\ f[d].id \in SearchIds(d)
    <2>1. d.used \subseteq ReturnedBy(usage, SearchIds(d))
        BY <1>2 DEF Counts
    <2>2. \E s \in S : s.id \in SearchIds(d)
        BY <2>1 DEF ReturnedBy
    <2> QED BY <2>2
<1>6. f \in Injection(D, S)
    <2>1. f \in [D -> S]
        BY <1>5
    <2>2. \A d, e \in D : f[d] = f[e] => d = e
        <3> HIDE DEF f
        <3> QED BY <1>4, <1>5
    <2> HIDE DEF f, D, S
    <2> QED BY <2>1, <2>2 DEF Injection, IsInjective
<1>7. IsFiniteSet(S)
    BY FS_Subset DEF HitSearches, Of
<1>8. Cardinality(D) <= Cardinality(S)
    <2> HIDE DEF f, D, S
    <2> QED BY <1>6, <1>7, FS_Injection
<1> QED BY <1>8 DEF UsedDecisions, ReturnedSearches, V

-----------------------------------------------------------------------------
(***************************************************************************)
(* What is proved of each part holds of the whole: a step of the whole is  *)
(* a step of one part and leaves the others alone.                         *)
(***************************************************************************)

LEMMA RunsEachPart == Spec => DatabaseSpec /\ FileSpec /\ ReadingSpec
<1>1. Init => DatabaseInit /\ FileInit /\ ReadingInit
    BY DEF Init
<1>2. [Next]_vars => [DatabaseNext]_databaseVars
    BY DEF Next, OfPostgres, OfFile, OfReading, vars
<1>3. [Next]_vars => [FileNext]_fileVars
    BY DEF Next, OfPostgres, OfFile, OfReading, vars
<1>4. [Next]_vars => [ReadingNext]_readingVars
    BY DEF Next, OfPostgres, OfFile, OfReading, vars
<1>5. QED
    BY <1>1, <1>2, <1>3, <1>4, PTL DEF Spec, DatabaseSpec, FileSpec, ReadingSpec

\* Nobody is told anything untrue of its record by the PostgreSQL store: "recorded" and
\* "replayed" mean it is kept, "conflict" that its id or one of its searches is another's
\* (postgres/telemetry.py), for any commands, callers and faults.
THEOREM NobodyIsMisled == Spec => []AnswersAreTrue
BY RunsEachPart, AnswersHold, PTL

\* Both backends keep the contract of telemetry.py, for any commands, callers, retention
\* and faults: each record that becomes visible fits those already there, and none goes.
THEOREM BackendsKeepContract == Spec => ContractKept
BY RunsEachPart, PostgresKeepsContract, LogKeepsContract, PTL DEF ContractKept

\* While the JSONL log runs and its last redaction succeeded, every preview it can read
\* has a timer due by its expiry, or one that has fired (usage_log.py
\* _schedule_redaction, _run_redaction), for any retention, commands and faults.
THEOREM PreviewsHaveTimers == Spec => []RawIsScheduled
BY RunsEachPart, PreviewsAreScheduled, PTL

\* A complete listing shows no search or decision without its intent and no completion
\* without its attempt (postgres/telemetry.py list_usage), for any commands, any number
\* of callers and any hand-edited records beside them.
THEOREM DashboardListsClosed == Spec => []ListedIsClosed
BY RunsEachPart, ListingsAreClosed, PTL

\* Of what either backend holds, and whatever order the listing is in, the dashboard
\* counts every recorded decision and no other: _validated_decisions (metrics.py)
\* refuses nothing that record_decision accepted.
THEOREM DecisionsAreCounted == Spec => []CountedAsRecorded
<1> DEFINE AllCountable == Countable(stored) /\ Countable(Readable) /\ Countable(accepted)
<1>1. Countable({})
    BY FS_EmptySet DEF Countable, Of
<1>2. Init => AllCountable
    <2>1. ASSUME Init PROVE stored = {} /\ Readable = {} /\ accepted = {}
        BY <2>1 DEF Init, DatabaseInit, FileInit, ReadingInit, ContractInit, Readable
    <2> QED BY <1>1, <2>1
<1>3. AllCountable /\ [DatabaseContract!ContractNext]_stored => Countable(stored)'
    BY CountableGrows, SameDatabaseRules DEF DatabaseContract!ContractNext, DatabaseContract!Accept
<1>4. AllCountable /\ [garbled \/ garbled' \/ FileContract!ContractNext]_Readable /\ (garbled => garbled')
        => Countable(Readable)'
    <2> SUFFICES ASSUME AllCountable, [garbled \/ garbled' \/ FileContract!ContractNext]_Readable,
                        garbled => garbled'
                 PROVE  Countable(Readable)'
        OBVIOUS
    <2>1. CASE garbled'
        <3>1. Readable' = {}
            BY <2>1 DEF Readable
        <3> QED BY <1>1, <3>1
    <2>2. CASE ~garbled' /\ FileContract!ContractNext
        BY <2>2, CountableGrows, SameFileRules DEF FileContract!ContractNext, FileContract!Accept
    <2>3. CASE UNCHANGED Readable
        BY <2>3
    <2> QED BY <2>1, <2>2, <2>3
<1>5. [FileNext]_fileVars => (garbled => garbled')
    BY DEF FileNext, fileVars, file, Record, RecordSearch, RecordIntent, RecordDecision, RecordAction,
           AppendLine, Written, WrittenShort, ListUsage, RedactAndSchedule, RedactionFails,
           TimerFires, RunRedaction, Stop, Start, Tick
<1>6. AllCountable /\ [ReadingNext]_readingVars => Countable(accepted)'
    BY CountableGrows DEF ReadingNext, ContractNext, Accept, Select, ListAgain, readingVars
<1>7. AllCountable => CountedAsRecorded
    BY AllCounted DEF CountedAsRecorded, Records
<1>8. AllCountable /\ [DatabaseContract!ContractNext]_stored
      /\ [garbled \/ garbled' \/ FileContract!ContractNext]_Readable
      /\ [FileNext]_fileVars /\ [ReadingNext]_readingVars
        => AllCountable'
    BY <1>3, <1>4, <1>5, <1>6
<1>9. Spec => Init /\ DatabaseKeepsContract /\ FileKeepsContract
                   /\ [][FileNext]_fileVars /\ [][ReadingNext]_readingVars
    BY RunsEachPart, PostgresKeepsContract, LogKeepsContract, PTL DEF Spec, FileSpec, ReadingSpec
<1> HIDE DEF AllCountable
<1> QED BY <1>2, <1>7, <1>8, <1>9, PTL DEF DatabaseKeepsContract, FileKeepsContract

\* No rate of the dashboard's contribution table exceeds one, in whatever order equal
\* timestamps leave the listing, half way through its statements, and whatever was
\* edited by hand in it (metrics.py _contribution_stats).
THEOREM RatesNeverExceedOne == Spec => []RatesAreRates
<1> DEFINE Finite == IsFiniteSet(accepted) /\ IsFiniteSet(listed)
<1>1. ReadingInit => Finite
    BY EditedAssumption, FS_EmptySet, FS_Subset DEF ReadingInit, ContractInit
<1>2. Finite /\ [ReadingNext]_readingVars => Finite'
    <2> SUFFICES ASSUME Finite, [ReadingNext]_readingVars PROVE Finite'
        OBVIOUS
    <2>1. CASE ContractNext /\ UNCHANGED <<listed, statements>>
        BY <2>1, FS_AddElement DEF ContractNext, Accept
    <2>2. CASE Select
        <3>1. IsFiniteSet(Of(accepted, Tables[statements + 1]))
            BY FS_Subset DEF Of
        <3> QED BY <2>2, <3>1, FS_Union DEF Select
    <2>3. CASE ListAgain
        BY <2>3, EditedAssumption, FS_Subset DEF ListAgain
    <2>4. CASE UNCHANGED readingVars
        BY <2>4 DEF readingVars
    <2> QED BY <2>1, <2>2, <2>3, <2>4 DEF ReadingNext
<1>3. Finite => RatesAreRates
    BY UsedInOneSearch DEF RatesAreRates
<1> QED BY <1>1, <1>2, <1>3, RunsEachPart, PTL DEF ReadingSpec
=============================================================================
