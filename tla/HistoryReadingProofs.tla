------------------------ MODULE HistoryReadingProofs ------------------------
(***************************************************************************)
(* What the answers of HistoryReading may be relied on for, whatever the   *)
(* writers commit between their statements, for any keys and requests.     *)
(*                                                                         *)
(* Each answer rests on the order of its statements and on what of the     *)
(* ledger only moves one way: the version of a head grows, an invalidated  *)
(* fact stays so, and a successor is a fact nobody had seen before, so     *)
(* that the facts an existing fact superseded are settled.                 *)
(***************************************************************************)
EXTENDS HistoryReading, FactLedgerProofs, SequenceTheorems

\* The statements of a call still to be run, in every position it can be in.
HistoryRest ==
    {<<"head", "revisions", "supersedes", "superseded_by", "get">>,
     <<"revisions", "supersedes", "superseded_by", "get">>,
     <<"supersedes", "superseded_by", "get">>, <<"superseded_by", "get">>, <<"get">>, <<>>}

DetailRest ==
    {<<"get", "head", "revisions", "supersedes", "superseded_by">>,
     <<"head", "revisions", "supersedes", "superseded_by">>,
     <<"revisions", "supersedes", "superseded_by">>,
     <<"supersedes", "superseded_by">>, <<"superseded_by">>, <<>>}

Rest == IF call = "history" THEN HistoryRest ELSE DetailRest

Ahead(statements) == {statements[i] : i \in 1..Len(statements)}

Statements == {"head", "revisions", "supersedes", "superseded_by", "get"}

Supersedes(f) == {g \in Key : f \in successor[g]}
VersionsOf(rows) == {r.row.version : r \in rows}

\* What the answer holds so far is what the statements run so far entitle it to.
AnswerFits(f) ==
    /\ answer.current \in 0..head[f].version
    /\ "revisions" \notin Ahead(todo) => 1..answer.current \subseteq VersionsOf(answer.revisions)
    /\ "supersedes" \notin Ahead(todo) => answer.supersedes = Supersedes(f)
    /\ answer.superseded_by # {} =>
          /\ head[f].status = "invalidated"
          /\ call = "history" /\ "get" \notin Ahead(todo) => answer.record.status = "invalidated"

Answer == [current : {0} \cup Version, revisions : SUBSET Revision, supersedes : SUBSET Key,
           superseded_by : SUBSET Key, record : HeadRow,
           hits : SUBSET [fact : Key, row : HeadRow]]

AskInv ==
    call \in {"history", "detail"} =>
        /\ todo \in Rest
        /\ \E f \in Key : fact = {f} /\ head[f].version > 0 /\ AnswerFits(f)

\* Every hit is the head its fact had at one moment, and no successor has been
\* among the hits: a successor is created after that moment.
HitsFit ==
    \A a, b \in answer.hits :
        /\ head[a.fact].version > 0
        /\ a.row.status = "active" => b.fact \notin successor[a.fact]
        /\ a.fact = b.fact => a = b

SearchInv ==
    call = "search" =>
        \/ todo = <<>> /\ HitsFit
        \/ /\ Len(todo) = 1
           /\ todo = <<todo[1]>>
           /\ todo[1] \subseteq [fact : Key, row : HeadRow]
           /\ \A c \in todo[1] : head[c.fact].version > 0

ReaderTyped ==
    /\ call \in {"none", "history", "detail", "search"}
    /\ call = "none" => todo = <<>>
    /\ answer \in Answer

Ledger == Shapes /\ HeadIsLastRevision /\ SupersededOnce

ReaderInv == ReaderTyped /\ AskInv /\ SearchInv

-----------------------------------------------------------------------------
(* The statements of a call                                                *)

LEMMA Joined ==
    ASSUME NEW S, NEW s \in Seq(S), NEW t \in Seq(S), NEW r \in Seq(S),
           Len(r) = Len(s) + Len(t),
           \A i \in 1..Len(s) : r[i] = s[i],
           \A i \in 1..Len(t) : r[Len(s) + i] = t[i]
    PROVE  s \o t = r
<1>1. /\ s \o t \in Seq(S) /\ Len(s \o t) = Len(s) + Len(t)
      /\ \A i \in 1..Len(s) + Len(t) :
            (s \o t)[i] = IF i <= Len(s) THEN s[i] ELSE t[i - Len(s)]
    BY ConcatProperties, Zenon
<1>2. ASSUME NEW i \in 1..Len(s \o t) PROVE (s \o t)[i] = r[i]
    <2>1. Len(s) \in Nat /\ Len(t) \in Nat /\ i \in 1..(Len(s) + Len(t))
        BY <1>1
    <2>2. CASE i <= Len(s)
        BY <1>1, <2>1, <2>2
    <2>3. CASE ~(i <= Len(s))
        <3>1. i - Len(s) \in 1..Len(t) /\ Len(s) + (i - Len(s)) = i
            BY <2>1, <2>3
        <3>2. QED
            BY <1>1, <2>1, <2>3, <3>1
    <2>4. QED
        BY <2>2, <2>3
<1>3. QED
    BY <1>1, <1>2, SeqEqual, Zenon

LEMMA CallsAre ==
    /\ HistoryCall = <<"head", "revisions", "supersedes", "superseded_by", "get">>
    /\ DetailCall = <<"get", "head", "revisions", "supersedes", "superseded_by">>
<1> DEFINE get == <<"get">>
           history == <<"head", "revisions", "supersedes", "superseded_by", "get">>
           detail == <<"get", "head", "revisions", "supersedes", "superseded_by">>
<1>1. /\ HistoryStatements \in Seq(Statements) /\ get \in Seq(Statements)
      /\ history \in Seq(Statements) /\ detail \in Seq(Statements)
    BY DEF HistoryStatements, Statements
<1>2. Len(HistoryStatements) = 4 /\ Len(get) = 1 /\ Len(history) = 5 /\ Len(detail) = 5
    BY DEF HistoryStatements
<1>3. /\ \A i \in 1..4 : history[i] = HistoryStatements[i] /\ detail[1 + i] = HistoryStatements[i]
      /\ \A i \in 1..1 : history[4 + i] = get[i] /\ detail[i] = get[i]
    BY DEF HistoryStatements
<1> HIDE DEF get, history, detail
<1>4. /\ Len(history) = Len(HistoryStatements) + Len(get)
      /\ Len(detail) = Len(get) + Len(HistoryStatements)
      /\ \A i \in 1..Len(HistoryStatements) :
            history[i] = HistoryStatements[i] /\ detail[Len(get) + i] = HistoryStatements[i]
      /\ \A i \in 1..Len(get) : history[Len(HistoryStatements) + i] = get[i] /\ detail[i] = get[i]
    BY <1>2, <1>3
<1>5. HistoryStatements \o get = history
    BY <1>1, <1>4, Joined, Zenon
<1>6. get \o HistoryStatements = detail
    BY <1>1, <1>4, Joined, Zenon
<1>7. QED
    BY <1>5, <1>6 DEF HistoryCall, DetailCall, get, history, detail

\* Running the first statement leaves the others, in the order of the call; the head is
\* read before the revisions, and in tool_history the relations before the status.
LEMMA HistoryMoves ==
    ASSUME NEW t \in HistoryRest, t # <<>>
    PROVE  /\ Tail(t) \in HistoryRest /\ t[1] \in Statements
           /\ Ahead(t) \subseteq Ahead(Tail(t)) \cup {t[1]}
           /\ t[1] = "head" => "revisions" \in Ahead(Tail(t))
           /\ t[1] = "superseded_by" => "get" \in Ahead(Tail(t))
<1>1. CASE t = <<"head", "revisions", "supersedes", "superseded_by", "get">>
    BY <1>1 DEF HistoryRest, Ahead, Statements
<1>2. CASE t = <<"revisions", "supersedes", "superseded_by", "get">>
    BY <1>2 DEF HistoryRest, Ahead, Statements
<1>3. CASE t = <<"supersedes", "superseded_by", "get">>
    BY <1>3 DEF HistoryRest, Ahead, Statements
<1>4. CASE t = <<"superseded_by", "get">>
    BY <1>4 DEF HistoryRest, Ahead, Statements
<1>5. CASE t = <<"get">>
    BY <1>5 DEF HistoryRest, Ahead, Statements
<1>6. QED
    BY <1>1, <1>2, <1>3, <1>4, <1>5 DEF HistoryRest

LEMMA DetailMoves ==
    ASSUME NEW t \in DetailRest, t # <<>>
    PROVE  /\ Tail(t) \in DetailRest /\ t[1] \in Statements
           /\ Ahead(t) \subseteq Ahead(Tail(t)) \cup {t[1]}
           /\ t[1] = "head" => "revisions" \in Ahead(Tail(t))
<1>1. CASE t = <<"get", "head", "revisions", "supersedes", "superseded_by">>
    BY <1>1 DEF DetailRest, Ahead, Statements
<1>2. CASE t = <<"head", "revisions", "supersedes", "superseded_by">>
    BY <1>2 DEF DetailRest, Ahead, Statements
<1>3. CASE t = <<"revisions", "supersedes", "superseded_by">>
    BY <1>3 DEF DetailRest, Ahead, Statements
<1>4. CASE t = <<"supersedes", "superseded_by">>
    BY <1>4 DEF DetailRest, Ahead, Statements
<1>5. CASE t = <<"superseded_by">>
    BY <1>5 DEF DetailRest, Ahead, Statements
<1>6. QED
    BY <1>1, <1>2, <1>3, <1>4, <1>5 DEF DetailRest

\* Once every statement has run, none is ahead; before the first, all are.
LEMMA AheadAtTheEnds ==
    /\ \A s \in Statements : s \notin Ahead(<<>>)
    /\ HistoryCall \in HistoryRest /\ DetailCall \in DetailRest
    /\ {"revisions", "supersedes", "get"} \subseteq Ahead(HistoryCall)
    /\ {"revisions", "supersedes", "get"} \subseteq Ahead(DetailCall)
<1>1. \A s \in Statements : s \notin Ahead(<<>>)
    BY DEF Ahead
<1>2. HistoryCall \in HistoryRest /\ DetailCall \in DetailRest
    BY CallsAre DEF HistoryRest, DetailRest
<1>3. {"revisions", "supersedes", "get"} \subseteq Ahead(HistoryCall)
    BY CallsAre DEF Ahead
<1>4. {"revisions", "supersedes", "get"} \subseteq Ahead(DetailCall)
    BY CallsAre DEF Ahead
<1>5. QED
    BY <1>1, <1>2, <1>3, <1>4

-----------------------------------------------------------------------------
(* What of the ledger only moves one way                                   *)

LEMMA LedgerMovesOn ==
    ASSUME Ledger, LedgerNext, NEW f \in Key
    PROVE  /\ head[f].version \in Nat /\ head'[f].version \in Nat
           /\ head[f].version <= head'[f].version
           /\ head[f].status = "invalidated" => head'[f].status = "invalidated"
           /\ head[f].version > 0 =>
                 \A g \in Key : f \in successor'[g] <=> f \in successor[g]
<1>1. PICK q \in Request : Step(q)
    BY StepsKnown DEF Ledger
<1>2. /\ q.key \in Key /\ q.facts \subseteq Key
      /\ head[f].version \in {0, 1, 2, 3}
    BY RequestFields, HeadFields DEF Ledger, Shapes
<1>3. /\ head[f].version <= head'[f].version
      /\ head[f].status = "invalidated" => head'[f].status = "invalidated"
    <2>1. CASE UNCHANGED <<head, revisions>>
        BY <1>2, <2>1
    <2>2. ASSUME NEW F, Writes(F, q.key)
          PROVE  /\ head[f].version <= head'[f].version
                 /\ head[f].status = "invalidated" => head'[f].status = "invalidated"
        <3>1. CASE f \notin F
            BY <1>2, <2>2, <3>1 DEF Writes
        <3>2. CASE f \in F
            <4>1. \/ Born(head[f], head'[f]) \/ Raised(head[f], head'[f])
                  \/ Ended(head[f], head'[f])
                BY <2>2, <3>2 DEF Writes
            <4>2. head'[f].version = head[f].version + 1
                BY <4>1, MovesKeepShape DEF Ledger
            <4>3. head[f].status # "invalidated"
                BY <4>1 DEF Born, Raised, Ended, NoHead
            <4>4. QED
                BY <1>2, <4>2, <4>3
        <3>3. QED
            BY <3>1, <3>2
    <2>3. QED
        BY <1>1, <2>1, <2>2, StepWrites DEF Ledger
<1>4. ASSUME head[f].version > 0, NEW g \in Key
      PROVE  f \in successor'[g] <=> f \in successor[g]
    <2>1. CASE UNCHANGED successor
        BY <2>1
    <2>2. CASE q.op = "create"
        <3>1. successor' = [h \in Key |-> IF h \in q.facts THEN successor[h] \cup {q.key}
                                                          ELSE successor[h]]
            BY <1>1, <2>2 DEF Step
        <3>2. head[q.key].version = 0
            BY <1>1, <2>2 DEF Step, Fresh
        <3>3. f # q.key
            BY <1>4, <3>2
        <3>4. QED
            BY <3>1, <3>3
    <2>3. QED
        BY <1>1, <2>1, <2>2 DEF Step
<1>5. head'[f].version \in Nat
    BY <1>1, StepTyped DEF Ledger, LedgerTypeOK, HeadRow, Version
<1>6. QED
    BY <1>2, <1>3, <1>4, <1>5

-----------------------------------------------------------------------------
(* Every step of the reader and of the writers keeps what answers rest on  *)

LEMMA EmptyAnswer == NoAnswer \in Answer
BY DEF NoAnswer, Answer, NoHead, HeadRow, Status, Space

\* What the heads and relations say of facts that exist.
LEMMA LedgerSays ==
    ASSUME Ledger, NEW f \in Key
    PROVE  /\ head[f] \in HeadRow /\ head[f].version \in {0} \cup Version
           /\ successor[f] \subseteq Key /\ RevisionsOf(f) \subseteq Revision
           /\ VersionsOf(RevisionsOf(f)) = 1..head[f].version
           /\ \A g \in successor[f] : head[f].status = "invalidated"
<1>1. head[f] \in HeadRow /\ head[f].version \in {0} \cup Version
    BY DEF Ledger, Shapes, LedgerTypeOK, HeadRow
<1>2. successor[f] \subseteq Key /\ RevisionsOf(f) \subseteq Revision
    BY DEF Ledger, Shapes, LedgerTypeOK, RevisionsOf
<1>3. VersionsOf(RevisionsOf(f)) = 1..head[f].version
    BY DEF Ledger, HeadIsLastRevision, VersionsOf
<1>4. \A g \in successor[f] : head[f].status = "invalidated"
    BY DEF Ledger, SupersededOnce
<1>5. QED
    BY <1>1, <1>2, <1>3, <1>4

\* A revision is one of a fact that exists.
LEMMA RevisedExist ==
    ASSUME Ledger, NEW r \in revisions
    PROVE  r.fact \in Key /\ r.row \in HeadRow /\ head[r.fact].version > 0
<1>1. r.fact \in Key /\ r.row \in HeadRow
    BY DEF Ledger, Shapes, LedgerTypeOK, Revision
<1>2. r.row.version \in VersionsOf(RevisionsOf(r.fact))
    BY DEF VersionsOf, RevisionsOf
<1>3. r.row.version \in 1..head[r.fact].version /\ head[r.fact].version \in {0} \cup Version
    BY <1>1, <1>2, LedgerSays
<1>4. QED
    BY <1>1, <1>3 DEF Version

LEMMA WritersKeep ==
    ASSUME Ledger, ReaderInv, LedgerNext, UNCHANGED readerVars
    PROVE  ReaderInv'
<1>1. call' = call /\ fact' = fact /\ todo' = todo /\ answer' = answer
    BY DEF readerVars
<1>2. ReaderTyped'
    BY <1>1 DEF ReaderInv, ReaderTyped
<1>3. AskInv'
    <2> SUFFICES ASSUME call \in {"history", "detail"}
                 PROVE  /\ (todo \in Rest)'
                        /\ \E f \in Key : (fact = {f} /\ head[f].version > 0 /\ AnswerFits(f))'
        BY <1>1 DEF AskInv
    <2>1. todo \in Rest /\ (todo \in Rest)'
        BY <1>1 DEF ReaderInv, AskInv, Rest
    <2>2. PICK f \in Key : fact = {f} /\ head[f].version > 0 /\ AnswerFits(f)
        BY DEF ReaderInv, AskInv
    <2>3. /\ head[f].version \in Nat /\ head'[f].version \in Nat
          /\ head[f].version <= head'[f].version
          /\ head[f].status = "invalidated" => head'[f].status = "invalidated"
          /\ Supersedes(f)' = Supersedes(f)
        BY <2>2, LedgerMovesOn DEF Supersedes
    <2>4. answer.current \in 0..head'[f].version /\ head'[f].version > 0
        BY <2>2, <2>3 DEF AnswerFits
    <2>5. AnswerFits(f)'
        BY <1>1, <2>2, <2>3, <2>4 DEF AnswerFits
    <2>6. QED
        BY <1>1, <2>1, <2>2, <2>4, <2>5
<1>4. SearchInv'
    <2> SUFFICES ASSUME call = "search" PROVE SearchInv'
        BY <1>1 DEF SearchInv
    <2>1. \A f \in Key : head[f].version > 0 => head'[f].version > 0
        BY LedgerMovesOn
    <2>2. CASE todo = <<>> /\ HitsFit
        <3>1. answer.hits \subseteq [fact : Key, row : HeadRow]
            BY DEF ReaderInv, ReaderTyped, Answer
        <3>2. ASSUME NEW a \in answer.hits, NEW b \in answer.hits
              PROVE  /\ head'[a.fact].version > 0
                     /\ a.row.status = "active" => b.fact \notin successor'[a.fact]
                     /\ a.fact = b.fact => a = b
            <4>1. a.fact \in Key /\ b.fact \in Key
                BY <3>1, <3>2
            <4>2. /\ head[a.fact].version > 0 /\ head[b.fact].version > 0
                  /\ a.row.status = "active" => b.fact \notin successor[a.fact]
                  /\ a.fact = b.fact => a = b
                BY <2>2 DEF HitsFit
            <4>3. b.fact \in successor'[a.fact] <=> b.fact \in successor[a.fact]
                BY <4>1, <4>2, LedgerMovesOn
            <4>4. QED
                BY <2>1, <4>1, <4>2, <4>3
        <3>3. HitsFit'
            BY <1>1, <3>2 DEF HitsFit
        <3>4. QED
            BY <1>1, <2>2, <3>3 DEF SearchInv
    <2>3. CASE todo # <<>> \/ ~HitsFit
        <3>1. /\ Len(todo) = 1 /\ todo = <<todo[1]>>
              /\ todo[1] \subseteq [fact : Key, row : HeadRow]
              /\ \A c \in todo[1] : head[c.fact].version > 0
            BY <2>3 DEF ReaderInv, SearchInv
        <3>2. \A c \in todo[1] : c.fact \in Key
            BY <3>1
        <3>3. \A c \in todo[1] : head'[c.fact].version > 0
            BY <2>1, <3>1, <3>2
        <3>4. QED
            BY <1>1, <3>1, <3>3 DEF SearchInv
    <2>4. QED
        BY <2>2, <2>3
<1>5. QED
    BY <1>2, <1>3, <1>4 DEF ReaderInv

LEMMA AskKeeps ==
    ASSUME Ledger, ReaderInv, NEW f \in Key, NEW c \in {"history", "detail"}, Ask(f, c)
    PROVE  ReaderInv'
<1>1. /\ call' = c /\ fact' = {f} /\ answer' = NoAnswer
      /\ todo' = IF c = "history" THEN HistoryCall ELSE DetailCall
      /\ head' = head /\ head[f].version > 0
    BY DEF Ask, ledgerVars
<1>2. ReaderTyped'
    BY <1>1, EmptyAnswer DEF ReaderTyped
<1>3. todo' \in Rest' /\ {"revisions", "supersedes", "get"} \subseteq Ahead(todo')
    BY <1>1, AheadAtTheEnds DEF Rest
<1>4. head[f].version \in {0} \cup Version
    BY LedgerSays
<1>5. AnswerFits(f)'
    <2>1. /\ NoAnswer.current = 0 /\ NoAnswer.superseded_by = {}
          /\ 0 \in 0..head[f].version
        BY <1>1, <1>4 DEF NoAnswer, Version
    <2>2. QED
        BY <1>1, <1>3, <2>1 DEF AnswerFits
<1>6. AskInv'
    BY <1>1, <1>3, <1>5 DEF AskInv
<1>7. SearchInv'
    BY <1>1 DEF SearchInv
<1>8. QED
    BY <1>2, <1>6, <1>7 DEF ReaderInv

LEMMA SearchKeeps ==
    ASSUME Ledger, ReaderInv, NEW candidates \in SUBSET revisions, NEW sought \in Sought,
           Search(candidates, sought)
    PROVE  ReaderInv'
<1> DEFINE named == {[fact |-> r.fact, row |-> r.row] : r \in candidates}
<1>1. call' = "search" /\ answer' = NoAnswer /\ todo' = <<named>> /\ head' = head
    BY DEF Search, ledgerVars
<1>2. ReaderTyped' /\ AskInv'
    BY <1>1, EmptyAnswer DEF ReaderTyped, AskInv
<1>3. named \subseteq [fact : Key, row : HeadRow] /\ \A c \in named : head[c.fact].version > 0
    BY RevisedExist
<1> HIDE DEF named
<1>4. Len(<<named>>) = 1 /\ <<named>>[1] = named
    OBVIOUS
<1>5. SearchInv'
    BY <1>1, <1>3, <1>4 DEF SearchInv
<1>6. QED
    BY <1>2, <1>5 DEF ReaderInv

\* The hits are heads of one moment: an active one has no successor then.
LEMMA RehydrateKeeps ==
    ASSUME Ledger, ReaderInv, Rehydrate
    PROVE  ReaderInv'
<1> DEFINE hits == {h \in {Rehydrated(c) : c \in todo[1]} : Visible(h.row, fact)}
<1>1. /\ call = "search" /\ todo # <<>> /\ todo' = <<>> /\ call' = call
      /\ answer' = [answer EXCEPT !.hits = hits]
      /\ head' = head /\ successor' = successor
    BY DEF Rehydrate, ledgerVars
<1>2. todo[1] \subseteq [fact : Key, row : HeadRow] /\ \A c \in todo[1] : head[c.fact].version > 0
    BY <1>1 DEF ReaderInv, SearchInv
<1>3. ASSUME NEW h \in hits
      PROVE  h.fact \in Key /\ h = [fact |-> h.fact, row |-> head[h.fact]] /\ head[h.fact].version > 0
    <2>1. PICK c \in todo[1] : h = [fact |-> c.fact, row |-> head[c.fact]]
        BY DEF Rehydrated
    <2>2. c.fact \in Key
        BY <1>2
    <2>3. QED
        BY <1>2, <2>1, <2>2
<1> HIDE DEF hits
<1>4. hits \subseteq [fact : Key, row : HeadRow]
    BY <1>3, LedgerSays
<1>5. answer' \in Answer /\ answer'.hits = hits
    BY <1>1, <1>4 DEF ReaderInv, ReaderTyped, Answer
<1>6. ReaderTyped' /\ AskInv'
    BY <1>1, <1>5 DEF ReaderTyped, AskInv
<1>7. ASSUME NEW a \in hits, NEW b \in hits
      PROVE  /\ head[a.fact].version > 0
             /\ a.row.status = "active" => b.fact \notin successor[a.fact]
             /\ a.fact = b.fact => a = b
    <2>1. a.fact \in Key /\ a.row = head[a.fact] /\ head[a.fact].version > 0
        BY <1>3
    <2>2. a.row.status = "active" => b.fact \notin successor[a.fact]
        BY <2>1, LedgerSays
    <2>3. a.fact = b.fact => a = b
        BY <1>3
    <2>4. QED
        BY <2>1, <2>2, <2>3
<1>8. HitsFit'
    BY <1>1, <1>5, <1>7 DEF HitsFit
<1>9. SearchInv'
    BY <1>1, <1>8 DEF SearchInv
<1>10. QED
    BY <1>6, <1>9 DEF ReaderInv

LEMMA RunStatementKeeps ==
    ASSUME Ledger, ReaderInv, RunStatement
    PROVE  ReaderInv'
<1>1. /\ call \in {"history", "detail"} /\ todo # <<>>
      /\ call' = call /\ fact' = fact /\ todo' = Tail(todo)
      /\ head' = head /\ successor' = successor
    BY DEF RunStatement, ledgerVars, ReaderInv, ReaderTyped
<1>2. PICK f \in Key : fact = {f} /\ head[f].version > 0 /\ AnswerFits(f)
    BY <1>1 DEF ReaderInv, AskInv
<1> DEFINE s == todo[1]
<1>3. answer' = Returned(f, s) /\ answer \in Answer
    BY <1>2 DEF RunStatement, ReaderInv, ReaderTyped
<1>4. /\ Tail(todo) \in Rest /\ s \in Statements
      /\ Ahead(todo) \subseteq Ahead(Tail(todo)) \cup {s}
      /\ s = "head" => "revisions" \in Ahead(Tail(todo))
      /\ call = "history" /\ s = "superseded_by" => "get" \in Ahead(Tail(todo))
    <2>1. todo \in Rest
        BY <1>1 DEF ReaderInv, AskInv
    <2>2. QED
        BY <1>1, <2>1, HistoryMoves, DetailMoves DEF Rest
<1> HIDE DEF s
<1>5. /\ head[f] \in HeadRow /\ head[f].version \in {0} \cup Version
      /\ successor[f] \subseteq Key /\ RevisionsOf(f) \subseteq Revision
      /\ VersionsOf(RevisionsOf(f)) = 1..head[f].version
      /\ successor[f] # {} => head[f].status = "invalidated"
    BY LedgerSays
<1>6. (todo \in Rest)'
    BY <1>1, <1>4 DEF Rest
<1>7. ASSUME answer' \in Answer, AnswerFits(f)' PROVE ReaderInv'
    <2>1. ReaderTyped' /\ SearchInv'
        BY <1>1, <1>7 DEF ReaderTyped, SearchInv
    <2>2. AskInv'
        BY <1>1, <1>2, <1>6, <1>7 DEF AskInv
    <2>3. QED
        BY <2>1, <2>2 DEF ReaderInv
<1>8. CASE s = "head"
    <2>1. answer' = [answer EXCEPT !.current = head[f].version]
        BY <1>3, <1>8 DEF Returned
    <2>2. answer' \in Answer
        BY <1>3, <1>5, <2>1 DEF Answer
    <2>3. /\ answer'.current = head[f].version /\ answer'.supersedes = answer.supersedes
          /\ answer'.superseded_by = answer.superseded_by /\ answer'.record = answer.record
        BY <1>3, <2>1 DEF Answer
    <2>4. head[f].version \in 0..head[f].version
        BY <1>5 DEF Version
    <2>5. AnswerFits(f)'
        BY <1>1, <1>2, <1>4, <1>8, <2>3, <2>4 DEF AnswerFits, Supersedes
    <2>6. QED
        BY <1>7, <2>2, <2>5
<1>9. CASE s = "revisions"
    <2>1. answer' = [answer EXCEPT !.revisions = RevisionsOf(f)]
        BY <1>3, <1>9 DEF Returned
    <2>2. answer' \in Answer
        BY <1>3, <1>5, <2>1 DEF Answer
    <2>3. /\ answer'.current = answer.current /\ answer'.revisions = RevisionsOf(f)
          /\ answer'.supersedes = answer.supersedes
          /\ answer'.superseded_by = answer.superseded_by /\ answer'.record = answer.record
        BY <1>3, <2>1 DEF Answer
    <2>4. 1..answer.current \subseteq VersionsOf(RevisionsOf(f))
        BY <1>2, <1>5 DEF AnswerFits, Version
    <2>5. AnswerFits(f)'
        BY <1>1, <1>2, <1>4, <1>9, <2>3, <2>4 DEF AnswerFits, Supersedes
    <2>6. QED
        BY <1>7, <2>2, <2>5
<1>10. CASE s = "supersedes"
    <2>1. answer' = [answer EXCEPT !.supersedes = Supersedes(f)]
        BY <1>3, <1>10 DEF Returned, Supersedes
    <2>2. answer' \in Answer
        BY <1>3, <2>1 DEF Answer, Supersedes
    <2>3. /\ answer'.current = answer.current /\ answer'.revisions = answer.revisions
          /\ answer'.supersedes = Supersedes(f)
          /\ answer'.superseded_by = answer.superseded_by /\ answer'.record = answer.record
        BY <1>3, <2>1 DEF Answer
    <2>4. AnswerFits(f)'
        BY <1>1, <1>2, <1>4, <1>10, <2>3 DEF AnswerFits, Supersedes
    <2>5. QED
        BY <1>7, <2>2, <2>4
<1>11. CASE s = "superseded_by"
    <2>1. answer' = [answer EXCEPT !.superseded_by = successor[f]]
        BY <1>3, <1>11 DEF Returned
    <2>2. answer' \in Answer
        BY <1>3, <1>5, <2>1 DEF Answer
    <2>3. /\ answer'.current = answer.current /\ answer'.revisions = answer.revisions
          /\ answer'.supersedes = answer.supersedes
          /\ answer'.superseded_by = successor[f] /\ answer'.record = answer.record
        BY <1>3, <2>1 DEF Answer
    <2>4. AnswerFits(f)'
        BY <1>1, <1>2, <1>4, <1>5, <1>11, <2>3 DEF AnswerFits, Supersedes
    <2>5. QED
        BY <1>7, <2>2, <2>4
<1>12. CASE s = "get"
    <2>1. answer' = [answer EXCEPT !.record = head[f]]
        BY <1>3, <1>12 DEF Returned
    <2>2. answer' \in Answer
        BY <1>3, <1>5, <2>1 DEF Answer
    <2>3. /\ answer'.current = answer.current /\ answer'.revisions = answer.revisions
          /\ answer'.supersedes = answer.supersedes
          /\ answer'.superseded_by = answer.superseded_by /\ answer'.record = head[f]
        BY <1>3, <2>1 DEF Answer
    <2>4. AnswerFits(f)'
        BY <1>1, <1>2, <1>4, <1>12, <2>3 DEF AnswerFits, Supersedes
    <2>5. QED
        BY <1>7, <2>2, <2>4
<1>13. QED
    BY <1>4, <1>8, <1>9, <1>10, <1>11, <1>12 DEF Statements

-----------------------------------------------------------------------------
(* The theorems                                                            *)

\* The writers are FactLedger's, so what holds of the ledger holds while it is read.
LEMMA LedgerHolds == Spec => []Ledger
<1>1. Init => LedgerInit
    BY DEF Init
<1>2. [Next]_vars => [LedgerNext]_ledgerVars
    BY DEF Next, Ask, Search, Rehydrate, RunStatement, vars
<1>3. Spec => LedgerSpec
    BY <1>1, <1>2, PTL DEF Spec, LedgerSpec
<1>4. QED
    BY <1>3, ShapesHold, RevisionsNumbered, OneSuccessor, PTL DEF Ledger

\* Whatever is committed between the statements of an answer, it holds so far what the
\* statements run so far entitle it to (repository.history, get and get_many).
THEOREM AnswersHoldTogether == Spec => []ReaderInv
<1>1. Init => ReaderInv
    BY EmptyAnswer DEF Init, ReaderInv, ReaderTyped, AskInv, SearchInv
<1>2. Ledger /\ ReaderInv /\ [Next]_vars => ReaderInv'
    <2> SUFFICES ASSUME Ledger, ReaderInv, [Next]_vars PROVE ReaderInv'
        OBVIOUS
    <2>1. CASE LedgerNext /\ UNCHANGED readerVars
        BY <2>1, WritersKeep
    <2>2. ASSUME NEW f \in Key, NEW c \in {"history", "detail"}, Ask(f, c) PROVE ReaderInv'
        BY <2>2, AskKeeps
    <2>3. ASSUME NEW candidates \in SUBSET revisions, NEW sought \in Sought,
                 Search(candidates, sought)
          PROVE  ReaderInv'
        BY <2>3, SearchKeeps
    <2>4. CASE Rehydrate
        BY <2>4, RehydrateKeeps
    <2>5. CASE RunStatement
        BY <2>5, RunStatementKeeps
    <2>6. CASE UNCHANGED vars
        BY <2>6 DEF vars, ledgerVars, readerVars, ReaderInv, ReaderTyped, AskInv, SearchInv,
                    Rest, AnswerFits, HitsFit, Supersedes
    <2>7. QED
        BY <2>1, <2>2, <2>3, <2>4, <2>5, <2>6 DEF Next
<1>3. QED
    BY <1>1, <1>2, LedgerHolds, PTL DEF Spec

\* An answer of tool_history or ui_fact_detail lists every revision up to the one it calls
\* current and every fact this one superseded, however many writers commit meanwhile.
THEOREM HistoriesAreComplete == Spec => []HistoryComplete
<1>1. ReaderInv => HistoryComplete
    <2> SUFFICES ASSUME ReaderInv, Answered("history") \/ Answered("detail")
                 PROVE  /\ 1..answer.current \subseteq VersionsOf(answer.revisions)
                        /\ \A f \in fact : answer.supersedes = Supersedes(f)
        BY DEF HistoryComplete, VersionsOf, Supersedes
    <2>1. PICK f \in Key : fact = {f} /\ AnswerFits(f)
        BY DEF ReaderInv, AskInv, Answered
    <2>2. "revisions" \notin Ahead(todo) /\ "supersedes" \notin Ahead(todo)
        BY AheadAtTheEnds DEF Answered, Statements
    <2>3. QED
        BY <2>1, <2>2 DEF AnswerFits
<1>2. QED
    BY <1>1, AnswersHoldTogether, PTL

\* tool_history never names a successor for a fact it reports as active.
THEOREM SuccessorsAreOfTheInvalidated == Spec => []SupersededIsInvalidated
<1>1. ReaderInv => SupersededIsInvalidated
    <2> SUFFICES ASSUME ReaderInv, Answered("history"), answer.superseded_by # {}
                 PROVE  answer.record.status = "invalidated"
        BY DEF SupersededIsInvalidated
    <2>1. PICK f \in Key : AnswerFits(f)
        BY DEF ReaderInv, AskInv, Answered
    <2>2. "get" \notin Ahead(todo) /\ call = "history"
        BY AheadAtTheEnds DEF Answered, Statements
    <2>3. QED
        BY <2>1, <2>2 DEF AnswerFits
<1>2. QED
    BY <1>1, AnswersHoldTogether, PTL

\* No list of hits shows a fact as active beside the one that replaced it, nor one fact in
\* two revisions, however far behind the index it was named by (tool_search, get_many).
THEOREM HitsAreOfOneMoment == Spec => []HitsFitTogether
<1>1. ReaderInv => HitsFitTogether
    <2> SUFFICES ASSUME ReaderInv, Answered("search") PROVE HitsFitTogether
        BY DEF HitsFitTogether
    <2>1. Len(<<>>) = 0
        OBVIOUS
    <2>2. HitsFit
        BY <2>1 DEF ReaderInv, SearchInv, Answered
    <2>3. QED
        BY <2>2 DEF HitsFit, HitsFitTogether
<1>2. QED
    BY <1>1, AnswersHoldTogether, PTL
=============================================================================
