--------------------------- MODULE HistoryReading ---------------------------
(***************************************************************************)
(* The answers put together from several reads of the PostgreSQL facts:    *)
(* tool_history and ui_fact_detail (postgres/application.py) over the      *)
(* repository's history and get, and tool_search, which asks the derived   *)
(* index for candidates and the repository's get_many for what they are.   *)
(* Under READ COMMITTED every statement sees the commits before it, so     *)
(* writers come in between: an answer mixes as many moments as it has      *)
(* statements, and their order decides what a caller may conclude from it. *)
(*                                                                         *)
(* The writers are FactLedger's; one reader asks, gets its answer, and     *)
(* asks again.                                                             *)
(***************************************************************************)
EXTENDS FactLedger, Sequences

VARIABLES
    call,       \* "none", "history" (tool_history), "detail" (ui_fact_detail) or "search"
    fact,       \* {the fact asked about}; of a search, the status and namespace it wants
    todo,       \* the statements still to be run, in order
    answer      \* what the statements so far have returned

readerVars == <<call, fact, todo, answer>>
vars == <<ledgerVars, readerVars>>

\* Mutant of HistoryStatements: the revisions are read before the head.
HistoryStatementsSwapped == <<"revisions", "head", "supersedes", "superseded_by">>

\* repository.history runs four statements in one transaction, repository.get
\* one in another.
HistoryStatements == <<"head", "revisions", "supersedes", "superseded_by">>

\* Mutant of HistoryCall: the current row is read first, as ui_fact_detail does.
HistoryCallGetFirst == <<"get">> \o HistoryStatements

HistoryCall == HistoryStatements \o <<"get">>

DetailCall == <<"get">> \o HistoryStatements

\* Mutant of Rehydrated: a hit shows the fact as the index has it.
RehydratedFromIndex(c) == c

\* A hit shows the fact as get_many reads it; of the index's candidate only the
\* name (and the score) is used.
Rehydrated(c) == [fact |-> c.fact, row |-> head[c.fact]]

\* What tool_search's status (active unless said otherwise) and namespaces admit.
Sought == {s \X n : s \in {{"active"}, {"active", "invalidated"}}, n \in {Space, {"shared"}}}

\* _visible
Visible(row, sought) == <<row.status, row.space>> \in sought

NoAnswer ==
    [current |-> 0, revisions |-> {}, supersedes |-> {}, superseded_by |-> {},
     record |-> NoHead, hits |-> {}]

Init ==
    /\ LedgerInit
    /\ call = "none"
    /\ fact = {}
    /\ todo = <<>>
    /\ answer = NoAnswer

\* What one statement returns at this moment, in the answer so far.
Returned(f, statement) ==
    CASE statement = "head"          -> [answer EXCEPT !.current = head[f].version]
      [] statement = "revisions"     -> [answer EXCEPT !.revisions = RevisionsOf(f)]
      [] statement = "supersedes"    -> [answer EXCEPT !.supersedes = {g \in Key : f \in successor[g]}]
      [] statement = "superseded_by" -> [answer EXCEPT !.superseded_by = successor[f]]
      [] statement = "get"           -> [answer EXCEPT !.record = head[f]]

\* A caller asks about a fact that exists (any other is refused at once).
Ask(f, c) ==
    /\ todo = <<>>
    /\ head[f].version > 0
    /\ call' = c
    /\ fact' = {f}
    /\ todo' = IF c = "history" THEN HistoryCall ELSE DetailCall
    /\ answer' = NoAnswer
    /\ UNCHANGED ledgerVars

\* The index answers with any facts it has ever seen, as they were at some
\* time, in any order and up to any limit: it is derived, and may be far behind.
Search(candidates, sought) ==
    /\ todo = <<>>
    /\ candidates \subseteq revisions
    /\ call' = "search"
    /\ fact' = sought
    /\ todo' = <<{[fact |-> r.fact, row |-> r.row] : r \in candidates}>>
    /\ answer' = NoAnswer
    /\ UNCHANGED ledgerVars

\* get_many reads the rows of all candidates in one statement, and those that
\* are what was sought become hits.
Rehydrate ==
    /\ call = "search"
    /\ todo # <<>>
    /\ answer' = [answer EXCEPT !.hits =
                     {h \in {Rehydrated(c) : c \in todo[1]} : Visible(h.row, fact)}]
    /\ todo' = <<>>
    /\ UNCHANGED <<ledgerVars, call, fact>>

RunStatement ==
    /\ call # "search"
    /\ todo # <<>>
    /\ \E f \in fact : answer' = Returned(f, todo[1])
    /\ todo' = Tail(todo)
    /\ UNCHANGED <<ledgerVars, call, fact>>

Next ==
    \/ LedgerNext /\ UNCHANGED readerVars
    \/ \E f \in Key, c \in {"history", "detail"} : Ask(f, c)
    \/ \E candidates \in SUBSET revisions, sought \in Sought : Search(candidates, sought)
    \/ Rehydrate
    \/ RunStatement

Spec == Init /\ [][Next]_vars

-----------------------------------------------------------------------------
(* Properties                                                              *)

Answered(c) == call = c /\ todo = <<>>

\* An answer lists every revision up to the one it calls current, and every
\* fact this one superseded, though writers commit between its statements
\* (the head is read before the revisions, and a fact's supersedes relations
\* are committed with it).
HistoryComplete ==
    Answered("history") \/ Answered("detail") =>
        /\ 1..answer.current \subseteq {r.row.version : r \in answer.revisions}
        /\ \A f \in fact : answer.supersedes = {g \in Key : f \in successor[g]}

\* tool_history never names a successor for a fact it reports as active: the
\* status is read after the relations.
SupersededIsInvalidated ==
    Answered("history") /\ answer.superseded_by # {} => answer.record.status = "invalidated"

\* However far the index is behind, no list of hits shows a fact as active
\* beside the one that replaced it, nor one fact in two revisions: the hits are
\* what one moment of the repository holds.
HitsFitTogether ==
    Answered("search") =>
        \A a, b \in answer.hits :
            /\ a.row.status = "active" => b.fact \notin successor[a.fact]
            /\ a.fact = b.fact => a = b
=============================================================================
