------------------------------- MODULE GitSync -------------------------------
(***************************************************************************)
(* The sync engine of the Git backend (sync.py, state.py): it brings the   *)
(* graph index to what HEAD holds, from the commit it last brought it to.  *)
(*                                                                         *)
(* A sync loads the state file, lists what changed since last_ingested_-   *)
(* commit and what failed before, deletes the facts that are gone, upserts *)
(* the others file by file, and saves the state file at the very end.      *)
(* HEAD does not move meanwhile: the sync holds the write lock.  A crash   *)
(* keeps the graph and the saved state and loses the rest.  A reindex      *)
(* clears the graph, saves an empty state and syncs from nothing.          *)
(*                                                                         *)
(* A rename shows as a deletion and an addition: the code treats both      *)
(* alike.  Every fact is in a group of its own.                            *)
(***************************************************************************)
EXTENDS Integers, Sequences, FiniteSets

CONSTANTS
    Fact,       \* fact ids
    Path,       \* paths under knowledge/, numbered in their order
    Budgets     \* bounds on the events: each b \in Budgets allows b[e] events e

Event == {"commit", "restore", "crash", "fault", "reindex"}

ASSUME SyncAssumption ==
    /\ Fact \subseteq Nat \ {0}
    /\ Path \subseteq Nat
    /\ IsFiniteSet(Path)
    /\ Budgets \subseteq [Event -> Nat]

VARIABLES
    history,    \* the trees of HEAD's commits, one after the other
    graph,      \* the episodes in the graph
    made,       \* how many episodes were ever made
    saved,      \* the state file
    st,         \* the state a sync has loaded and works on
    gone,       \* facts it has yet to delete
    todo,       \* paths it has yet to bring up to date
    fresh,      \* the episode made for the path at hand, if there is one
    clearing,   \* groups a reindex has yet to clear
    pc,         \* "idle", or the step the sync is at
    used        \* used[e]: how often event e has happened

memory == <<st, gone, todo, fresh, clearing>>
vars == <<history, graph, made, saved, memory, pc, used>>

\* A file: a fact with the commit that first wrote it so, a file without an id, one whose id
\* is no string, or one that is no YAML at all.
Status == {"none", "active", "invalidated", "plain", "malformed", "unparsable"}
File == [id : Fact \cup {0}, rev : Nat, status : Status]
NoFile == [id |-> 0, rev |-> 0, status |-> "none"]
IsFact(file) == file.status \in {"active", "invalidated"}

Episode == [uuid : Nat, fact : Fact, rev : Nat]

\* facts[f]: the episodes of f; a fact without any has no entry.
State == [last : Nat, facts : [Fact -> SUBSET Nat], dead : SUBSET Path]
NoState == [last |-> 0, facts |-> [f \in Fact |-> {}], dead |-> {}]

Stage == {"idle", "remove", "upsert", "replace", "clear", "reset", "resync"}

Tip == Len(history)
Tree == history[Tip]

Nothing == st = NoState /\ gone = {} /\ todo = {} /\ fresh = {} /\ clearing = {}

Init ==
    /\ history = <<[p \in Path |-> NoFile]>>
    /\ graph = {}
    /\ made = 0
    /\ saved = NoState
    /\ Nothing
    /\ pc = "idle"
    /\ used = [e \in Event |-> 0]

Spend(e) ==
    /\ used' = [used EXCEPT ![e] = @ + 1]
    /\ \E b \in Budgets : \A x \in Event : used'[x] <= b[x]

-----------------------------------------------------------------------------
(* Commits: by the server, by people, by merged pull requests              *)

\* A fact is in one file at most: what puts it at p takes it from elsewhere.
Put(p, file) ==
    /\ pc \in {"idle", "clear", "reset", "resync"}
    /\ history' = Append(history,
           [q \in Path |-> IF q = p THEN file
                           ELSE IF file.id # 0 /\ Tree[q].id = file.id THEN NoFile
                           ELSE Tree[q]])
    /\ UNCHANGED <<graph, made, saved, memory, pc>>

\* A new commit adds, edits, invalidates, moves, breaks, repairs or deletes a fact.
Commit(p, id, status) ==
    /\ id = 0 <=> ~(status \in {"active", "invalidated"})
    /\ ~(status = "none" /\ Tree[p] = NoFile)
    /\ Spend("commit")
    /\ Put(p, IF status = "none" THEN NoFile ELSE [id |-> id, rev |-> Tip + 1, status |-> status])

\* A commit that puts back, to the letter, what an earlier one had at p.
Restore(p, i) ==
    /\ history[i][p] \notin {NoFile, Tree[p]}
    /\ Spend("restore")
    /\ Put(p, history[i][p])

-----------------------------------------------------------------------------
(* A sync                                                                  *)

Changed(last) == {p \in Path : history[last][p] # Tree[p]}

\* The facts of the deleted and renamed files, as the last commit has them.
Gone(last) ==
    IF last = 0 THEN {}
    ELSE {history[last][p].id : p \in {q \in Changed(last) : Tree[q] = NoFile}} \ {0}

\* Mutant of Targets: files that failed before wait for their next change.
TargetsChanged(s) == {p \in Path : Tree[p] # NoFile /\ (s.last = 0 \/ p \in Changed(s.last))}

\* Everything the first time, then what changed, and what failed before.
Targets(s) ==
    {p \in Path : Tree[p] # NoFile /\ (s.last = 0 \/ p \in Changed(s.last))} \cup s.dead

\* A sync from nothing lists every file, which fails on one that cannot be parsed.
CanList == saved.last = 0 => \A p \in Path : Tree[p].status # "unparsable"

Start ==
    /\ pc \in {"idle", "resync"}
    /\ CanList
    /\ st' = saved
    /\ gone' = Gone(saved.last)
    /\ todo' = Targets(saved)
    /\ pc' = "remove"
    /\ UNCHANGED <<history, graph, made, saved, fresh, clearing, used>>

Without(uuids) == {e \in graph : e.uuid \notin uuids}

\* One deletion; when it raises, the whole sync does.
Remove(f) ==
    /\ pc = "remove"
    /\ f \in gone
    /\ gone' = gone \ {f}
    /\ st' = [st EXCEPT !.facts[f] = {}]
    /\ graph' = Without(st.facts[f])
    /\ UNCHANGED <<history, made, saved, todo, fresh, clearing, pc, used>>

Removed ==
    /\ pc = "remove"
    /\ gone = {}
    /\ pc' = "upsert"
    /\ UNCHANGED <<history, graph, made, saved, memory, used>>

\* The next path, in order.
At(p) == p \in todo /\ \A q \in todo : p <= q

\* A path that holds no fact: forgotten if it is gone or names none, else a dead letter.
Skip(p) ==
    /\ pc = "upsert"
    /\ At(p) /\ ~IsFact(Tree[p])
    /\ todo' = todo \ {p}
    /\ st' = [st EXCEPT !.dead = IF Tree[p].status \in {"none", "plain"}
                                   THEN @ \ {p} ELSE @ \cup {p}]
    /\ UNCHANGED <<history, graph, made, saved, gone, fresh, clearing, pc, used>>

\* A new episode for an active fact; nothing for an invalidated one.
Create(p) ==
    /\ pc = "upsert"
    /\ At(p) /\ IsFact(Tree[p])
    /\ IF Tree[p].status = "active"
       THEN /\ made' = made + 1
            /\ fresh' = {made + 1}
            /\ graph' = graph \cup {[uuid |-> made + 1, fact |-> Tree[p].id, rev |-> Tree[p].rev]}
       ELSE UNCHANGED <<made, fresh, graph>>
    /\ pc' = "replace"
    /\ UNCHANGED <<history, saved, st, gone, todo, clearing, used>>

\* The episodes the state names are deleted, and the fact has the fresh one.
Replace(p) ==
    /\ pc = "replace"
    /\ At(p)
    /\ LET f == Tree[p].id
       IN /\ graph' = Without(st.facts[f])
          /\ st' = [st EXCEPT !.facts[f] = fresh, !.dead = @ \ {p}]
    /\ fresh' = {}
    /\ todo' = todo \ {p}
    /\ pc' = "upsert"
    /\ UNCHANGED <<history, made, saved, gone, clearing, used>>

\* Mutant of Fails: the failed file is not remembered.
FailsForgotten(p) ==
    /\ pc \in {"upsert", "replace"}
    /\ At(p) /\ IsFact(Tree[p])
    /\ Spend("fault")
    /\ fresh' = {}
    /\ todo' = todo \ {p}
    /\ pc' = "upsert"
    /\ UNCHANGED <<history, graph, made, saved, st, gone, clearing>>

\* The upsert raises, before or after it made an episode: a dead letter.
Fails(p) ==
    /\ pc \in {"upsert", "replace"}
    /\ At(p) /\ IsFact(Tree[p])
    /\ Spend("fault")
    /\ fresh' = {}
    /\ todo' = todo \ {p}
    /\ st' = [st EXCEPT !.dead = @ \cup {p}]
    /\ pc' = "upsert"
    /\ UNCHANGED <<history, graph, made, saved, gone, clearing>>

\* os.replace: the state file is the old one or the new one.
Save ==
    /\ pc = "upsert" /\ todo = {}
    /\ saved' = [st EXCEPT !.last = Tip]
    /\ pc' = "idle"
    /\ st' = NoState
    /\ UNCHANGED <<history, graph, made, gone, todo, fresh, clearing, used>>
-----------------------------------------------------------------------------
(* Reindex, crashes                                                        *)

Reindex ==
    /\ pc = "idle"
    /\ Spend("reindex")
    /\ clearing' = Fact
    /\ pc' = "clear"
    /\ UNCHANGED <<history, graph, made, saved, st, gone, todo, fresh>>

Clear(f) ==
    /\ pc = "clear"
    /\ f \in clearing
    /\ clearing' = clearing \ {f}
    /\ graph' = {e \in graph : e.fact # f}
    /\ pc' = IF clearing = {f} THEN "reset" ELSE "clear"
    /\ UNCHANGED <<history, made, saved, st, gone, todo, fresh, used>>

Reset ==
    /\ pc = "reset"
    /\ saved' = NoState
    /\ pc' = "resync"
    /\ UNCHANGED <<history, graph, made, memory, used>>

\* The sync or reindex ends before its time: a deletion raised, or the process died.
End ==
    /\ pc # "idle"
    /\ pc' = "idle"
    /\ st' = NoState /\ gone' = {} /\ todo' = {} /\ fresh' = {} /\ clearing' = {}
    /\ UNCHANGED <<history, graph, made, saved>>

Raises == pc \in {"remove", "clear"} /\ Spend("fault") /\ End
CannotResync == pc = "resync" /\ ~CanList /\ End /\ UNCHANGED used
Crash == Spend("crash") /\ End

Work ==
    \/ Start \/ Removed \/ Save \/ Reset \/ CannotResync
    \/ \E f \in Fact : Remove(f) \/ Clear(f)
    \/ \E p \in Path : Skip(p) \/ Create(p) \/ Replace(p)

Next ==
    \/ Work
    \/ Reindex \/ Raises \/ Crash
    \/ \E p \in Path : Fails(p)
    \/ \E p \in Path, id \in Fact \cup {0}, s \in Status : Commit(p, id, s)
    \/ \E p \in Path, i \in 1..Tip : Restore(p, i)

Spec == Init /\ [][Next]_vars

\* The periodic task syncs again and again, and a sync that is not stopped runs on.
LiveSpec == Spec /\ WF_vars(Work)

-----------------------------------------------------------------------------
(* Properties                                                              *)

\* What a search can find of f: the episodes the state file attributes to it.
Found(f) == {e.rev : e \in {x \in graph : x.uuid \in saved.facts[f]}}

\* No reindex was stopped half way: it leaves a cleared graph under a state file
\* that names its episodes.
NoReindexStopped == used["reindex"] = 0 \/ used["crash"] + used["fault"] = 0

\* No file is as an earlier commit had it again when a sync stopped half way: it has
\* replaced the episodes of that content, and the diff from the saved commit shows nothing.
NoneRestored == used["restore"] = 0 \/ used["crash"] + used["fault"] = 0

\* When the state file says HEAD is ingested, a search finds each fact of HEAD as
\* HEAD has it, and finds no retired one; only dead letters may lag.
IndexMatchesHead ==
    NoReindexStopped /\ NoneRestored /\ pc = "idle" /\ saved.last = Tip =>
        \A p \in Path \ saved.dead : IsFact(Tree[p]) =>
            Found(Tree[p].id) = IF Tree[p].status = "active" THEN {Tree[p].rev} ELSE {}

\* Level-triggered: once commits and faults stop, HEAD is ingested and only files
\* that hold no fact are dead letters, unless a file is unparsable.
Converges ==
    <>[](\/ saved.last = Tip /\ \A p \in saved.dead : ~IsFact(Tree[p])
         \/ \E p \in Path : Tree[p].status = "unparsable")

=============================================================================
