--------------------------- MODULE GitSyncProofs ----------------------------
(***************************************************************************)
(* The index comes to match HEAD, for any facts, paths, commits, failures  *)
(* and crashes.                                                            *)
(*                                                                         *)
(* A sync changes the graph long before it saves what it did, so two       *)
(* states are kept right at once.  What it will save: every fact file it   *)
(* is done with and did not give up on can be found as HEAD has it         *)
(* (SyncMatches).  What a crash would leave: the files that have not       *)
(* changed since the saved commit can be found by the saved state          *)
(* (SavedMatches), because the sync touches none of them (SyncSpares), and *)
(* an episode that either state names is its own fact's (Owned).           *)
(***************************************************************************)
EXTENDS GitSync, SequenceTheorems, TLAPS

Shapes ==
    /\ history \in Seq([Path -> File]) /\ history # <<>>
    /\ graph \subseteq Episode /\ made \in Nat
    /\ saved \in State /\ st \in State /\ saved.last <= Tip
    /\ gone \subseteq Fact /\ todo \subseteq Path /\ fresh \subseteq Nat
    /\ pc \in Stage /\ used \in [Event -> Nat]

\* What a commit leaves at a path is no younger than the commit, and a fact is in one file.
TreeOK(tree, i) ==
    \A p \in Path :
        /\ tree[p].rev <= i
        /\ tree[p].id # 0 <=> IsFact(tree[p])
        /\ \A q \in Path : tree[p].id = tree[q].id /\ tree[p].id # 0 => p = q

TreesOK == \A i \in 1..Len(history) : TreeOK(history[i], i)

EpisodesOK ==
    \A e \in graph : e.uuid <= made /\ \A x \in graph : x.uuid = e.uuid => x = e

Names(s, f) == s.facts[f] \subseteq 1..made /\ \A e \in graph : e.uuid \in s.facts[f] => e.fact = f

Owned == \A f \in Fact : Names(saved, f) /\ Names(st, f)

\* What a search finds of f in graph g by state s, and what it should find of a file.
FoundBy(g, s, f) == {e.rev : e \in {x \in g : x.uuid \in s.facts[f]}}
Expected(file) == IF file.status = "active" THEN {file.rev} ELSE {}

Syncing == pc \in {"remove", "upsert", "replace"}
NoneStopped == used["crash"] + used["fault"] = 0

Saved(p) == history[saved.last][p]

\* An ingested fact that no sync has touched since: it has not changed, or none has begun.
Clean(p) ==
    /\ saved.last # 0 /\ IsFact(Saved(p)) /\ p \notin saved.dead
    /\ \/ used["restore"] = 0 /\ Saved(p) = Tree[p]
       \/ NoneStopped /\ ~Syncing

SavedMatches ==
    NoReindexStopped /\ NoneRestored /\ pc \notin {"clear", "reset"} =>
        \A p \in Path : Clean(p) => FoundBy(graph, saved, Saved(p).id) = Expected(Saved(p))

SyncSpares == Syncing => \A p \in Path : Clean(p) => p \notin todo /\ Saved(p).id \notin gone

SyncMatches ==
    Syncing /\ NoReindexStopped /\ NoneRestored =>
        \A p \in Path \ (todo \cup st.dead) : IsFact(Tree[p]) =>
            FoundBy(graph, st, Tree[p].id) = Expected(Tree[p]) /\ Tree[p].id \notin gone

\* The episode at hand is the one of the next path, and no state names it yet.
FreshIs(p) ==
    IF Tree[p].status = "active"
    THEN \E u \in fresh : fresh = {u} /\ [uuid |-> u, fact |-> Tree[p].id, rev |-> Tree[p].rev] \in graph
    ELSE fresh = {}

FreshOK ==
    /\ pc # "replace" => fresh = {}
    /\ pc = "replace" => \A p \in Path : At(p) => IsFact(Tree[p]) /\ FreshIs(p)
    /\ \A u \in fresh : u \in 1..made /\ \A f \in Fact : u \notin st.facts[f]

InOrder ==
    /\ pc \in {"upsert", "replace"} => gone = {}
    /\ pc \in {"clear", "reset", "resync"} => used["reindex"] > 0

Inv == /\ Shapes /\ TreesOK /\ EpisodesOK /\ Owned /\ FreshOK /\ InOrder
       /\ SavedMatches /\ SyncSpares /\ SyncMatches

-----------------------------------------------------------------------------
(* Trees, states, counters                                                 *)

LEMMA Appended ==
    ASSUME NEW S, NEW s \in Seq(S), NEW x \in S
    PROVE  /\ Append(s, x) \in Seq(S) /\ Len(Append(s, x)) = Len(s) + 1 /\ Len(s) \in Nat
           /\ \A i \in 1..Len(s) : Append(s, x)[i] = s[i]
           /\ Append(s, x)[Len(s) + 1] = x
BY AppendProperties

LEMMA TreeFields ==
    ASSUME Inv
    PROVE  /\ Tip \in Nat /\ Tip \in 1..Tip /\ Len(history) = Tip
           /\ \A i \in 1..Tip : history[i] \in [Path -> File] /\ TreeOK(history[i], i)
<1>1. history \in Seq([Path -> File]) /\ history # <<>>
    BY DEF Inv, Shapes
<1>2. Len(history) \in Nat \ {0}
    BY <1>1, EmptySeq
<1>3. \A i \in 1..Len(history) : history[i] \in [Path -> File]
    BY <1>1, ElementOfSeq
<1>4. QED
    BY <1>2, <1>3 DEF Inv, TreesOK, Tip

\* A fact file names a fact, which no other file does.
LEMMA FactFile ==
    ASSUME Inv, NEW i \in 1..Tip, NEW p \in Path, IsFact(history[i][p])
    PROVE  /\ history[i][p] \in File /\ history[i][p].id \in Fact
           /\ \A q \in Path : history[i][q].id = history[i][p].id => q = p
BY TreeFields DEF TreeOK, File

\* The tree of HEAD, and the saved commit's if there is one.
LEMMA HeadFile ==
    ASSUME Inv, NEW p \in Path
    PROVE  /\ Tree[p] \in File /\ (Tree[p].id # 0 <=> IsFact(Tree[p])) /\ Tree[p].rev <= Tip
           /\ IsFact(Tree[p]) => Tree[p].id \in Fact /\ \A q \in Path : Tree[q].id = Tree[p].id => q = p
BY TreeFields, FactFile DEF Tree, TreeOK

LEMMA CleanFile ==
    ASSUME Inv, NEW p \in Path, Clean(p)
    PROVE  saved.last \in 1..Tip /\ Saved(p).id \in Fact
<1>1. saved.last \in Nat /\ saved.last <= Tip /\ saved.last # 0
    BY DEF Inv, Shapes, State, Clean
<1>2. saved.last \in 1..Tip
    BY <1>1, TreeFields
<1>3. QED
    BY <1>2, FactFile DEF Clean, Saved

LEMMA Spends ==
    ASSUME used \in [Event -> Nat], NEW e \in Event, Spend(e)
    PROVE  /\ used' \in [Event -> Nat] /\ used'[e] = used[e] + 1
           /\ \A x \in Event \ {e} : used'[x] = used[x]
           /\ NoReindexStopped' => NoReindexStopped
           /\ NoneRestored' => NoneRestored
           /\ NoneStopped' => NoneStopped
           /\ used'["restore"] = 0 => used["restore"] = 0
<1>1. /\ used' \in [Event -> Nat] /\ used'[e] = used[e] + 1
      /\ \A x \in Event \ {e} : used'[x] = used[x]
    BY DEF Spend
<1>2. \A x \in Event : used[x] \in Nat /\ used'[x] \in Nat /\ used[x] <= used'[x]
    BY <1>1
<1>3. {"restore", "crash", "fault", "reindex"} \subseteq Event
    BY DEF Event
<1>4. QED
    BY <1>1, <1>2, <1>3 DEF NoReindexStopped, NoneRestored, NoneStopped

LEMMA NoStateIs == NoState \in State /\ NoState.last = 0 /\ \A f \in Fact : NoState.facts[f] = {}
BY DEF NoState, State

LEMMA FoundKept ==
    ASSUME NEW g, NEW h, NEW s, NEW t, NEW f, t.facts[f] = s.facts[f],
           \A x \in g \cup h : x.uuid \in s.facts[f] => x \in g \cap h
    PROVE  FoundBy(h, t, f) = FoundBy(g, s, f)
<1>1. {x \in h : x.uuid \in t.facts[f]} = {x \in g : x.uuid \in s.facts[f]}
    OBVIOUS
<1>2. QED
    BY <1>1 DEF FoundBy

\* An episode of another fact survives the deletion of f's.
LEMMA Spared ==
    ASSUME Inv, NEW f \in Fact, NEW g \in Fact, f # g, NEW s \in {saved, st}
    PROVE  \A x \in graph : x.uuid \in s.facts[g] => x \in Without(st.facts[f])
<1>1. Names(s, g) /\ Names(st, f)
    BY DEF Inv, Owned
<1>2. QED
    BY <1>1 DEF Names, Without

-----------------------------------------------------------------------------
(* Commits                                                                 *)

LEMMA PutKeeps ==
    ASSUME Inv, NEW p \in Path, NEW file \in File, Put(p, file),
           file.rev <= Tip + 1, file.id # 0 <=> IsFact(file),
           used' \in [Event -> Nat], used'["reindex"] = used["reindex"],
           used'["crash"] = used["crash"], used'["fault"] = used["fault"],
           \/ used'["restore"] = used["restore"] /\ (IsFact(file) => file.rev = Tip + 1)
           \/ used'["restore"] > used["restore"]
    PROVE  Inv'
<1> DEFINE tree == [q \in Path |-> IF q = p THEN file
                                   ELSE IF file.id # 0 /\ Tree[q].id = file.id THEN NoFile
                                   ELSE Tree[q]]
<1>1. /\ ~Syncing /\ history' = Append(history, tree)
      /\ UNCHANGED <<graph, made, saved, st, gone, todo, fresh, clearing, pc>>
    BY DEF Put, Syncing, memory
<1>2. /\ history \in Seq([Path -> File]) /\ Tip \in Nat /\ Len(history) = Tip /\ Tip >= 1
      /\ saved.last \in Nat /\ saved.last <= Tip /\ used["restore"] \in Nat
    BY TreeFields DEF Inv, Shapes, State, Event
<1>3. NoFile \in File /\ NoFile.id = 0 /\ NoFile.rev = 0 /\ ~IsFact(NoFile)
    BY DEF NoFile, File, Status, IsFact
<1>4. tree \in [Path -> File]
    BY <1>3, HeadFile
<1>5. TreeOK(tree, Tip + 1)
    <2>1. ASSUME NEW q \in Path
          PROVE  tree[q].rev <= Tip + 1 /\ (tree[q].id # 0 <=> IsFact(tree[q]))
        BY <1>2, <1>3, HeadFile DEF File
    <2>2. ASSUME NEW q \in Path, NEW r \in Path, tree[q].id = tree[r].id, tree[q].id # 0
          PROVE  q = r
        BY <1>3, <2>2, HeadFile
    <2>3. QED
        BY <2>1, <2>2 DEF TreeOK
<1>6. \A q \in Path : tree[q] = Tree[q] \/ ~IsFact(tree[q]) \/ tree[q] = file
    BY <1>3
<1> HIDE DEF tree
<1>7. /\ history' \in Seq([Path -> File]) /\ Len(history') = Tip + 1
      /\ \A i \in 1..Tip : history'[i] = history[i]
      /\ history'[Tip + 1] = tree
    BY <1>1, <1>2, <1>4, Appended
<1>8. history' # <<>> /\ Tip' = Tip + 1 /\ Tree' = tree
    BY <1>2, <1>7 DEF Tip, Tree
<1>9. Shapes'
    BY <1>1, <1>2, <1>7, <1>8 DEF Inv, Shapes
<1>10. TreesOK'
    <2>1. ASSUME NEW i \in 1..(Tip + 1) PROVE TreeOK(history'[i], i)
        <3>1. CASE i \in 1..Tip
            BY <1>7, <3>1, TreeFields
        <3>2. CASE i = Tip + 1
            BY <1>5, <1>7, <3>2
        <3>3. QED
            BY <1>2, <3>1, <3>2
    <2>2. QED
        BY <1>7, <2>1 DEF TreesOK
<1>11. EpisodesOK' /\ Owned'
    BY <1>1 DEF Inv, EpisodesOK, Owned, Names
<1>12. pc \notin {"replace", "upsert", "remove"} /\ ~Syncing'
    BY <1>1 DEF Syncing
<1>13. FreshOK' /\ InOrder'
    BY <1>1, <1>12 DEF Inv, FreshOK, InOrder
<1>14. SyncSpares' /\ SyncMatches'
    BY <1>12 DEF SyncSpares, SyncMatches
<1>15. ASSUME NEW q \in Path, Clean(q)' PROVE Clean(q) /\ Saved(q)' = Saved(q)
    <2>1. saved.last # 0 /\ saved.last \in 1..Tip /\ q \notin saved.dead
        BY <1>1, <1>2, <1>15 DEF Clean
    <2>2. Saved(q)' = Saved(q) /\ IsFact(Saved(q))
        BY <1>1, <1>7, <1>15, <2>1 DEF Saved, Clean
    <2>3. Saved(q).rev <= saved.last /\ Saved(q) \in File
        BY <2>1, TreeFields DEF TreeOK, Saved
    <2>4. CASE NoneStopped
        BY <1>1, <2>1, <2>2, <2>4 DEF Clean
    <2>5. CASE ~NoneStopped
        <3>1. used'["restore"] = 0 /\ Saved(q) = tree[q]
            BY <1>8, <1>15, <2>2, <2>5 DEF Clean, NoneStopped
        <3>2. used["restore"] = 0 /\ (IsFact(file) => file.rev = Tip + 1)
            BY <1>2, <3>1
        <3>3. tree[q] # file
            BY <1>2, <2>2, <2>3, <3>1, <3>2 DEF File
        <3>4. Saved(q) = Tree[q]
            BY <1>6, <2>2, <3>1, <3>3
        <3>5. QED
            BY <2>1, <2>2, <3>2, <3>4 DEF Clean
    <2>6. QED
        BY <2>4, <2>5
<1>16. (NoReindexStopped /\ NoneRestored)' => NoReindexStopped /\ NoneRestored
    BY <1>2 DEF NoReindexStopped, NoneRestored
<1>17. SavedMatches'
    BY <1>1, <1>15, <1>16 DEF Inv, SavedMatches
<1>18. QED
    BY <1>9, <1>10, <1>11, <1>13, <1>14, <1>17 DEF Inv

LEMMA CommitKeeps ==
    ASSUME Inv, NEW p \in Path, NEW id \in Fact \cup {0}, NEW s \in Status, Commit(p, id, s)
    PROVE  Inv'
<1> DEFINE file == IF s = "none" THEN NoFile ELSE [id |-> id, rev |-> Tip + 1, status |-> s]
<1>1. used \in [Event -> Nat] /\ Spend("commit") /\ Put(p, file)
    BY DEF Commit, Inv, Shapes
<1>2. /\ used' \in [Event -> Nat] /\ \A x \in Event \ {"commit"} : used'[x] = used[x]
    BY <1>1, Spends DEF Event
<1>3. /\ file \in File /\ file.rev <= Tip + 1 /\ (IsFact(file) => file.rev = Tip + 1)
      /\ file.id # 0 <=> IsFact(file)
    <2>1. id = 0 <=> ~(s \in {"active", "invalidated"})
        BY DEF Commit
    <2>2. Tip \in Nat
        BY TreeFields
    <2>3. CASE s = "none"
        BY <2>2, <2>3 DEF NoFile, File, Status, IsFact
    <2>4. CASE s # "none"
        BY <2>1, <2>2, <2>4 DEF File, Status, IsFact
    <2>5. QED
        BY <2>3, <2>4
<1> HIDE DEF file
<1>4. QED
    BY <1>1, <1>2, <1>3, PutKeeps DEF Event

LEMMA RestoreKeeps ==
    ASSUME Inv, NEW p \in Path, NEW i \in 1..Tip, Restore(p, i)
    PROVE  Inv'
<1>1. used \in [Event -> Nat] /\ Spend("restore") /\ Put(p, history[i][p])
    BY DEF Restore, Inv, Shapes
<1>2. /\ used' \in [Event -> Nat] /\ \A x \in Event \ {"restore"} : used'[x] = used[x]
      /\ used'["restore"] = used["restore"] + 1 /\ used["restore"] \in Nat
    BY <1>1, Spends DEF Event
<1>3. /\ history[i][p] \in File /\ history[i][p].rev <= Tip + 1
      /\ history[i][p].id # 0 <=> IsFact(history[i][p])
    BY TreeFields DEF TreeOK, File
<1>4. QED
    BY <1>1, <1>2, <1>3, PutKeeps DEF Event

-----------------------------------------------------------------------------
(* The steps of a sync                                                     *)

\* A step of a sync leaves alone what a crash would fall back on.
LEMMA SyncGoesOn ==
    ASSUME Inv, UNCHANGED <<history, saved>>, Syncing, Syncing',
           todo' \subseteq todo, gone' \subseteq gone,
           NoReindexStopped' => NoReindexStopped, NoneRestored' => NoneRestored,
           used'["restore"] = 0 => used["restore"] = 0,
           \A p \in Path : Clean(p) => \A x \in graph \cup graph' :
               x.uuid \in saved.facts[Saved(p).id] => x \in graph \cap graph'
    PROVE  TreesOK' /\ SavedMatches' /\ SyncSpares'
<1>1. Tree' = Tree /\ \A p \in Path : Saved(p)' = Saved(p)
    BY DEF Tree, Tip, Saved
<1>2. \A p \in Path : Clean(p)' => Clean(p)
    BY <1>1 DEF Clean
<1>3. TreesOK'
    BY DEF Inv, TreesOK
<1>4. SyncSpares'
    BY <1>1, <1>2 DEF Inv, SyncSpares
<1>5. ASSUME NEW p \in Path, Clean(p)
      PROVE  FoundBy(graph', saved, Saved(p).id) = FoundBy(graph, saved, Saved(p).id)
    BY <1>5, FoundKept
<1>6. pc \notin {"clear", "reset"}
    BY DEF Syncing
<1>7. SavedMatches'
    BY <1>1, <1>2, <1>5, <1>6 DEF Inv, SavedMatches
<1>8. QED
    BY <1>3, <1>4, <1>7

\* Deleting f's episodes loses nothing that has to be found of other facts.
LEMMA OthersStay ==
    ASSUME Inv, NEW f \in Fact, graph' = Without(st.facts[f]),
           Syncing, NEW p \in Path, Clean(p), f \in gone \/ \E q \in todo : Tree[q].id = f
    PROVE  \A x \in graph \cup graph' :
               x.uuid \in saved.facts[Saved(p).id] => x \in graph \cap graph'
<1>1. p \notin todo /\ Saved(p).id \notin gone /\ Saved(p) = Tree[p]
    BY DEF Inv, SyncSpares, Clean
<1>2. Saved(p).id # f
    BY <1>1, HeadFile, CleanFile DEF Clean, Inv, Shapes
<1>3. QED
    BY <1>2, Spared, CleanFile DEF Without

LEMMA StartKeeps == ASSUME Inv, Start PROVE Inv'
<1>1. /\ st' = saved /\ gone' = Gone(saved.last) /\ todo' = Targets(saved) /\ pc' = "remove"
      /\ UNCHANGED <<history, graph, made, saved, fresh, clearing, used>>
      /\ pc \in {"idle", "resync"} /\ Syncing' /\ ~Syncing
    BY DEF Start, Syncing
<1>2. /\ saved \in State /\ saved.last \in Nat /\ saved.last <= Tip
      /\ saved.last # 0 => saved.last \in 1..Tip
    BY TreeFields DEF Inv, Shapes, State
<1>3. Tree' = Tree /\ Tip' = Tip /\ \A p \in Path : Saved(p)' = Saved(p)
    BY <1>1 DEF Tree, Tip, Saved
<1>4. gone' \subseteq Fact /\ todo' \subseteq Path
    BY <1>1, <1>2, TreeFields DEF Gone, Changed, Targets, State, File
<1>5. \A p \in Path : Saved(p) = Tree[p] /\ IsFact(Tree[p]) /\ saved.last # 0 =>
          Tree[p].id \notin gone' /\ (p \notin saved.dead => p \notin todo')
    <2>1. SUFFICES ASSUME NEW p \in Path, Saved(p) = Tree[p], IsFact(Tree[p]), saved.last # 0
                   PROVE  Tree[p].id \notin gone' /\ (p \notin saved.dead => p \notin todo')
        OBVIOUS
    <2>2. p \notin Changed(saved.last)
        BY <2>1 DEF Changed, Saved
    <2>3. \A q \in Changed(saved.last) : history[saved.last][q].id # Tree[p].id
        BY <1>2, <2>1, <2>2, FactFile DEF Saved, Changed
    <2>4. QED
        BY <1>1, <2>1, <2>2, <2>3 DEF Gone, Targets
<1>6. Shapes'
    BY <1>1, <1>2, <1>3, <1>4 DEF Inv, Shapes, Stage
<1>7. TreesOK' /\ EpisodesOK' /\ Owned' /\ InOrder'
    BY <1>1 DEF Inv, TreesOK, EpisodesOK, Owned, Names, InOrder
<1>8. FreshOK'
    BY <1>1 DEF Inv, FreshOK
<1>9. \A p \in Path : Clean(p)' => Clean(p) /\ Saved(p) = Tree[p]
    BY <1>1, <1>3 DEF Clean
<1>10. SavedMatches'
    BY <1>1, <1>3, <1>9 DEF Inv, SavedMatches, NoReindexStopped, NoneRestored
<1>11. SyncSpares'
    BY <1>1, <1>3, <1>5, <1>9 DEF SyncSpares, Clean
<1>12. SyncMatches'
    <2>1. SUFFICES ASSUME NoReindexStopped, NoneRestored,
                          NEW p \in Path, p \notin todo', p \notin saved.dead, IsFact(Tree[p])
                   PROVE  FoundBy(graph, saved, Tree[p].id) = Expected(Tree[p]) /\ Tree[p].id \notin gone'
        BY <1>1, <1>3 DEF SyncMatches, NoReindexStopped, NoneRestored
    <2>2. Tree[p] # NoFile
        BY <2>1 DEF IsFact, NoFile
    <2>3. saved.last # 0 /\ Saved(p) = Tree[p]
        BY <1>1, <2>1, <2>2 DEF Targets, Changed, Saved
    <2>4. Clean(p)
        BY <1>1, <2>1, <2>3 DEF Clean, NoneRestored, NoneStopped
    <2>5. QED
        BY <1>1, <1>5, <2>1, <2>3, <2>4 DEF Inv, SavedMatches
<1>13. QED
    BY <1>6, <1>7, <1>8, <1>10, <1>11, <1>12 DEF Inv

LEMMA RemoveKeeps == ASSUME Inv, NEW f \in Fact, Remove(f) PROVE Inv'
<1>1. /\ pc = "remove" /\ pc' = pc /\ f \in gone /\ gone' = gone \ {f}
      /\ graph' = Without(st.facts[f]) /\ graph' \subseteq graph
      /\ UNCHANGED <<history, made, saved, todo, fresh, clearing, used>>
      /\ Syncing /\ Syncing'
    BY DEF Remove, Syncing, Without
<1>2. st \in State /\ st.dead \in SUBSET Path /\ st' = [st EXCEPT !.facts[f] = {}, !.dead = st.dead]
    BY DEF Remove, Inv, Shapes, State
<1>3. /\ st' \in State /\ st'.dead = st.dead /\ st'.facts[f] = {}
      /\ \A g \in Fact \ {f} : st'.facts[g] = st.facts[g]
    BY <1>2 DEF State
<1>4. Tree' = Tree /\ Tip' = Tip
    BY <1>1 DEF Tree, Tip
<1>5. Shapes'
    BY <1>1, <1>3, <1>4 DEF Inv, Shapes
<1>6. EpisodesOK'
    BY <1>1 DEF Inv, EpisodesOK
<1>7. Owned'
    <2>1. ASSUME NEW g \in Fact PROVE Names(saved, g)' /\ Names(st, g)'
        <3>1. Names(saved, g) /\ Names(st, g)
            BY DEF Inv, Owned
        <3>2. st'.facts[g] \subseteq st.facts[g]
            BY <1>3
        <3>3. QED
            BY <1>1, <3>1, <3>2 DEF Names
    <2>2. QED
        BY <2>1 DEF Owned
<1>8. FreshOK' /\ InOrder'
    BY <1>1, <1>3 DEF Inv, FreshOK, InOrder
<1>9. TreesOK' /\ SavedMatches' /\ SyncSpares'
    BY <1>1, OthersStay, SyncGoesOn DEF NoReindexStopped, NoneRestored
<1>10. SyncMatches'
    <2>1. SUFFICES ASSUME NoReindexStopped, NoneRestored,
                          NEW p \in Path, p \notin todo, p \notin st.dead, IsFact(Tree[p])
                   PROVE  FoundBy(graph', st', Tree[p].id) = Expected(Tree[p]) /\ Tree[p].id \notin gone'
        BY <1>1, <1>3, <1>4 DEF SyncMatches, NoReindexStopped, NoneRestored
    <2>2. FoundBy(graph, st, Tree[p].id) = Expected(Tree[p]) /\ Tree[p].id \notin gone
        BY <1>1, <2>1 DEF Inv, SyncMatches
    <2>3. Tree[p].id \in Fact \ {f}
        BY <1>1, <2>1, <2>2, HeadFile
    <2>4. FoundBy(graph', st', Tree[p].id) = FoundBy(graph, st, Tree[p].id)
        BY <1>1, <1>3, <2>3, FoundKept, Spared
    <2>5. QED
        BY <1>1, <2>2, <2>4
<1>11. QED
    BY <1>5, <1>6, <1>7, <1>8, <1>9, <1>10 DEF Inv

\* Steps that change neither the graph nor what the states attribute.
LEMMA MovesOn ==
    ASSUME Inv, Syncing, pc \in {"remove", "upsert", "replace"}, pc' = "upsert",
           UNCHANGED <<history, graph, made, saved, gone>>, gone = {},
           st' \in State, \A f \in Fact : st'.facts[f] = st.facts[f],
           todo' \subseteq todo, fresh' = {}, used' \in [Event -> Nat],
           NoReindexStopped' => NoReindexStopped, NoneRestored' => NoneRestored,
           used'["restore"] = 0 => used["restore"] = 0,
           \A p \in Path : p \notin todo' \cup st'.dead /\ IsFact(Tree[p]) => p \notin todo \cup st.dead
    PROVE  Inv'
<1>1. Tree' = Tree /\ Tip' = Tip /\ Syncing'
    BY DEF Tree, Tip, Syncing
<1>2. Shapes'
    BY <1>1 DEF Inv, Shapes, Stage
<1>3. EpisodesOK' /\ Owned'
    BY DEF Inv, EpisodesOK, Owned, Names
<1>4. FreshOK' /\ InOrder'
    BY DEF FreshOK, InOrder
<1>5. TreesOK' /\ SavedMatches' /\ SyncSpares'
    BY <1>1, SyncGoesOn
<1>6. SyncMatches'
    <2>1. SUFFICES ASSUME NoReindexStopped, NoneRestored,
                          NEW p \in Path, p \notin todo' \cup st'.dead, IsFact(Tree[p])
                   PROVE  FoundBy(graph, st', Tree[p].id) = Expected(Tree[p]) /\ Tree[p].id \notin gone
        BY <1>1 DEF SyncMatches
    <2>2. FoundBy(graph, st, Tree[p].id) = Expected(Tree[p])
        BY <2>1 DEF Inv, SyncMatches
    <2>3. st'.facts[Tree[p].id] = st.facts[Tree[p].id]
        BY <2>1, HeadFile
    <2>4. QED
        BY <2>2, <2>3 DEF FoundBy
<1>7. QED
    BY <1>2, <1>3, <1>4, <1>5, <1>6 DEF Inv

LEMMA RemovedKeeps == ASSUME Inv, Removed PROVE Inv'
<1>1. /\ pc = "remove" /\ pc' = "upsert" /\ gone = {} /\ Syncing
      /\ UNCHANGED <<history, graph, made, saved, st, gone, todo, fresh, used>>
    BY DEF Removed, memory, Syncing
<1>2. fresh = {} /\ st \in State /\ used \in [Event -> Nat]
    BY <1>1 DEF Inv, FreshOK, Shapes
<1>3. QED
    BY <1>1, <1>2, MovesOn DEF NoReindexStopped, NoneRestored

LEMMA DeadEdits ==
    ASSUME NEW s \in State, NEW D \in SUBSET Path, NEW t, t = [s EXCEPT !.dead = D]
    PROVE  t \in State /\ t.dead = D /\ t.facts = s.facts
BY DEF State

LEMMA SkipKeeps == ASSUME Inv, NEW p \in Path, Skip(p) PROVE Inv'
<1> DEFINE D == IF Tree[p].status \in {"none", "plain"} THEN st.dead \ {p} ELSE st.dead \cup {p}
<1>1. /\ pc = "upsert" /\ pc' = "upsert" /\ Syncing /\ ~IsFact(Tree[p])
      /\ todo' = todo \ {p} /\ st' = [st EXCEPT !.dead = D]
      /\ UNCHANGED <<history, graph, made, saved, gone, fresh, used>>
    BY DEF Skip, Syncing
<1>2. fresh = {} /\ gone = {} /\ st \in State /\ used \in [Event -> Nat] /\ D \in SUBSET Path
    BY <1>1 DEF Inv, FreshOK, Shapes, State, InOrder
<1>3. \A q \in Path : q # p => (q \in D <=> q \in st.dead)
    OBVIOUS
<1> HIDE DEF D
<1>4. st' \in State /\ st'.dead = D /\ st'.facts = st.facts
    BY <1>1, <1>2, DeadEdits
<1>5. \A q \in Path : q \notin todo' \cup st'.dead /\ IsFact(Tree[q]) => q \notin todo \cup st.dead
    BY <1>1, <1>3, <1>4
<1>6. QED
    BY <1>1, <1>2, <1>4, <1>5, MovesOn DEF NoReindexStopped, NoneRestored

LEMMA FailsKeeps == ASSUME Inv, NEW p \in Path, Fails(p) PROVE Inv'
<1>1. /\ pc \in {"upsert", "replace"} /\ pc' = "upsert" /\ Syncing /\ fresh' = {}
      /\ todo' = todo \ {p} /\ st' = [st EXCEPT !.dead = st.dead \cup {p}]
      /\ UNCHANGED <<history, graph, made, saved, gone>> /\ Spend("fault")
    BY DEF Fails, Syncing, Inv, Shapes, State
<1>2. gone = {} /\ st \in State /\ st.dead \cup {p} \in SUBSET Path
    BY <1>1 DEF Inv, InOrder, Shapes, State
<1>3. /\ used' \in [Event -> Nat] /\ (used'["restore"] = 0 => used["restore"] = 0)
      /\ (NoReindexStopped' => NoReindexStopped) /\ (NoneRestored' => NoneRestored)
    BY <1>1, Spends DEF Event, Inv, Shapes
<1>4. st' \in State /\ st'.dead = st.dead \cup {p} /\ st'.facts = st.facts
    BY <1>1, <1>2, DeadEdits
<1>5. \A q \in Path : q \notin todo' \cup st'.dead => q \notin todo \cup st.dead
    BY <1>1, <1>4
<1>6. QED
    BY <1>1, <1>2, <1>3, <1>4, <1>5, MovesOn

LEMMA NextPath ==
    ASSUME todo \subseteq Path, NEW p \in Path, At(p), NEW q \in Path, At(q)
    PROVE  q = p
<1>1. p <= q /\ q <= p /\ p \in Nat /\ q \in Nat
    BY SyncAssumption DEF At
<1>2. QED
    BY <1>1

LEMMA CreateKeeps == ASSUME Inv, NEW p \in Path, Create(p) PROVE Inv'
<1> DEFINE new == [uuid |-> made + 1, fact |-> Tree[p].id, rev |-> Tree[p].rev]
           active == Tree[p].status = "active"
<1>1. /\ pc = "upsert" /\ pc' = "replace" /\ Syncing /\ Syncing' /\ At(p) /\ IsFact(Tree[p])
      /\ UNCHANGED <<history, saved, st, gone, todo, clearing, used>>
      /\ gone = {} /\ fresh = {} /\ made \in Nat
    BY DEF Create, Syncing, Inv, InOrder, FreshOK, Shapes
<1>2. Tree[p] \in File /\ Tree[p].id \in Fact
    BY <1>1, HeadFile
<1>3. new \in Episode /\ new.uuid = made + 1 /\ new.fact = Tree[p].id
    BY <1>1, <1>2 DEF Episode, File
<1>4. \/ active /\ made' = made + 1 /\ fresh' = {made + 1} /\ graph' = graph \cup {new}
      \/ ~active /\ UNCHANGED <<made, fresh, graph>>
    BY DEF Create
<1>5. made' \in Nat /\ made <= made'
    BY <1>1, <1>4
<1>6. Tree' = Tree /\ Tip' = Tip
    BY <1>1 DEF Tree, Tip
<1>7. \A s \in {saved, st}, g \in Fact : s.facts[g] \subseteq 1..made
    BY DEF Inv, Owned, Names
<1>8. \A s \in {saved, st}, g \in Fact : \A x \in graph' : x.uuid \in s.facts[g] => x \in graph
    <2>1. \A s \in {saved, st}, g \in Fact : made + 1 \notin s.facts[g]
        BY <1>1, <1>7
    <2>2. \A x \in graph' : x \in graph \/ x.uuid = made + 1
        BY <1>3, <1>4
    <2>3. QED
        BY <2>1, <2>2
<1>9. graph \subseteq graph'
    BY <1>4
<1>10. Shapes'
    BY <1>1, <1>3, <1>4, <1>5, <1>6 DEF Inv, Shapes, Stage
<1>11. EpisodesOK'
    <2>1. \A e \in graph : e.uuid \in Nat /\ e.uuid <= made
        BY DEF Inv, EpisodesOK, Shapes, Episode
    <2>2. QED
        BY <1>1, <1>3, <1>4, <2>1 DEF Inv, EpisodesOK
<1>12. Owned'
    <2>1. ASSUME NEW g \in Fact PROVE Names(saved, g)' /\ Names(st, g)'
        <3>1. Names(saved, g) /\ Names(st, g)
            BY DEF Inv, Owned
        <3>2. 1..made \subseteq 1..made'
            BY <1>1, <1>5
        <3>3. QED
            BY <1>1, <1>8, <3>1, <3>2 DEF Names
    <2>2. QED
        BY <2>1 DEF Owned
<1>13. FreshOK'
    <2>1. FreshIs(p)'
        <3>1. CASE active
            BY <1>4, <1>6, <3>1 DEF FreshIs
        <3>2. CASE ~active
            BY <1>1, <1>4, <1>6, <3>2 DEF FreshIs
        <3>3. QED
            BY <3>1, <3>2
    <2>2. \A q \in Path : At(q)' => q = p
        BY <1>1, NextPath DEF At, Inv, Shapes
    <2>3. \A u \in fresh' : u \in 1..made' /\ \A f \in Fact : u \notin st.facts[f]
        BY <1>1, <1>4, <1>7
    <2>4. QED
        BY <1>1, <1>6, <2>1, <2>2, <2>3 DEF FreshOK
<1>14. InOrder'
    BY <1>1 DEF InOrder
<1>15. TreesOK' /\ SavedMatches' /\ SyncSpares'
    BY <1>1, <1>8, <1>9, CleanFile, SyncGoesOn DEF NoReindexStopped, NoneRestored
<1>16. SyncMatches'
    <2>1. SUFFICES ASSUME NoReindexStopped, NoneRestored,
                          NEW q \in Path, q \notin todo \cup st.dead, IsFact(Tree[q])
                   PROVE  FoundBy(graph', st, Tree[q].id) = Expected(Tree[q]) /\ Tree[q].id \notin gone
        BY <1>1, <1>6 DEF SyncMatches, NoReindexStopped, NoneRestored
    <2>2. FoundBy(graph, st, Tree[q].id) = Expected(Tree[q])
        BY <1>1, <2>1 DEF Inv, SyncMatches
    <2>3. FoundBy(graph', st, Tree[q].id) = FoundBy(graph, st, Tree[q].id)
        BY <1>8, <1>9, <2>1, HeadFile, FoundKept
    <2>4. QED
        BY <1>1, <2>2, <2>3
<1>17. QED
    BY <1>10, <1>11, <1>12, <1>13, <1>14, <1>15, <1>16 DEF Inv

LEMMA ReplaceKeeps == ASSUME Inv, NEW p \in Path, Replace(p) PROVE Inv'
<1> DEFINE f == Tree[p].id
           D == st.dead \ {p}
<1>1. /\ pc = "replace" /\ pc' = "upsert" /\ Syncing /\ Syncing' /\ At(p) /\ p \in todo
      /\ graph' = Without(st.facts[f]) /\ graph' \subseteq graph
      /\ fresh' = {} /\ todo' = todo \ {p}
      /\ UNCHANGED <<history, made, saved, gone, clearing, used>> /\ gone = {}
    BY DEF Replace, Syncing, Inv, InOrder, At, Without
<1>2. IsFact(Tree[p]) /\ FreshIs(p) /\ \A u \in fresh : u \in 1..made /\ u \notin st.facts[f]
    <2>1. IsFact(Tree[p]) /\ FreshIs(p)
        BY <1>1 DEF Inv, FreshOK
    <2>2. f \in Fact
        BY <2>1, HeadFile
    <2>3. QED
        BY <2>1, <2>2 DEF Inv, FreshOK
<1>3. f \in Fact /\ \A q \in Path : Tree[q].id = f => q = p
    BY <1>2, HeadFile
<1>4. st \in State /\ fresh \in SUBSET Nat /\ D \in SUBSET Path
    BY DEF Inv, Shapes, State
<1>5. st' = [st EXCEPT !.facts[f] = fresh, !.dead = D]
    BY <1>4 DEF Replace, State
<1>6. /\ st' \in State /\ st'.dead = D /\ st'.facts[f] = fresh
      /\ \A g \in Fact \ {f} : st'.facts[g] = st.facts[g]
    BY <1>3, <1>4, <1>5 DEF State
<1>7. \A x \in graph : x.uuid \in fresh =>
          /\ Tree[p].status = "active" /\ x = [uuid |-> x.uuid, fact |-> f, rev |-> Tree[p].rev]
          /\ x \in graph'
    <2>1. SUFFICES ASSUME NEW x \in graph, x.uuid \in fresh
                   PROVE  /\ Tree[p].status = "active"
                          /\ x = [uuid |-> x.uuid, fact |-> f, rev |-> Tree[p].rev]
                          /\ x \in graph'
        OBVIOUS
    <2>2. PICK u \in fresh : /\ Tree[p].status = "active" /\ fresh = {u}
                             /\ [uuid |-> u, fact |-> Tree[p].id, rev |-> Tree[p].rev] \in graph
        BY <1>2, <2>1 DEF FreshIs
    <2>3. x = [uuid |-> u, fact |-> Tree[p].id, rev |-> Tree[p].rev] /\ x.uuid = u
        BY <2>1, <2>2 DEF Inv, EpisodesOK
    <2>4. QED
        BY <1>1, <1>2, <2>2, <2>3 DEF Without
<1>8. FoundBy(graph', st', f) = Expected(Tree[p])
    <2>1. CASE Tree[p].status = "active"
        <3>1. PICK u \in fresh : /\ fresh = {u}
                                 /\ [uuid |-> u, fact |-> f, rev |-> Tree[p].rev] \in graph
            BY <1>2, <2>1 DEF FreshIs
        <3>2. [uuid |-> u, fact |-> f, rev |-> Tree[p].rev] \in graph'
            BY <1>7, <3>1
        <3>3. {x \in graph' : x.uuid \in fresh} = {[uuid |-> u, fact |-> f, rev |-> Tree[p].rev]}
            BY <1>1, <1>7, <3>1, <3>2
        <3>4. {x \in graph' : x.uuid \in st'.facts[f]}
                 = {[uuid |-> u, fact |-> f, rev |-> Tree[p].rev]}
            BY <1>6, <3>3
        <3> DEFINE X == {x \in graph' : x.uuid \in st'.facts[f]}
                   r == [uuid |-> u, fact |-> f, rev |-> Tree[p].rev]
        <3>5. FoundBy(graph', st', f) = {Tree[p].rev}
            <4>1. FoundBy(graph', st', f) = {e.rev : e \in X}
                BY DEF FoundBy
            <4>2. X = {r} /\ r.rev = Tree[p].rev
                BY <3>4
            <4> HIDE DEF X, r
            <4>3. QED
                BY <4>1, <4>2
        <3>6. QED
            BY <2>1, <3>5 DEF Expected
    <2>2. CASE Tree[p].status # "active"
        <3>1. fresh = {}
            BY <1>2, <2>2 DEF FreshIs
        <3>2. {x \in graph' : x.uuid \in st'.facts[f]} = {}
            BY <1>6, <3>1
        <3>3. QED
            BY <2>2, <3>2 DEF FoundBy, Expected
    <2>3. QED
        BY <2>1, <2>2
<1>9. Tree' = Tree /\ Tip' = Tip
    BY <1>1 DEF Tree, Tip
<1>10. Shapes'
    BY <1>1, <1>6, <1>9 DEF Inv, Shapes, Stage
<1>11. EpisodesOK'
    BY <1>1 DEF Inv, EpisodesOK
<1>12. Owned'
    <2>1. ASSUME NEW g \in Fact PROVE Names(saved, g)' /\ Names(st, g)'
        <3>1. Names(saved, g) /\ Names(st, g)
            BY DEF Inv, Owned
        <3>2. Names(saved, g)'
            BY <1>1, <3>1 DEF Names
        <3>3. CASE g # f
            BY <1>1, <1>6, <3>1, <3>2, <3>3 DEF Names
        <3>4. CASE g = f
            <4>1. fresh \subseteq 1..made
                BY <1>2
            <4>2. \A x \in graph' : x.uuid \in fresh => x.fact = f
                BY <1>1, <1>7
            <4>3. QED
                BY <1>1, <1>6, <3>2, <3>4, <4>1, <4>2 DEF Names
        <3>5. QED
            BY <3>3, <3>4
    <2>2. QED
        BY <2>1 DEF Owned
<1>13. FreshOK' /\ InOrder'
    BY <1>1 DEF FreshOK, InOrder
<1>14. \A q \in Path : Clean(q) => \A x \in graph \cup graph' :
           x.uuid \in saved.facts[Saved(q).id] => x \in graph \cap graph'
    BY <1>1, <1>3, OthersStay
<1>15. TreesOK' /\ SavedMatches' /\ SyncSpares'
    BY <1>1, <1>14, SyncGoesOn DEF NoReindexStopped, NoneRestored
<1>16. SyncMatches'
    <2>1. SUFFICES ASSUME NoReindexStopped, NoneRestored,
                          NEW q \in Path, q \notin todo' \cup D, IsFact(Tree[q])
                   PROVE  FoundBy(graph', st', Tree[q].id) = Expected(Tree[q]) /\ Tree[q].id \notin gone
        BY <1>1, <1>6, <1>9 DEF SyncMatches, NoReindexStopped, NoneRestored
    <2>2. CASE q = p
        BY <1>1, <1>8, <2>2
    <2>3. CASE q # p
        <3>1. q \notin todo \cup st.dead
            BY <1>1, <2>1, <2>3
        <3>2. FoundBy(graph, st, Tree[q].id) = Expected(Tree[q])
            BY <1>1, <2>1, <3>1 DEF Inv, SyncMatches
        <3>3. Tree[q].id \in Fact \ {f}
            BY <1>3, <2>1, <2>3, HeadFile
        <3>4. FoundBy(graph', st', Tree[q].id) = FoundBy(graph, st, Tree[q].id)
            BY <1>1, <1>3, <1>6, <3>3, FoundKept, Spared
        <3>5. QED
            BY <1>1, <3>2, <3>4
    <2>4. QED
        BY <2>2, <2>3
<1>17. QED
    BY <1>10, <1>11, <1>12, <1>13, <1>15, <1>16 DEF Inv

\* What the sync has seen to becomes what a crash falls back on.
LEMMA SaveKeeps == ASSUME Inv, Save PROVE Inv'
<1>1. /\ pc = "upsert" /\ pc' = "idle" /\ todo = {} /\ Syncing /\ ~Syncing'
      /\ saved' = [st EXCEPT !.last = Tip] /\ st' = NoState
      /\ UNCHANGED <<history, graph, made, gone, todo, fresh, clearing, used>>
      /\ fresh = {}
    BY DEF Save, Syncing, Inv, FreshOK
<1>2. /\ Tip \in Nat /\ st \in State /\ Tip' = Tip /\ Tree' = Tree
    BY <1>1, TreeFields DEF Inv, Shapes, Tip, Tree
<1>3. saved' \in State /\ saved'.last = Tip /\ saved'.facts = st.facts /\ saved'.dead = st.dead
    BY <1>1, <1>2 DEF State
<1>4. Shapes'
    BY <1>1, <1>2, <1>3, NoStateIs DEF Inv, Shapes, Stage
<1>5. TreesOK' /\ EpisodesOK'
    BY <1>1 DEF Inv, TreesOK, EpisodesOK
<1>6. Owned'
    BY <1>1, <1>3, NoStateIs DEF Inv, Owned, Names
<1>7. FreshOK' /\ InOrder' /\ SyncSpares' /\ SyncMatches'
    BY <1>1 DEF FreshOK, InOrder, SyncSpares, SyncMatches
<1>8. SavedMatches'
    <2>1. \A p \in Path : Saved(p)' = Tree[p]
        BY <1>1, <1>3 DEF Saved, Tree
    <2>2. \A p \in Path : Clean(p)' => IsFact(Tree[p]) /\ p \notin todo \cup st.dead
        BY <1>1, <1>3, <2>1 DEF Clean
    <2>3. \A f : FoundBy(graph, saved', f) = FoundBy(graph, st, f)
        BY <1>3 DEF FoundBy
    <2>4. QED
        BY <1>1, <2>1, <2>2, <2>3 DEF Inv, SyncMatches, SavedMatches, NoReindexStopped, NoneRestored
<1>9. QED
    BY <1>4, <1>5, <1>6, <1>7, <1>8 DEF Inv

-----------------------------------------------------------------------------
(* Reindex, faults, crashes                                                *)

LEMMA ReindexKeeps == ASSUME Inv, Reindex PROVE Inv'
<1>1. /\ pc = "idle" /\ pc' = "clear" /\ ~Syncing' /\ Spend("reindex")
      /\ UNCHANGED <<history, graph, made, saved, st, gone, todo, fresh>>
    BY DEF Reindex, Syncing
<1>2. used' \in [Event -> Nat] /\ used'["reindex"] > 0
    <2>1. used \in [Event -> Nat] /\ "reindex" \in Event
        BY DEF Inv, Shapes, Event
    <2>2. used' \in [Event -> Nat] /\ used'["reindex"] = used["reindex"] + 1
        BY <1>1, <2>1, Spends
    <2>3. QED
        BY <2>1, <2>2
<1>3. Tip' = Tip
    BY <1>1 DEF Tip
<1>4. Shapes'
    BY <1>1, <1>2, <1>3 DEF Inv, Shapes, Stage
<1>5. TreesOK' /\ EpisodesOK' /\ Owned' /\ FreshOK'
    BY <1>1 DEF Inv, TreesOK, EpisodesOK, Owned, Names, FreshOK
<1>6. InOrder' /\ SavedMatches' /\ SyncSpares' /\ SyncMatches'
    BY <1>1, <1>2 DEF InOrder, SavedMatches, SyncSpares, SyncMatches
<1>7. QED
    BY <1>4, <1>5, <1>6 DEF Inv

LEMMA ClearKeeps == ASSUME Inv, NEW f \in Fact, Clear(f) PROVE Inv'
<1>1. /\ pc = "clear" /\ pc' \in {"clear", "reset"} /\ ~Syncing' /\ graph' \subseteq graph
      /\ UNCHANGED <<history, made, saved, st, gone, todo, fresh, used>>
    BY DEF Clear, Syncing
<1>2. Tip' = Tip
    BY <1>1 DEF Tip
<1>3. Shapes'
    BY <1>1, <1>2 DEF Inv, Shapes, Stage
<1>4. TreesOK' /\ EpisodesOK' /\ Owned' /\ FreshOK'
    BY <1>1 DEF Inv, TreesOK, EpisodesOK, Owned, Names, FreshOK
<1>5. InOrder' /\ SavedMatches' /\ SyncSpares' /\ SyncMatches'
    BY <1>1 DEF Inv, InOrder, SavedMatches, SyncSpares, SyncMatches
<1>6. QED
    BY <1>3, <1>4, <1>5 DEF Inv

LEMMA ResetKeeps == ASSUME Inv, Reset PROVE Inv'
<1>1. /\ pc = "reset" /\ pc' = "resync" /\ ~Syncing' /\ saved' = NoState
      /\ UNCHANGED <<history, graph, made, st, gone, todo, fresh, used>>
    BY DEF Reset, Syncing, memory
<1>2. Tip' = Tip /\ Tip \in Nat
    BY <1>1, TreeFields DEF Tip
<1>3. Shapes'
    BY <1>1, <1>2, NoStateIs DEF Inv, Shapes, Stage
<1>4. TreesOK' /\ EpisodesOK' /\ Owned' /\ FreshOK'
    BY <1>1, NoStateIs DEF Inv, TreesOK, EpisodesOK, Owned, Names, FreshOK
<1>5. InOrder' /\ SavedMatches' /\ SyncSpares' /\ SyncMatches'
    BY <1>1, NoStateIs DEF Inv, InOrder, SavedMatches, Clean, SyncSpares, SyncMatches
<1>6. QED
    BY <1>3, <1>4, <1>5 DEF Inv

\* A sync or reindex is stopped: if its work mattered, that is recorded in the counters.
LEMMA EndKeeps ==
    ASSUME Inv, End, used' \in [Event -> Nat],
           NoReindexStopped' => NoReindexStopped, NoneRestored' => NoneRestored,
           NoneStopped' => NoneStopped, used'["restore"] = 0 => used["restore"] = 0,
           pc \in {"clear", "reset"} => ~NoReindexStopped',
           Syncing => ~NoneStopped'
    PROVE  Inv'
<1>1. /\ pc' = "idle" /\ ~Syncing' /\ st' = NoState /\ gone' = {} /\ todo' = {} /\ fresh' = {}
      /\ UNCHANGED <<history, graph, made, saved>>
    BY DEF End, Syncing
<1>2. Tip' = Tip /\ Tree' = Tree /\ \A p \in Path : Saved(p)' = Saved(p)
    BY <1>1 DEF Tip, Tree, Saved
<1>3. Shapes'
    BY <1>1, <1>2, NoStateIs DEF Inv, Shapes, Stage
<1>4. TreesOK' /\ EpisodesOK' /\ Owned'
    BY <1>1, NoStateIs DEF Inv, TreesOK, EpisodesOK, Owned, Names
<1>5. FreshOK' /\ InOrder' /\ SyncSpares' /\ SyncMatches'
    BY <1>1 DEF FreshOK, InOrder, SyncSpares, SyncMatches
<1>6. \A p \in Path : Clean(p)' => Clean(p)
    BY <1>1, <1>2 DEF Clean
<1>7. SavedMatches'
    BY <1>1, <1>2, <1>6 DEF Inv, SavedMatches
<1>8. QED
    BY <1>3, <1>4, <1>5, <1>7 DEF Inv

LEMMA StopKeeps == ASSUME Inv, NEW e \in {"crash", "fault"}, Spend(e), End PROVE Inv'
<1>1. used \in [Event -> Nat] /\ e \in Event /\ {"crash", "fault", "reindex"} \subseteq Event
    BY DEF Inv, Shapes, Event
<1>2. /\ used' \in [Event -> Nat] /\ used'[e] = used[e] + 1
      /\ \A x \in Event \ {e} : used'[x] = used[x]
      /\ (NoReindexStopped' => NoReindexStopped) /\ (NoneRestored' => NoneRestored)
      /\ (NoneStopped' => NoneStopped) /\ (used'["restore"] = 0 => used["restore"] = 0)
    BY <1>1, Spends
<1>3. used["crash"] \in Nat /\ used["fault"] \in Nat /\ used'["crash"] \in Nat /\ used'["fault"] \in Nat
    BY <1>1, <1>2
<1>4. used'["crash"] + used'["fault"] > 0
    BY <1>1, <1>2, <1>3
<1>5. used'["reindex"] = used["reindex"]
    BY <1>1, <1>2
<1>6. pc \in {"clear", "reset"} => ~NoReindexStopped'
    BY <1>4, <1>5 DEF Inv, InOrder, NoReindexStopped
<1>7. ~NoneStopped'
    BY <1>4 DEF NoneStopped
<1>8. QED
    BY <1>2, <1>6, <1>7, EndKeeps

LEMMA CannotResyncKeeps == ASSUME Inv, CannotResync PROVE Inv'
<1>1. End /\ used' = used /\ pc = "resync"
    BY DEF CannotResync
<1>2. used \in [Event -> Nat]
    BY DEF Inv, Shapes
<1>3. QED
    BY <1>1, <1>2, EndKeeps DEF NoReindexStopped, NoneRestored, NoneStopped, Syncing

-----------------------------------------------------------------------------
(* The theorem                                                             *)

LEMMA InitHolds == ASSUME Init PROVE Inv
<1> DEFINE empty == [p \in Path |-> NoFile]
<1>1. empty \in [Path -> File]
    BY DEF NoFile, File, Status
<1>2. \A p \in Path : empty[p].rev = 0 /\ empty[p].id = 0 /\ ~IsFact(empty[p])
    BY DEF NoFile, IsFact
<1>3. history = <<empty>>
    BY DEF Init
<1> HIDE DEF empty
<1>4. history \in Seq([Path -> File]) /\ history # <<>> /\ Len(history) = 1 /\ history[1] = empty
    BY <1>1, <1>3
<1>5. graph = {} /\ made = 0 /\ saved = NoState /\ Nothing /\ pc = "idle" /\ used \in [Event -> Nat]
    BY DEF Init
<1>6. Shapes
    BY <1>4, <1>5, NoStateIs DEF Shapes, Nothing, Tip, Stage
<1>7. TreesOK
    BY <1>2, <1>4 DEF TreesOK, TreeOK
<1>8. EpisodesOK /\ Owned
    BY <1>5, NoStateIs DEF EpisodesOK, Owned, Names, Nothing
<1>9. FreshOK /\ InOrder /\ SyncSpares /\ SyncMatches
    BY <1>5 DEF FreshOK, InOrder, SyncSpares, SyncMatches, Syncing, Nothing
<1>10. SavedMatches
    BY <1>5, NoStateIs DEF SavedMatches, Clean
<1>11. QED
    BY <1>6, <1>7, <1>8, <1>9, <1>10 DEF Inv

LEMMA NextKeeps == ASSUME Inv, [Next]_vars PROVE Inv'
<1>1. CASE Work
    BY <1>1, StartKeeps, RemovedKeeps, SaveKeeps, ResetKeeps, CannotResyncKeeps,
       RemoveKeeps, ClearKeeps, SkipKeeps, CreateKeeps, ReplaceKeeps DEF Work
<1>2. CASE Reindex \/ \E p \in Path : Fails(p)
    BY <1>2, ReindexKeeps, FailsKeeps
<1>3. CASE Raises \/ Crash
    BY <1>3, StopKeeps DEF Raises, Crash
<1>4. CASE \/ \E p \in Path, id \in Fact \cup {0}, s \in Status : Commit(p, id, s)
           \/ \E p \in Path, i \in 1..Tip : Restore(p, i)
    BY <1>4, CommitKeeps, RestoreKeeps
<1>5. CASE UNCHANGED vars
    <2>1. /\ UNCHANGED <<history, graph, made, saved, st, gone, todo, fresh, clearing, pc, used>>
        BY <1>5 DEF vars, memory
    <2>2. Shapes' /\ TreesOK' /\ EpisodesOK' /\ Owned' /\ FreshOK' /\ InOrder'
        BY <2>1 DEF Inv, Shapes, Tip, TreesOK, EpisodesOK, Owned, Names, FreshOK, At, FreshIs, Tree, InOrder
    <2>3. Tip' = Tip /\ Tree' = Tree /\ (Syncing' <=> Syncing) /\ \A p \in Path : Clean(p)' <=> Clean(p)
        BY <2>1 DEF Tip, Tree, Syncing, Clean, Saved, NoneStopped
    <2>4. SavedMatches' /\ SyncSpares' /\ SyncMatches'
        BY <2>1, <2>3 DEF Inv, SavedMatches, SyncSpares, SyncMatches, Saved, NoReindexStopped, NoneRestored
    <2>5. QED
        BY <2>2, <2>4 DEF Inv
<1>6. QED
    BY <1>1, <1>2, <1>3, <1>4, <1>5 DEF Next

\* The inductive invariant: what the sync has done so far fits what it will save, and what
\* the saved state says of the untouched files stays true until then.
THEOREM Inductive == Spec => []Inv
<1>1. Init => Inv
    BY InitHolds
<1>2. Inv /\ [Next]_vars => Inv'
    BY NextKeeps
<1>3. QED
    BY <1>1, <1>2, PTL DEF Spec

\* Whatever the syncs before went through, once the state file says HEAD is ingested a search
\* finds every fact of HEAD as HEAD has it (dead letters aside): sync.py saves last_ingested_commit
\* only when all changes since the last one are in the graph or dead letters.
THEOREM IndexComesToMatch == Spec => []IndexMatchesHead
<1>1. ASSUME Inv PROVE IndexMatchesHead
    <2>1. SUFFICES ASSUME NoReindexStopped, NoneRestored, pc = "idle", saved.last = Tip,
                          NEW p \in Path, p \notin saved.dead, IsFact(Tree[p])
                   PROVE  Found(Tree[p].id) = IF Tree[p].status = "active" THEN {Tree[p].rev} ELSE {}
        BY DEF IndexMatchesHead
    <2>2. Saved(p) = Tree[p] /\ saved.last # 0
        BY <1>1, <2>1, TreeFields DEF Saved, Tree
    <2>3. Clean(p)
        BY <2>1, <2>2 DEF Clean, NoneRestored, NoneStopped, Syncing
    <2>4. QED
        BY <1>1, <2>1, <2>2, <2>3 DEF Inv, SavedMatches, Found, FoundBy, Expected
<1>2. QED
    BY <1>1, Inductive, PTL
=============================================================================
