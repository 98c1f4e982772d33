------------------------------ MODULE GitWriter ------------------------------
(***************************************************************************)
(* The write path of the Git backend: GitStore's dedicated clone           *)
(* (gitstore.py) under the writes of FactService (facts.py).  The remote's *)
(* main branch is the truth, and people push to it as well.                *)
(*                                                                         *)
(* A write takes the lock, fetches, fast-forwards, checks and writes its   *)
(* files, then adds, commits and pushes, rebasing when the remote has      *)
(* moved.  Each git command is one action.  The commands run in a thread:  *)
(* cancelling a call frees the lock at once, while its thread goes on.  A  *)
(* crash ends every call and leaves the clone as it is.                    *)
(*                                                                         *)
(* A branch is the sequence of its commits, a commit the function from the *)
(* paths it changes to what it leaves there: equal prefixes are equal      *)
(* commits, and a commit that is replayed elsewhere is another one.        *)
(***************************************************************************)
EXTENDS Integers, SequencesExt

CONSTANTS
    Call,       \* the calls made in a behaviour
    Fact,       \* the facts there can be, one file each
    Seeded,     \* the facts of the first commit
    Budgets     \* bounds on the events: each b \in Budgets allows b[e] events e

Event == {"push", "rewrite", "crash", "cut", "cancel", "disk"}

ASSUME GitAssumption ==
    /\ Seeded \subseteq Fact
    /\ Budgets \subseteq [Event -> Nat]
    /\ Call \subseteq Nat \ {0}

VARIABLES
    remote,     \* main as the remote has it
    tracking,   \* origin/main, as the clone last saw it
    local,      \* HEAD of the clone
    index,      \* the staged content of every path
    tree,       \* the working tree
    lock,       \* {the call that holds the lock}, or {}
    pc,         \* pc[c]: what call c does next
    want,       \* want[c]: the fact c adds, the facts it retires, and as what it saw them
    tries,      \* tries[c]: pushes c has left
    answer,     \* answer[c]: what its caller was told
    used        \* used[e]: how often event e has happened

clone == <<tracking, local, index, tree>>
calls == <<lock, pc, want, tries, answer>>
vars == <<remote, clone, calls, used>>

\* by: the call that wrote the file, 0 for the first commit, less for outsiders.
Absent == [status |-> "absent", by |-> 0]
Written(c, s) == [status |-> s, by |-> c]

Status == {"absent", "active", "invalidated"}
Author == Call \cup {0} \cup {-n : n \in 1..(used["push"] + used["rewrite"])}
Content == [status : Status, by : Author]
Commit == UNION {[S -> Content] : S \in SUBSET Fact}

\* An add names a new fact and may supersede another; an invalidate names an old
\* one; a sync, or a read under the lock, names none.  A caller may pass the hash of
\* what it saw of the old fact: expect is that content.
AtMostOne(S) == {{}} \cup {{x} : x \in S}
Want == [new : AtMostOne(Fact), old : AtMostOne(Fact), expect : AtMostOne(Content)]
WantNothing == [new |-> {}, old |-> {}, expect |-> {}]
Files(c) == want[c].new \cup want[c].old

InThread == {"fetch", "forward", "add", "commit", "push", "refetch", "rebase", "drop", "undo", "abort", "discard"}
Stage == InThread \cup {"idle", "wait", "check", "write", "done"}
\* Refused by a check; an exception, reset and passed on; one that nothing resets.
Answer == {"none", "ok", "conflict", "refused", "error", "rewritten", "failed"}

TypeOK ==
    /\ {remote, tracking, local} \subseteq Seq(Commit)
    /\ {index, tree} \subseteq [Fact -> Content]
    /\ lock \subseteq Call
    /\ pc \in [Call -> Stage]
    /\ want \in [Call -> Want]
    /\ tries \in [Call -> 0..3]
    /\ answer \in [Call -> Answer]
    /\ used \in [Event -> Nat]

-----------------------------------------------------------------------------
(* What git computes                                                       *)

\* The content of every path at the tip of a branch.
TreeOf(h) ==
    [f \in Fact |->
        LET T == {i \in 1..Len(h) : f \in DOMAIN h[i]}
        IN IF T = {} THEN Absent ELSE h[CHOOSE i \in T : \A j \in T : j <= i][f]]

\* The commits of h that are not on g: those after their last common one.
OnlyIn(h, g) ==
    SubSeq(h, 1 + Len(LongestCommonPrefix({h, g})), Len(h))

Paths(h) == UNION {DOMAIN h[i] : i \in 1..Len(h)}

Changed(h, g) == {f \in Fact : TreeOf(h)[f] # TreeOf(g)[f]}

Clean(f) == index[f] = TreeOf(local)[f] /\ tree[f] = index[f]
Untracked(f) == index[f] = Absent /\ tree[f] # Absent
NothingToCommit == index = TreeOf(local)

\* git leaves uncommitted work alone and refuses to move over it.
CanMoveTo(h) == \A f \in Changed(local, h) : Clean(f)
MoveTo(h) ==
    LET over(files) == [f \in Fact |-> IF f \in Changed(local, h) THEN TreeOf(h)[f] ELSE files[f]]
    IN local' = h /\ index' = over(index) /\ tree' = over(tree)

\* git reset --hard origin/main: everything but untracked files.
ResetHard ==
    /\ local' = tracking
    /\ index' = TreeOf(tracking)
    /\ tree' = [f \in Fact |-> IF Untracked(f) /\ TreeOf(tracking)[f] = Absent
                               THEN tree[f] ELSE TreeOf(tracking)[f]]
    /\ UNCHANGED tracking

Init ==
    /\ remote = <<[f \in Seeded |-> Written(0, "active")]>>
    /\ tracking = remote
    /\ local = remote
    /\ index = TreeOf(remote)
    /\ tree = index
    /\ lock = {}
    /\ pc = [c \in Call |-> "idle"]
    /\ want = [c \in Call |-> WantNothing]
    /\ tries = [c \in Call |-> 3]
    /\ answer = [c \in Call |-> "none"]
    /\ used = [e \in Event |-> 0]

-----------------------------------------------------------------------------
(* Moving a call on                                                        *)

Spend(e) ==
    /\ used' = [used EXCEPT ![e] = @ + 1]
    /\ \E b \in Budgets : \A x \in Event : used'[x] <= b[x]

Goto(c, p) == pc' = [pc EXCEPT ![c] = p]

\* The thread ends and its call goes on at p, unless it was cancelled.
Return(c, p) ==
    /\ Goto(c, IF c \in lock THEN p ELSE "done")
    /\ UNCHANGED <<lock, want, tries, answer>>

\* The call leaves the lock and answers a, unless it was cancelled.
Finish(c, a) ==
    /\ Goto(c, "done")
    /\ lock' = lock \ {c}
    /\ answer' = IF c \in lock THEN [answer EXCEPT ![c] = a] ELSE answer
    /\ UNCHANGED <<want, tries>>

\* The thread goes on to its next command.
Then(c, p) == Goto(c, p) /\ UNCHANGED <<lock, want, tries, answer>>

-----------------------------------------------------------------------------
(* fetch_and_ff, and what a call does before its first git command         *)

\* Calls are numbered in the order they are made.
Begin(c, new, old, expect) ==
    /\ pc[c] = "idle" /\ \A d \in Call : d < c => pc[d] # "idle"
    /\ new \cap old = {}
    /\ want' = [want EXCEPT ![c] = [new |-> new, old |-> old, expect |-> expect]]
    /\ Goto(c, "wait")
    /\ UNCHANGED <<remote, clone, lock, tries, answer, used>>

Acquire(c) ==
    /\ pc[c] = "wait"
    /\ lock = {}
    /\ lock' = {c}
    /\ Goto(c, "fetch")
    /\ UNCHANGED <<remote, clone, want, tries, answer, used>>

Fetch(c) ==
    /\ pc[c] = "fetch"
    /\ \/ tracking' = remote /\ Then(c, "forward") /\ UNCHANGED used
       \/ Finish(c, "failed") /\ Spend("cut") /\ UNCHANGED tracking
    /\ UNCHANGED <<remote, local, index, tree>>

\* What fetch_and_ff takes for a rewritten history: no common commit, or a remote
\* that is an ancestor of the clone.
Rewritten ==
    \/ LongestCommonPrefix({local, tracking}) = <<>>
    \/ IsStrictPrefix(tracking, local)

\* A clone with commits of its own beside the remote's is left to the rebase.
Forward(c) ==
    /\ pc[c] = "forward"
    /\ UNCHANGED <<remote, tracking, used>>
    /\ \/ /\ IsStrictPrefix(local, tracking) /\ CanMoveTo(tracking)
          /\ MoveTo(tracking)
          /\ Return(c, "check")
       \/ /\ IsStrictPrefix(local, tracking) /\ ~CanMoveTo(tracking)
          /\ Finish(c, "failed")
          /\ UNCHANGED <<local, index, tree>>
       \/ /\ ~IsStrictPrefix(local, tracking)
          /\ IF Rewritten THEN Finish(c, "rewritten") ELSE Return(c, "check")
          /\ UNCHANGED <<local, index, tree>>

\* Mutant of Expected: the hash is not compared.
ExpectedIgnored(c) == TRUE

\* The old facts are as the caller saw them.
Expected(c) == \A f \in want[c].old : \A x \in want[c].expect : tree[f] = x

\* The new path is free; the old facts are there, and active for an invalidate.
Acceptable(c) ==
    /\ Expected(c)
    /\ \A f \in want[c].new : tree[f] = Absent
    /\ \A f \in want[c].old :
        tree[f].status \in (IF want[c].new = {} THEN {"active"} ELSE {"active", "invalidated"})

\* Reads under the lock end here, or raise; a write is checked.
Check(c) ==
    /\ pc[c] = "check"
    /\ \/ Files(c) = {} /\ Finish(c, "ok")
       \/ Files(c) = {} /\ Then(c, "abort")
       \/ Files(c) # {} /\ Then(c, IF Acceptable(c) THEN "write" ELSE "undo")
    /\ UNCHANGED <<remote, clone, used>>

Unwritten(c) == {f \in Files(c) : tree[f].by # c}

\* One file, the new one before the one it supersedes; the last one starts the
\* thread that commits.  A write that fails raises.
WriteFile(c, f) ==
    /\ pc[c] = "write"
    /\ f \in Unwritten(c)
    /\ f \in want[c].old => want[c].new \cap Unwritten(c) = {}
    /\ \/ /\ tree' = [tree EXCEPT ![f] =
                Written(c, IF f \in want[c].new THEN "active" ELSE "invalidated")]
          /\ Then(c, IF Unwritten(c) = {f} THEN "add" ELSE "write")
          /\ UNCHANGED used
       \/ Spend("disk") /\ Then(c, "abort") /\ UNCHANGED tree
    /\ UNCHANGED <<remote, tracking, local, index>>
-----------------------------------------------------------------------------
(* _commit_and_push_sync, in its thread                                    *)

\* Mutant of Added: the superseded files are not staged.
AddedNewOnly(c) == IF want[c].new = {} THEN want[c].old ELSE want[c].new

\* The paths a write passes to git add.
Added(c) == Files(c)

Add(c) ==
    /\ pc[c] = "add"
    /\ index' = [f \in Fact |-> IF f \in Added(c) THEN tree[f] ELSE index[f]]
    /\ Then(c, "commit")
    /\ UNCHANGED <<remote, tracking, local, tree, used>>

\* The commit takes all that is staged, and fails when nothing is.
CommitStaged(c) ==
    /\ pc[c] = "commit"
    /\ LET staged == {f \in Fact : index[f] # TreeOf(local)[f]}
       IN IF staged = {}
          THEN Return(c, "discard") /\ UNCHANGED local
          ELSE Then(c, "push") /\ local' = Append(local, [f \in staged |-> index[f]])
    /\ UNCHANGED <<remote, tracking, index, tree, used>>

\* Mutant of Accepted: the push is forced.
AcceptedAlways == TRUE

\* The remote takes a push that extends it.
Accepted == IsPrefix(remote, local)

\* Mutant of TryAgain: one push too many.
TryAgainOnceMore(c) == tries[c] >= 0

TryAgain(c) == tries[c] > 0

\* A push lands and is answered, lands and is not, or does not land.
Push(c) ==
    /\ pc[c] = "push"
    /\ TryAgain(c)
    /\ \/ /\ Accepted
          /\ remote' = local /\ tracking' = local
          /\ Finish(c, "ok")
          /\ UNCHANGED used
       \/ /\ remote' = IF Accepted THEN local ELSE remote
          /\ tries' = [tries EXCEPT ![c] = @ - 1]
          /\ Goto(c, "refetch")
          /\ IF Accepted THEN Spend("cut") ELSE UNCHANGED used
          /\ UNCHANGED <<tracking, lock, want, answer>>
       \/ /\ Accepted /\ Spend("cut")
          /\ tries' = [tries EXCEPT ![c] = @ - 1]
          /\ Goto(c, "refetch")
          /\ UNCHANGED <<remote, tracking, lock, want, answer>>
    /\ UNCHANGED <<local, index, tree>>

\* Mutant of OutOfTries: the last try counts as a success.
OutOfTriesIsOk(c) ==
    /\ pc[c] = "push"
    /\ ~TryAgain(c)
    /\ Finish(c, "ok")
    /\ UNCHANGED <<remote, clone, used>>

OutOfTries(c) ==
    /\ pc[c] = "push"
    /\ ~TryAgain(c)
    /\ Then(c, "drop")
    /\ UNCHANGED <<remote, clone, used>>

Refetch(c) ==
    /\ pc[c] = "refetch"
    /\ \/ tracking' = remote /\ Then(c, "rebase") /\ UNCHANGED used
       \/ Return(c, "discard") /\ Spend("cut") /\ UNCHANGED tracking
    /\ UNCHANGED <<remote, local, index, tree>>

\* Uncommitted changes stop a rebase before it starts, and its --abort with it.
RebaseStarts ==
    /\ \A f \in Fact : Clean(f) \/ Untracked(f)
    /\ \A f \in Changed(local, tracking) : Untracked(f) => TreeOf(tracking)[f] = Absent

\* Both sides changed a file.  git may merge them line by line, but not two files
\* of one name or two invalidations.
Overlap == Paths(OnlyIn(local, tracking)) \cap Paths(OnlyIn(tracking, local))
Mergeable == \A f \in Overlap :
    TreeOf(local)[f].status = "invalidated" /\ TreeOf(tracking)[f].status = "active"

\* The commits of the clone are replayed on the remote's, or the rebase is given up.
Rebase(c) ==
    /\ pc[c] = "rebase"
    /\ \/ /\ ~RebaseStarts
          /\ Return(c, "discard")
          /\ UNCHANGED <<local, index, tree>>
       \/ /\ RebaseStarts /\ Overlap # {}
          /\ Then(c, "drop")
          /\ UNCHANGED <<local, index, tree>>
       \/ /\ RebaseStarts /\ Mergeable
          /\ MoveTo(tracking \o OnlyIn(local, tracking))
          /\ Then(c, "push")
    /\ UNCHANGED <<remote, tracking, used>>

\* The thread gives its commit up: reset, then WriteConflict.
Drop(c) ==
    /\ pc[c] = "drop"
    /\ ResetHard
    /\ Return(c, "discard")
    /\ UNCHANGED <<remote, used>>

\* What the caller is told when the reset is done.
Undoing == [undo |-> "refused", abort |-> "error", discard |-> "conflict"]

\* Mutant of Undo: a failed call leaves the lock without a reset.
UndoNothing(c) ==
    /\ pc[c] \in DOMAIN Undoing
    /\ Finish(c, Undoing[pc[c]])
    /\ UNCHANGED <<remote, clone, used>>

\* write_lock's and commit_and_push_locked's reset, for any exception.
Undo(c) ==
    /\ pc[c] \in DOMAIN Undoing
    /\ ResetHard
    /\ Finish(c, Undoing[pc[c]])
    /\ UNCHANGED <<remote, used>>

-----------------------------------------------------------------------------
(* Events                                                                  *)

\* A CancelledError frees the lock and is no Exception: nothing is reset.
Cancel(c) ==
    /\ c \in lock /\ pc[c] \in InThread
    /\ lock' = {}
    /\ Spend("cancel")
    /\ UNCHANGED <<remote, clone, pc, want, tries, answer>>

\* The process dies and starts again with the clone as it was.
Crash ==
    /\ Spend("crash")
    /\ lock' = {}
    /\ pc' = [c \in Call |-> IF pc[c] = "idle" THEN "idle" ELSE "done"]
    /\ UNCHANGED <<remote, clone, want, tries, answer>>

\* What somebody else commits to a file; no two such commits are equal.
Foreign(f, s) == [g \in {f} |-> Written(-(1 + used["push"] + used["rewrite"]), s)]

PushByOther(f, s) ==
    /\ Spend("push")
    /\ remote' = Append(remote, Foreign(f, s))
    /\ UNCHANGED <<clone, calls>>

\* A forced push that replaces the last commits.
RewriteRemote(f, n) ==
    /\ Spend("rewrite")
    /\ remote' = Append(SubSeq(remote, 1, n), Foreign(f, "active"))
    /\ UNCHANGED <<clone, calls>>

Outside ==
    \/ \E f \in Fact, s \in {"active", "invalidated"} : PushByOther(f, s)
    \/ \E f \in Fact, n \in 0..Len(remote) - 1 : RewriteRemote(f, n)
    \/ Crash

Proceed(c) ==
    \/ Acquire(c) \/ Fetch(c) \/ Forward(c) \/ Check(c)
    \/ \E f \in Fact : WriteFile(c, f)
    \/ Add(c) \/ CommitStaged(c) \/ Push(c) \/ OutOfTries(c) \/ Refetch(c) \/ Rebase(c)
    \/ Drop(c) \/ Undo(c)

Next ==
    \/ Outside
    \/ \E c \in Call :
        \/ Proceed(c) \/ Cancel(c)
        \/ \E new, old \in AtMostOne(Fact) :
            \E expect \in AtMostOne({tree[f] : f \in old}) : Begin(c, new, old, expect)

Spec == Init /\ [][Next]_vars

-----------------------------------------------------------------------------
(* Properties                                                              *)

\* The commits of the remote that carry a file as c wrote it.
CommitsOf(c) == {i \in 1..Len(remote) : \E f \in DOMAIN remote[i] : remote[i][f].by = c}

\* No call was cancelled, which lets two threads into the clone (see OneWriter).
Undisturbed == used["cancel"] = 0

\* A caller is told that its write succeeded only when the remote has it.
AckedIsPublished ==
    [][\A c \in Call :
        Undisturbed /\ answer[c] = "none" /\ answer'[c] = "ok" /\ Files(c) # {}
            => CommitsOf(c)' # {}]_vars

\* However often a push is repeated, rebased or lost, a change reaches the remote
\* in one commit: a new fact never without the retirement of what it supersedes,
\* even when a later write picks up what a crash left staged.
PublishedOnceAndWhole ==
    \A c \in Call : Undisturbed /\ CommitsOf(c) # {} =>
        \E i \in CommitsOf(c) : CommitsOf(c) = {i} /\ Files(c) \subseteq DOMAIN remote[i]

\* The server never takes anybody's commit off the remote, not even when two of
\* its threads work in the clone.
ServerOnlyExtends ==
    [][used'["rewrite"] = used["rewrite"] => IsPrefix(remote, remote')]_vars

\* A caller told of a conflict, a refusal or an error leaves the clone at origin/main with
\* nothing uncommitted in the tracked files, whatever an earlier crash left.
FailedLeavesClean ==
    [][\A c \in Call : Undisturbed /\ answer[c] = "none" /\ answer'[c] \in {"conflict", "refused", "error"} =>
        (local = tracking /\ index = TreeOf(local) /\ \A f \in Fact : Clean(f) \/ Untracked(f))']_vars

\* HistoryRewritten is raised only when the remote's history was rewritten.
RewriteReportIsTrue ==
    \A c \in Call : answer[c] = "rewritten" => used["rewrite"] > 0

\* Fetch, read, modify and commit are one critical section.
OneWriter == Cardinality({c \in Call : pc[c] \in InThread \cup {"check", "write"}}) <= 1

=============================================================================
