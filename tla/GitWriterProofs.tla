-------------------------- MODULE GitWriterProofs ---------------------------
(***************************************************************************)
(* What the server acknowledges is on the remote's main, in one commit and *)
(* whole, for any calls, facts, outside pushes and failures.               *)
(*                                                                         *)
(* A change is in three places at once, the clone's branch, origin/main as *)
(* the clone knows it and the remote, and a rebase copies commits from one *)
(* to another.  It is never copied twice because two branches that hold a  *)
(* call's commit are one branch up to it (Agree): then the commit is in    *)
(* their common part, which a rebase does not replay.  It is whole because *)
(* a call's files are staged together and what is staged is committed      *)
(* together, by that call or by the next one after a crash (StagedWhole).  *)
(*                                                                         *)
(* The feedback's requests are applied once, although an apply is tried    *)
(* again.  A new attempt gets past its check only if the working tree has  *)
(* the fact as the request was made for it.  That file is then as HEAD has *)
(* it, for what is not was written by a call (Kept), and HEAD has no       *)
(* attempt's commit, for after one the fact is never again as it was       *)
(* (Superseded).  The clone has each commit of the server's that is on the *)
(* remote (UpToDate), so no earlier attempt has committed or staged        *)
(* anything anywhere (Apart).  What a request then calls applied is on the *)
(* remote, for until a crash a commit that was not pushed is in a call's   *)
(* hands (InHand).                                                         *)
(***************************************************************************)
EXTENDS Feedback, SequenceTheorems, FiniteSetTheorems, WellFoundedInduction, TLAPS

Branches == {remote, tracking, local}

\* The commits of h that carry a file as c wrote it.
By(c, h) == {i \in 1..Len(h) : \E f \in DOMAIN h[i] : h[i][f].by = c}
Nowhere(c) == \A h \in Branches : By(c, h) = {}

Unstaged(c) == Nowhere(c) /\ \A f \in Fact : index[f].by # c
Untouched(c) == Unstaged(c) /\ \A f \in Fact : tree[f].by # c

Busy == InThread \cup {"check", "write"}

OneThread == \A c \in Call : pc[c] \in Busy <=> lock = {c}

\* How far a call has got shows in the clone.
ProgressOf(c) ==
    /\ pc[c] \in {"idle", "wait", "fetch", "forward", "check"} => Untouched(c)
    /\ pc[c] \in {"write", "add"} => Unstaged(c)
    /\ pc[c] \in {"write", "add", "commit"} => Files(c) # {}
    /\ pc[c] = "add" => \A f \in Files(c) : tree[f].by = c
    /\ pc[c] = "commit" => Nowhere(c) /\ \A f \in Files(c) : index[f].by = c
    /\ pc[c] \in {"push", "refetch", "rebase"} => By(c, local) # {}
Progress == \A c \in Call : ProgressOf(c)

Uncommitted(f) == index[f] # TreeOf(local)[f]
Staged(c) == \E f \in Fact : index[f].by = c /\ Uncommitted(f)

\* What a call has staged and not committed is all of its files, or newer ones.
StagedWhole ==
    \A c \in Call : Staged(c) =>
        Nowhere(c) /\ \A g \in Files(c) : index[g].by \in Call /\ Uncommitted(g)

WholeOf(c) == \A h \in Branches : \A i \in By(c, h) : By(c, h) = {i} /\ Files(c) \subseteq DOMAIN h[i]
Whole == \A c \in Call : WholeOf(c)

\* Two branches that hold a call's commit are one branch up to it.
AgreeOn(c) ==
    \A g, h \in Branches : \A i \in By(c, g), j \in By(c, h) : i = j /\ \A k \in 1..i : g[k] = h[k]
Agree == \A c \in Call : AgreeOn(c)

\* A rebase sees all of the server's commits that are on the remote.
RebaseSees ==
    \A c \in Call : pc[c] = "rebase" =>
        \A d \in Call : By(d, remote) # {} => By(d, tracking) # {}

Core == OneThread /\ Progress /\ StagedWhole /\ Whole /\ Agree /\ RebaseSees

Inv == TypeOK /\ (Undisturbed => Core)

-----------------------------------------------------------------------------
(* Branches                                                                *)

\* A set of positions in a sequence has a last one.
LEMMA LastPosition ==
    ASSUME NEW n \in Nat, NEW T, T \subseteq 1..n, T # {}
    PROVE  \E i \in T : \A j \in T : j <= i
<1> DEFINE D == {k \in Nat : n - k \in T}
<1>1. D # {}
    <2>1. PICK i \in T : TRUE
        OBVIOUS
    <2>2. n - i \in Nat /\ n - (n - i) = i
        BY <2>1
    <2> QED BY <2>1, <2>2
<1>2. PICK x \in D : \A y \in D : <<y, x>> \notin OpToRel(<, Nat)
    BY <1>1, WFMin, NatLessThanWellFounded, Zenon
<1>3. x \in Nat /\ n - x \in T
    OBVIOUS
<1>4. ASSUME NEW j \in T PROVE j <= n - x
    <2>1. n - j \in Nat /\ n - (n - j) = j
        OBVIOUS
    <2>2. n - j \in D
        BY <2>1
    <2>3. <<n - j, x>> \notin OpToRel(<, Nat)
        BY <1>2, <2>2
    <2>4. ~(n - j < x)
        BY <1>3, <2>1, <2>3 DEF OpToRel
    <2> QED BY <1>3, <2>4
<1> QED BY <1>3, <1>4

\* The content of a path is what the last commit that changes it leaves there.
LEMMA TreeOfShape ==
    ASSUME NEW h, Len(h) \in Nat, NEW f \in Fact
    PROVE  \/ (\A i \in 1..Len(h) : f \notin DOMAIN h[i]) /\ TreeOf(h)[f] = Absent
           \/ \E i \in 1..Len(h) :
                /\ f \in DOMAIN h[i]
                /\ \A j \in 1..Len(h) : f \in DOMAIN h[j] => j <= i
                /\ TreeOf(h)[f] = h[i][f]
<1> DEFINE T == {i \in 1..Len(h) : f \in DOMAIN h[i]}
           m == CHOOSE i \in T : \A j \in T : j <= i
<1>1. TreeOf(h)[f] = IF T = {} THEN Absent ELSE h[m][f]
    BY DEF TreeOf
<1>2. CASE T = {}
    <2>1. \A i \in 1..Len(h) : f \notin DOMAIN h[i]
        BY <1>2
    <2> QED BY <1>1, <1>2, <2>1
<1>3. CASE T # {}
    <2>1. \E i \in T : \A j \in T : j <= i
        BY <1>3, LastPosition
    <2>2. m \in T /\ \A j \in T : j <= m
        BY <2>1
    <2>3. TreeOf(h)[f] = h[m][f]
        BY <1>1, <1>3
    <2> HIDE DEF m
    <2> QED BY <2>2, <2>3
<1> QED BY <1>2, <1>3

\* What a call wrote is at the tip of a branch only if the branch has its commit.
LEMMA TreeIsCommitted ==
    ASSUME NEW h, Len(h) \in Nat, NEW f \in Fact, NEW c \in Call, TreeOf(h)[f].by = c
    PROVE  By(c, h) # {}
<1>1. Absent.by # c
    BY GitAssumption DEF Absent
<1>2. PICK i \in 1..Len(h) : f \in DOMAIN h[i] /\ TreeOf(h)[f] = h[i][f]
    BY <1>1, TreeOfShape
<1> QED BY <1>2 DEF By

\* A commit leaves the paths it changes as it has them and the others as they were.
LEMMA TreeOfAppend ==
    ASSUME NEW S, NEW h \in Seq(S), NEW x \in S, NEW f \in Fact
    PROVE  TreeOf(Append(h, x))[f] = IF f \in DOMAIN x THEN x[f] ELSE TreeOf(h)[f]
<1> DEFINE n == Len(h)
           t == Append(h, x)
<1>1. n \in Nat /\ Len(t) = n + 1 /\ t[n + 1] = x /\ \A i \in 1..n : t[i] = h[i]
    BY AppendProperties, LenProperties
<1> HIDE DEF n, t
<1>2. CASE f \in DOMAIN x
    <2>1. PICK i \in 1..Len(t) : /\ \A j \in 1..Len(t) : f \in DOMAIN t[j] => j <= i
                                 /\ TreeOf(t)[f] = t[i][f]
        <3>1. n + 1 \in 1..Len(t) /\ f \in DOMAIN t[n + 1]
            BY <1>1, <1>2
        <3>2. Len(t) \in Nat
            BY <1>1
        <3> QED BY <3>1, <3>2, TreeOfShape
    <2>2. i = n + 1
        BY <1>1, <1>2, <2>1
    <2> QED BY <1>1, <1>2, <2>1, <2>2 DEF t
<1>3. CASE f \notin DOMAIN x
    <2> DEFINE T(s) == {i \in 1..Len(s) : f \in DOMAIN s[i]}
    <2>1. T(t) = T(h)
        <3>1. \A i \in 1..n + 1 : f \in DOMAIN t[i] <=> i \in 1..n /\ f \in DOMAIN h[i]
            BY <1>1, <1>3
        <3> QED BY <1>1, <3>1 DEF n
    <2> DEFINE m(s) == CHOOSE i \in T(s) : \A j \in T(s) : j <= i
    <2>2. m(t) = m(h)
        BY <2>1
    <2>3. \A s : TreeOf(s)[f] = IF T(s) = {} THEN Absent ELSE s[m(s)][f]
        BY DEF TreeOf
    <2>4. CASE T(h) = {}
        BY <1>3, <2>1, <2>3, <2>4 DEF t
    <2>5. CASE T(h) # {}
        <3>1. \E i \in T(h) : \A j \in T(h) : j <= i
            BY <1>1, <2>5, LastPosition DEF n
        <3>2. m(h) \in T(h)
            BY <3>1
        <3>3. m(h) \in 1..n
            BY <3>2 DEF n
        <3> HIDE DEF m
        <3>4. t[m(t)] = h[m(h)]
            BY <1>1, <2>2, <3>3
        <3> HIDE DEF T
        <3> QED BY <1>3, <2>1, <2>3, <2>5, <3>4 DEF t
    <2> QED BY <2>4, <2>5
<1> QED BY <1>2, <1>3

\* One sequence begins with another when it has the other's elements first.
LEMMA PrefixMeaning ==
    ASSUME NEW S, NEW s \in Seq(S), NEW t \in Seq(S)
    PROVE  IsPrefix(s, t) <=> Len(s) <= Len(t) /\ \A k \in 1..Len(s) : s[k] = t[k]
<1> DEFINE n == Len(s)
           u == SubSeq(t, 1, n)
<1>1. n \in Nat /\ Len(t) \in Nat /\ \A k \in 1..Len(t) : t[k] \in S
    BY ElementOfSeq, LenProperties
<1>2. SubSeq(s, 1, n) = s
    BY SubSeqFull
<1>3. ASSUME n <= Len(t)
      PROVE  s = u <=> \A k \in 1..n : s[k] = t[k]
    <2>1. \A k \in 1..n : t[k] \in S
        BY <1>1, <1>3
    <2>2. u \in Seq(S) /\ Len(u) = n /\ \A k \in 1..n : u[k] = t[k]
        <3> HIDE DEF n
        <3>1. u \in Seq(S) /\ Len(u) = (IF 1 <= n THEN n - 1 + 1 ELSE 0)
              /\ \A k \in 1..n - 1 + 1 : u[k] = t[1 + k - 1]
            BY <1>1, <2>1, SubSeqProperties
        <3>2. n - 1 + 1 = n
            BY <1>1
        <3>3. \A k \in 1..n : 1 + k - 1 = k
            BY <1>1
        <3> QED BY <1>1, <3>1, <3>2, <3>3
    <2> HIDE DEF u
    <2>3. ASSUME s = u, NEW k \in 1..n PROVE s[k] = t[k]
        BY <2>2, <2>3
    <2>4. ASSUME \A k \in 1..n : s[k] = t[k] PROVE s = u
        BY <2>2, <2>4, SeqEqual
    <2> QED BY <2>3, <2>4
<1> QED BY <1>2, <1>3 DEF IsPrefix

\* How far two branches are the same.
Shared(g, h) == Len(LongestCommonPrefix({g, h}))

\* What two branches have in common is as long as it can be.
LEMMA CommonPart ==
    ASSUME NEW S, NEW g \in Seq(S), NEW h \in Seq(S)
    PROVE  /\ Shared(g, h) \in Nat /\ Shared(g, h) <= Len(g) /\ Shared(g, h) <= Len(h)
           /\ \A k \in 1..Shared(g, h) : g[k] = h[k]
           /\ \A n \in Nat : n <= Len(g) /\ n <= Len(h) /\ (\A k \in 1..n : g[k] = h[k]) => n <= Shared(g, h)
<1> DEFINE p == Shared(g, h)
           C == CommonPrefixes({g, h})
           Common(n) == n <= Len(g) /\ n <= Len(h) /\ \A k \in 1..n : g[k] = h[k]
           longest == LongestCommonPrefix({g, h})
<1>1. Len(g) \in Nat /\ Len(h) \in Nat /\ \A k \in 1..Len(g) : g[k] \in S
    BY ElementOfSeq, LenProperties
<1>2. ASSUME NEW n \in Nat, n <= Len(g)
      PROVE  SubSeq(g, 1, n) \in Seq(S) /\ Len(SubSeq(g, 1, n)) = n
             /\ \A k \in 1..n : SubSeq(g, 1, n)[k] = g[k]
    <2> DEFINE u == SubSeq(g, 1, n)
    <2>1. \A k \in 1..n : g[k] \in S
        BY <1>1, <1>2
    <2>2. u \in Seq(S) /\ Len(u) = (IF 1 <= n THEN n - 1 + 1 ELSE 0)
          /\ \A k \in 1..n - 1 + 1 : u[k] = g[1 + k - 1]
        BY <2>1, SubSeqProperties
    <2> HIDE DEF u
    <2>3. u \in Seq(S) /\ Len(u) = n /\ \A k \in 1..n : u[k] = g[k]
        <3>1. n - 1 + 1 = n /\ \A k \in 1..n : 1 + k - 1 = k
            OBVIOUS
        <3> QED BY <2>2, <3>1
    <2> QED BY <2>3 DEF u
<1>3. ASSUME NEW q \in C
      PROVE  Len(q) \in Nat /\ Common(Len(q))
    <2>1. PICK s \in {g, h} : q \in Prefixes(s)
        BY DEF CommonPrefixes
    <2>2. IsPrefix(q, g) /\ IsPrefix(q, h)
        BY DEF CommonPrefixes
    <2>3. PICK l \in 0..Len(s) : q = SubSeq(s, 1, l)
        BY <2>1 DEF Prefixes
    <2>4. s \in Seq(S) /\ Len(s) \in Nat /\ \A k \in 1..Len(s) : s[k] \in S
        BY ElementOfSeq, LenProperties
    <2>5. q \in Seq(S)
        <3>1. \A k \in 1..l : s[k] \in S
            BY <2>4
        <3>2. l \in Int
            BY <2>4
        <3> QED BY <2>3, <3>1, <3>2, SubSeqProperties
    <2>6. Len(q) \in Nat
        BY <2>5, LenProperties
    <2>7. Len(q) <= Len(g) /\ \A k \in 1..Len(q) : q[k] = g[k]
        BY <2>2, <2>5, PrefixMeaning
    <2>8. Len(q) <= Len(h) /\ \A k \in 1..Len(q) : q[k] = h[k]
        BY <2>2, <2>5, PrefixMeaning
    <2>9. \A k \in 1..Len(q) : g[k] = h[k]
        BY <2>7, <2>8
    <2> QED BY <2>6, <2>7, <2>8, <2>9
<1>4. ASSUME NEW n \in Nat, Common(n)
      PROVE  \E q \in C : Len(q) = n
    <2> DEFINE u == SubSeq(g, 1, n)
    <2>1. u \in Seq(S) /\ Len(u) = n /\ \A k \in 1..n : u[k] = g[k]
        BY <1>2, <1>4
    <2>2. u \in Prefixes(g)
        BY <1>1, <1>4 DEF Prefixes
    <2> HIDE DEF u
    <2>3. \A k \in 1..n : u[k] = h[k]
        BY <1>4, <2>1
    <2>4. IsPrefix(u, g)
        BY <1>4, <2>1, PrefixMeaning
    <2>5. IsPrefix(u, h)
        BY <1>4, <2>1, <2>3, PrefixMeaning
    <2>6. u \in C
        BY <2>2, <2>4, <2>5 DEF CommonPrefixes
    <2> QED BY <2>1, <2>6
<1>5. \E q \in C : \A r \in C : Len(r) <= Len(q)
    <2> DEFINE T == {n \in 1..Len(g) : Common(n)}
    <2>1. PICK q \in C : Len(q) = 0
        <3>1. Common(0)
            BY <1>1
        <3> HIDE DEF C, Common
        <3> QED BY <1>4, <3>1
    <2>2. \A r \in C : Len(r) = 0 \/ Len(r) \in T
        <3> TAKE r \in C
        <3>1. Len(r) \in Nat /\ Common(Len(r))
            BY <1>3
        <3>2. Len(r) <= Len(g)
            BY <3>1
        <3> HIDE DEF Common, C
        <3> QED BY <1>1, <3>1, <3>2
    <2>3. CASE T = {}
        <3>1. \A r \in C : Len(r) = 0
            BY <2>2, <2>3
        <3> HIDE DEF C
        <3> QED BY <2>1, <3>1
    <2>4. CASE T # {}
        <3>1. PICK m \in T : \A j \in T : j <= m
            BY <1>1, <2>4, LastPosition
        <3>2. m \in Nat /\ m >= 0 /\ Common(m)
            BY <1>1
        <3> HIDE DEF C, Common
        <3>3. PICK r \in C : Len(r) = m
            BY <1>4, <3>2
        <3> HIDE DEF T
        <3> QED BY <2>2, <3>1, <3>2, <3>3
    <2> QED BY <2>3, <2>4
<1>6. longest \in C /\ \A r \in C : Len(r) <= Len(longest)
    BY <1>5 DEF LongestCommonPrefix
<1>7. p \in Nat /\ Common(p)
    <2> HIDE DEF C, Common
    <2> QED BY <1>3, <1>6 DEF Shared
<1>8. \A n \in Nat : Common(n) => n <= p
    <2> TAKE n \in Nat
    <2> HAVE Common(n)
    <2> HIDE DEF C, Common
    <2>1. PICK q \in C : Len(q) = n
        BY <1>4
    <2> QED BY <1>6, <2>1 DEF Shared
<1> QED BY <1>7, <1>8

\* What only h has: its commits after the common part.
LEMMA OnlyInShape ==
    ASSUME NEW S, NEW g \in Seq(S), NEW h \in Seq(S)
    PROVE  /\ OnlyIn(h, g) \in Seq(S)
           /\ Len(OnlyIn(h, g)) = Len(h) - Shared(h, g)
           /\ \A k \in 1..Len(h) - Shared(h, g) : OnlyIn(h, g)[k] = h[Shared(h, g) + k]
<1> DEFINE p == Shared(h, g)
           n == Len(h)
           u == SubSeq(h, 1 + p, n)
<1>1. n \in Nat /\ p \in Nat /\ p <= n /\ \A k \in 1..n : h[k] \in S
    BY CommonPart, ElementOfSeq, LenProperties
<1> HIDE DEF n, p
<1>2. \A k \in 1 + p..n : h[k] \in S
    BY <1>1
<1>3. u \in Seq(S) /\ Len(u) = (IF 1 + p <= n THEN n - (1 + p) + 1 ELSE 0)
      /\ \A k \in 1..n - (1 + p) + 1 : u[k] = h[1 + p + k - 1]
    BY <1>1, <1>2, SubSeqProperties
<1> HIDE DEF u
<1>4. Len(u) = n - p
    BY <1>1, <1>3
<1>5. ASSUME NEW k \in 1..n - p PROVE u[k] = h[p + k]
    <2>1. k \in 1..n - (1 + p) + 1 /\ 1 + p + k - 1 = p + k
        BY <1>1
    <2>2. u[k] = h[1 + p + k - 1]
        BY <1>3, <2>1
    <2> QED BY <2>1, <2>2
<1>6. OnlyIn(h, g) = u
    BY DEF OnlyIn, Shared, u, n, p
<1>7. n = Len(h) /\ p = Shared(h, g)
    BY DEF n, p
<1>8. OnlyIn(h, g) \in Seq(S) /\ Len(OnlyIn(h, g)) = n - p
    BY <1>3, <1>4, <1>6
<1>9. \A k \in 1..n - p : OnlyIn(h, g)[k] = h[p + k]
    BY <1>5, <1>6
<1> QED BY <1>7, <1>8, <1>9

-----------------------------------------------------------------------------
(* Types                                                                   *)

CallTypes ==
    /\ lock \subseteq Call
    /\ pc \in [Call -> Stage]
    /\ want \in [Call -> Want]
    /\ tries \in [Call -> 0..3]
    /\ answer \in [Call -> Answer]

\* Nothing happens, or one event more.
Spent == UNCHANGED used \/ \E e \in Event : Spend(e)

\* Somebody else's next commit is by somebody new: what was well typed stays so.
LEMMA TypesGrow ==
    ASSUME TypeOK, Spent
    PROVE  /\ used' \in [Event -> Nat]
           /\ \A e \in Event : used'[e] >= used[e]
           /\ Content \subseteq Content'
           /\ Seq(Commit) \subseteq Seq(Commit')
           /\ [Fact -> Content] \subseteq [Fact -> Content']
           /\ [Call -> Want] \subseteq [Call -> Want']
<1>1. used' \in [Event -> Nat] /\ \A e \in Event : used'[e] >= used[e]
    <2>1. used \in [Event -> Nat]
        BY DEF TypeOK
    <2>2. CASE UNCHANGED used
        BY <2>1, <2>2
    <2>3. CASE \E e \in Event : Spend(e)
        <3>1. PICK e \in Event : used' = [used EXCEPT ![e] = @ + 1]
            BY <2>3 DEF Spend
        <3> QED BY <2>1, <3>1
    <2> QED BY <2>2, <2>3 DEF Spent
<1>2. Author \subseteq Author'
    <2> DEFINE n == used["push"] + used["rewrite"]
    <2>1. n \in Nat /\ n' \in Nat /\ n <= n'
        BY <1>1 DEF TypeOK, Event
    <2>2. Author = Call \cup {0} \cup {-i : i \in 1..n} /\ Author' = Call \cup {0} \cup {-i : i \in 1..n'}
        BY DEF Author
    <2> HIDE DEF n
    <2>3. \A x : x \in {-i : i \in 1..n} => x \in {-i : i \in 1..n'}
        BY <2>1
    <2> QED BY <2>2, <2>3
<1>3. Content \subseteq Content'
    BY <1>2 DEF Content
<1>4. [Fact -> Content] \subseteq [Fact -> Content']
    BY <1>3
<1>5. Commit \subseteq Commit'
    <2>1. ASSUME NEW x \in Commit PROVE x \in Commit'
        <3>1. PICK S \in SUBSET Fact : x \in [S -> Content]
            BY DEF Commit
        <3>2. x \in [S -> Content']
            BY <1>3, <3>1
        <3> QED BY <3>2 DEF Commit
    <2> QED BY <2>1
<1>6. Seq(Commit) \subseteq Seq(Commit')
    BY <1>5, SeqMonotonic
<1>7. Want \subseteq Want'
    <2>1. AtMostOne(Content) \subseteq AtMostOne(Content')
        BY <1>3 DEF AtMostOne
    <2> QED BY <2>1 DEF Want
<1>8. [Call -> Want] \subseteq [Call -> Want']
    BY <1>7
<1> QED BY <1>1, <1>3, <1>4, <1>6, <1>8

\* The files of a branch are well typed.
LEMMA TreeOfType ==
    ASSUME NEW h \in Seq(Commit)
    PROVE  TreeOf(h) \in [Fact -> Content]
<1>1. \A f \in Fact : TreeOf(h)[f] \in Content
    <2> TAKE f \in Fact
    <2>1. Len(h) \in Nat
        BY LenProperties
    <2>2. Absent \in Content
        BY DEF Absent, Content, Status, Author
    <2>3. ASSUME NEW i \in 1..Len(h), f \in DOMAIN h[i] PROVE h[i][f] \in Content
        <3>1. h[i] \in Commit
            BY ElementOfSeq
        <3>2. PICK S \in SUBSET Fact : h[i] \in [S -> Content]
            BY <3>1 DEF Commit
        <3> QED BY <2>3, <3>2
    <2> QED BY <2>1, <2>2, <2>3, TreeOfShape
<1>2. TreeOf(h) = [f \in Fact |-> TreeOf(h)[f]]
    BY DEF TreeOf
<1> QED BY <1>1, <1>2

\* Moving, resetting, and the ends of a command keep their parts well typed.
LEMMA MoveToTyped ==
    ASSUME TypeOK, NEW h \in Seq(Commit), MoveTo(h)
    PROVE  local' \in Seq(Commit) /\ {index', tree'} \subseteq [Fact -> Content]
<1>1. TreeOf(h) \in [Fact -> Content]
    BY TreeOfType
<1> QED BY <1>1 DEF TypeOK, MoveTo

LEMMA ResetHardTyped ==
    ASSUME TypeOK, ResetHard
    PROVE  {tracking', local'} \subseteq Seq(Commit) /\ {index', tree'} \subseteq [Fact -> Content]
<1>1. TreeOf(tracking) \in [Fact -> Content]
    BY TreeOfType DEF TypeOK
<1> QED BY <1>1 DEF TypeOK, ResetHard

LEMMA CallsTyped ==
    ASSUME TypeOK, NEW c \in Call, NEW p \in Stage, NEW a \in Answer, [Call -> Want] \subseteq [Call -> Want'],
           Return(c, p) \/ Then(c, p) \/ Finish(c, a)
    PROVE  CallTypes'
<1>1. "done" \in Stage
    BY DEF Stage
<1>2. want' \in [Call -> Want'] /\ tries' \in [Call -> 0..3]
    BY DEF TypeOK, Return, Then, Finish
<1>3. lock' \subseteq Call /\ pc' \in [Call -> Stage] /\ answer' \in [Call -> Answer]
    BY <1>1 DEF TypeOK, Return, Then, Finish, Goto
<1> QED BY <1>2, <1>3 DEF CallTypes

\* An outsider's commit is well typed once its event has happened.
LEMMA ForeignTyped ==
    ASSUME TypeOK, NEW f \in Fact, NEW s \in Status, NEW e \in {"push", "rewrite"}, Spend(e)
    PROVE  Foreign(f, s) \in Commit'
<1> DEFINE n == used["push"] + used["rewrite"]
           x == Written(-(1 + used["push"] + used["rewrite"]), s)
<1>1. n \in Nat /\ n' = n + 1 /\ 1 + used["push"] + used["rewrite"] = 1 + n
    <2>1. used \in [Event -> Nat] /\ {"push", "rewrite"} \subseteq Event
        BY DEF TypeOK, Event
    <2>2. used' = [used EXCEPT ![e] = @ + 1]
        BY DEF Spend
    <2>3. CASE e = "push"
        BY <2>1, <2>2, <2>3
    <2>4. CASE e = "rewrite"
        BY <2>1, <2>2, <2>4
    <2> QED BY <2>3, <2>4
<1>2. -(1 + n) \in Author'
    <2>1. Author' = Call \cup {0} \cup {-i : i \in 1..n'}
        BY DEF Author
    <2>2. 1 + n \in 1..n'
        BY <1>1
    <2> HIDE DEF n
    <2> QED BY <2>1, <2>2
<1>3. x \in Content'
    <2>1. x = Written(-(1 + n), s)
        BY <1>1
    <2> HIDE DEF x, n
    <2> QED BY <1>2, <2>1 DEF Written, Content
<1> HIDE DEF x
<1>4. Foreign(f, s) = [g \in {f} |-> x]
    BY DEF Foreign, x
<1>5. Foreign(f, s) \in [{f} -> Content']
    BY <1>3, <1>4
<1>6. {f} \in SUBSET Fact
    OBVIOUS
<1> QED BY <1>5, <1>6 DEF Commit

\* A step whose new content is by authors there were already keeps the types.
LEMMA TypesTogether ==
    ASSUME TypeOK, Spent, {remote', tracking', local'} \subseteq Seq(Commit),
           {index', tree'} \subseteq [Fact -> Content], CallTypes'
    PROVE  TypeOK'
<1>1. {remote', tracking', local'} \subseteq Seq(Commit')
    BY TypesGrow
<1>2. {index', tree'} \subseteq [Fact -> Content']
    BY TypesGrow
<1>3. used' \in [Event -> Nat]
    BY TypesGrow
<1> QED BY <1>1, <1>2, <1>3 DEF TypeOK, CallTypes

\* What the next commit of the clone holds.
NewCommit == [f \in {g \in Fact : Uncommitted(g)} |-> index[f]]

LEMMA CommitStagedShape ==
    ASSUME NEW c \in Call, CommitStaged(c)
    PROVE  /\ pc[c] = "commit" /\ UNCHANGED <<remote, tracking, index, tree, used>>
           /\ \/ (\A f \in Fact : ~Uncommitted(f)) /\ Return(c, "discard") /\ UNCHANGED local
              \/ (\E f \in Fact : Uncommitted(f)) /\ Then(c, "push") /\ local' = Append(local, NewCommit)
<1> DEFINE staged == {f \in Fact : index[f] # TreeOf(local)[f]}
<1>1. staged = {f \in Fact : Uncommitted(f)}
    BY DEF Uncommitted
<1>2. /\ pc[c] = "commit" /\ UNCHANGED <<remote, tracking, index, tree, used>>
      /\ IF staged = {} THEN Return(c, "discard") /\ UNCHANGED local
         ELSE Then(c, "push") /\ local' = Append(local, [f \in staged |-> index[f]])
    BY DEF CommitStaged
<1>3. NewCommit = [f \in staged |-> index[f]]
    BY <1>1 DEF NewCommit
<1>4. staged = {} <=> \A f \in Fact : ~Uncommitted(f)
    BY <1>1
<1> HIDE DEF staged
<1>5. CASE staged = {}
    BY <1>2, <1>4, <1>5
<1>6. CASE staged # {}
    <2>1. Then(c, "push") /\ local' = Append(local, NewCommit)
        BY <1>2, <1>3, <1>6
    <2>2. \E f \in Fact : Uncommitted(f)
        BY <1>4, <1>6
    <2> QED BY <1>2, <2>1, <2>2
<1> QED BY <1>5, <1>6

LEMMA NewCommitTyped ==
    ASSUME TypeOK
    PROVE  NewCommit \in Commit
<1> DEFINE S == {g \in Fact : Uncommitted(g)}
<1>1. S \in SUBSET Fact
    OBVIOUS
<1>2. NewCommit \in [S -> Content]
    BY DEF TypeOK, NewCommit
<1> HIDE DEF S
<1> QED BY <1>1, <1>2 DEF Commit

LEMMA RebasedTyped ==
    ASSUME TypeOK
    PROVE  tracking \o OnlyIn(local, tracking) \in Seq(Commit)
<1>1. tracking \in Seq(Commit) /\ local \in Seq(Commit)
    BY DEF TypeOK
<1>2. OnlyIn(local, tracking) \in Seq(Commit)
    BY <1>1, OnlyInShape
<1> QED BY <1>1, <1>2, ConcatProperties

LEMMA ProceedTyped ==
    ASSUME TypeOK, NEW c \in Call, Proceed(c)
    PROVE  TypeOK'
<1> DEFINE Old == /\ {remote, tracking, local} \subseteq Seq(Commit)
                  /\ {index, tree} \subseteq [Fact -> Content]
<1>1. Old
    BY DEF TypeOK
<1>2. ASSUME Spent PROVE [Call -> Want] \subseteq [Call -> Want']
    BY <1>2, TypesGrow
<1> USE DEF Spent
<1>3. Stage = {"fetch", "forward", "add", "commit", "push", "refetch", "rebase", "drop", "undo", "abort", "discard"} \cup {"idle", "wait", "check", "write", "done"}
    BY DEF Stage, InThread
<1> DEFINE Parts == {remote', tracking', local'} \subseteq Seq(Commit) /\ {index', tree'} \subseteq [Fact -> Content]
<1>4. ASSUME Spent, Parts, CallTypes' PROVE TypeOK'
    BY <1>4, TypesTogether
<1>5. ASSUME NEW p \in Stage, NEW a \in Answer, Spent, Return(c, p) \/ Then(c, p) \/ Finish(c, a) PROVE CallTypes'
    BY <1>2, <1>5, CallsTyped
<1>6. "cut" \in Event /\ "disk" \in Event
    BY DEF Event
<1> HIDE DEF Parts
<1>7. CASE Acquire(c)
    <2>1. Spent /\ Parts
        BY <1>1, <1>7 DEF Acquire, Parts, clone
    <2>2. CallTypes'
        BY <1>2, <1>3, <1>7, <2>1 DEF Acquire, CallTypes, TypeOK, Goto
    <2> QED BY <1>4, <2>1, <2>2
<1>8. CASE Fetch(c)
    <2>1. Spent /\ Parts
        BY <1>1, <1>6, <1>8 DEF Fetch, Parts
    <2>2. Then(c, "forward") \/ Finish(c, "failed")
        BY <1>8 DEF Fetch
    <2>3. "forward" \in Stage /\ "failed" \in Answer
        BY <1>3 DEF Answer
    <2> QED BY <1>4, <1>5, <2>1, <2>2, <2>3
<1>9. CASE Forward(c)
    <2>1. Spent
        BY <1>9 DEF Forward
    <2>2. Parts
        BY <1>1, <1>9, MoveToTyped DEF Forward, Parts
    <2>3. Return(c, "check") \/ Finish(c, "failed") \/ Finish(c, "rewritten")
        BY <1>9 DEF Forward
    <2>4. "check" \in Stage /\ "failed" \in Answer /\ "rewritten" \in Answer
        BY <1>3 DEF Answer
    <2> QED BY <1>4, <1>5, <2>1, <2>2, <2>3, <2>4
<1>10. CASE Check(c)
    <2>1. Spent /\ Parts
        BY <1>1, <1>10 DEF Check, Parts, clone
    <2>2. Finish(c, "ok") \/ Then(c, "abort") \/ Then(c, "write") \/ Then(c, "undo")
        BY <1>10 DEF Check
    <2>3. "abort" \in Stage /\ "write" \in Stage /\ "undo" \in Stage /\ "ok" \in Answer
        BY <1>3 DEF Answer
    <2> QED BY <1>4, <1>5, <2>1, <2>2, <2>3
<1>11. CASE \E f \in Fact : WriteFile(c, f)
    <2>1. PICK f \in Fact : WriteFile(c, f)
        BY <1>11
    <2>2. Spent
        BY <1>6, <2>1 DEF WriteFile
    <2>3. \A s \in Status : Written(c, s) \in Content
        BY DEF Written, Content, Author
    <2>4. "active" \in Status /\ "invalidated" \in Status
        BY DEF Status
    <2>5. Parts
        <3>1. tree' \in [Fact -> Content]
            BY <1>1, <2>1, <2>3, <2>4 DEF WriteFile
        <3> QED BY <1>1, <2>1, <3>1 DEF WriteFile, Parts
    <2>6. Then(c, "add") \/ Then(c, "write") \/ Then(c, "abort")
        BY <2>1 DEF WriteFile
    <2>7. "add" \in Stage /\ "write" \in Stage /\ "abort" \in Stage /\ "ok" \in Answer
        BY <1>3 DEF Answer
    <2> QED BY <1>4, <1>5, <2>2, <2>5, <2>6, <2>7
<1>12. CASE Add(c)
    <2>1. Spent /\ Parts
        BY <1>1, <1>12 DEF Add, Parts
    <2>2. Then(c, "commit")
        BY <1>12 DEF Add
    <2>3. "commit" \in Stage /\ "ok" \in Answer
        BY <1>3 DEF Answer
    <2> QED BY <1>4, <1>5, <2>1, <2>2, <2>3
<1>13. CASE CommitStaged(c)
    <2>1. Append(local, NewCommit) \in Seq(Commit)
        BY <1>1, NewCommitTyped, AppendProperties
    <2>2. Spent /\ Parts
        BY <1>1, <1>13, <2>1, CommitStagedShape DEF Parts
    <2>3. Return(c, "discard") \/ Then(c, "push")
        BY <1>13, CommitStagedShape
    <2>4. "discard" \in Stage /\ "push" \in Stage /\ "ok" \in Answer
        BY <1>3 DEF Answer
    <2> QED BY <1>4, <1>5, <2>2, <2>3, <2>4
<1>14. CASE Push(c)
    <2>1. Spent
        BY <1>6, <1>14 DEF Push
    <2>2. Parts
        BY <1>1, <1>14 DEF Push, Parts
    <2>3. CASE Finish(c, "ok")
        <3>1. "done" \in Stage /\ "ok" \in Answer
            BY <1>3 DEF Answer
        <3> QED BY <1>4, <1>5, <2>1, <2>2, <2>3, <3>1
    <2>4. CASE /\ tries' = [tries EXCEPT ![c] = @ - 1]
               /\ Goto(c, "refetch")
               /\ UNCHANGED <<lock, want, answer>>
        <3>1. tries[c] > 0 /\ tries \in [Call -> 0..3]
            BY <1>14 DEF Push, TryAgain, TypeOK
        <3>2. tries' \in [Call -> 0..3]
            BY <2>4, <3>1
        <3>3. pc' \in [Call -> Stage]
            BY <1>3, <2>4 DEF TypeOK, Goto
        <3>4. CallTypes'
            BY <1>2, <2>1, <2>4, <3>2, <3>3 DEF CallTypes, TypeOK
        <3> QED BY <1>4, <2>1, <2>2, <3>4
    <2> QED BY <1>14, <2>3, <2>4 DEF Push
<1>15. CASE OutOfTries(c)
    <2>1. Spent /\ Parts
        BY <1>1, <1>15 DEF OutOfTries, Parts, clone
    <2>2. Then(c, "drop")
        BY <1>15 DEF OutOfTries
    <2>3. "drop" \in Stage /\ "ok" \in Answer
        BY <1>3 DEF Answer
    <2> QED BY <1>4, <1>5, <2>1, <2>2, <2>3
<1>16. CASE Refetch(c)
    <2>1. Spent /\ Parts
        BY <1>1, <1>6, <1>16 DEF Refetch, Parts
    <2>2. Then(c, "rebase") \/ Return(c, "discard")
        BY <1>16 DEF Refetch
    <2>3. "rebase" \in Stage /\ "discard" \in Stage /\ "ok" \in Answer
        BY <1>3 DEF Answer
    <2> QED BY <1>4, <1>5, <2>1, <2>2, <2>3
<1>17. CASE Rebase(c)
    <2>1. Spent
        BY <1>17 DEF Rebase
    <2>2. Parts
        BY <1>1, <1>17, MoveToTyped, RebasedTyped DEF Rebase, Parts
    <2>3. Return(c, "discard") \/ Then(c, "drop") \/ Then(c, "push")
        BY <1>17 DEF Rebase
    <2>4. "discard" \in Stage /\ "drop" \in Stage /\ "push" \in Stage /\ "ok" \in Answer
        BY <1>3 DEF Answer
    <2> QED BY <1>4, <1>5, <2>1, <2>2, <2>3, <2>4
<1>18. CASE Drop(c)
    <2>1. Spent /\ Parts
        BY <1>1, <1>18, ResetHardTyped DEF Drop, Parts
    <2>2. Return(c, "discard")
        BY <1>18 DEF Drop
    <2>3. "discard" \in Stage /\ "ok" \in Answer
        BY <1>3 DEF Answer
    <2> QED BY <1>4, <1>5, <2>1, <2>2, <2>3
<1>19. CASE Undo(c)
    <2>1. Spent /\ Parts
        BY <1>1, <1>19, ResetHardTyped DEF Undo, Parts
    <2>2. Finish(c, Undoing[pc[c]]) /\ pc[c] \in {"undo", "abort", "discard"}
        BY <1>19 DEF Undo, Undoing
    <2>3. "done" \in Stage /\ Undoing[pc[c]] \in Answer
        BY <1>3, <2>2 DEF Answer, Undoing
    <2> QED BY <1>4, <1>5, <2>1, <2>2, <2>3
<1>20. QED
    BY <1>7, <1>8, <1>9, <1>10, <1>11, <1>12, <1>13, <1>14, <1>15, <1>16, <1>17, <1>18, <1>19 DEF Proceed

LEMMA OutsideTyped ==
    ASSUME TypeOK, Outside
    PROVE  TypeOK'
<1> DEFINE Parts == /\ {tracking, local} \subseteq Seq(Commit)
                    /\ {index, tree} \subseteq [Fact -> Content]
<1>1. Parts /\ remote \in Seq(Commit)
    BY DEF TypeOK
<1>2. {"push", "rewrite", "crash"} \subseteq Event
    BY DEF Event
<1>3. ASSUME NEW e \in {"push", "rewrite"}, Spend(e), NEW f \in Fact, NEW s \in Status, NEW h \in Seq(Commit),
             remote' = Append(h, Foreign(f, s)), UNCHANGED <<clone, calls>>
      PROVE  TypeOK'
    <2>1. Spent
        BY <1>2, <1>3 DEF Spent
    <2>2. Foreign(f, s) \in Commit'
        BY <1>3, ForeignTyped
    <2>3. h \in Seq(Commit')
        BY <2>1, TypesGrow
    <2>4. remote' \in Seq(Commit')
        BY <1>3, <2>2, <2>3, AppendProperties
    <2>5. {tracking', local'} \subseteq Seq(Commit') /\ {index', tree'} \subseteq [Fact -> Content']
        <3>1. {tracking', local'} \subseteq Seq(Commit) /\ {index', tree'} \subseteq [Fact -> Content]
            BY <1>1, <1>3 DEF clone
        <3> QED BY <2>1, <3>1, TypesGrow
    <2>6. used' \in [Event -> Nat] /\ want' \in [Call -> Want']
        <3>1. want' \in [Call -> Want]
            BY <1>3 DEF TypeOK, calls
        <3> QED BY <2>1, <3>1, TypesGrow
    <2>7. lock' \subseteq Call /\ pc' \in [Call -> Stage] /\ tries' \in [Call -> 0..3] /\ answer' \in [Call -> Answer]
        BY <1>3 DEF TypeOK, calls
    <2> QED BY <2>4, <2>5, <2>6, <2>7 DEF TypeOK
<1>4. ASSUME NEW f \in Fact, NEW s \in {"active", "invalidated"}, PushByOther(f, s)
      PROVE  TypeOK'
    <2>1. s \in Status
        BY DEF Status
    <2> QED BY <1>1, <1>3, <1>4, <2>1 DEF PushByOther
<1>5. ASSUME NEW f \in Fact, NEW n \in 0..Len(remote) - 1, RewriteRemote(f, n)
      PROVE  TypeOK'
    <2>1. "active" \in Status
        BY DEF Status
    <2>2. SubSeq(remote, 1, n) \in Seq(Commit)
        <3>1. Len(remote) \in Nat /\ \A k \in 1..Len(remote) : remote[k] \in Commit
            BY <1>1, ElementOfSeq, LenProperties
        <3>2. \A k \in 1..n : remote[k] \in Commit
            BY <3>1
        <3> QED BY <3>1, <3>2, SubSeqProperties
    <2> QED BY <1>3, <1>5, <2>1, <2>2 DEF RewriteRemote
<1>6. ASSUME Crash PROVE TypeOK'
    <2>1. Spent
        BY <1>2, <1>6 DEF Crash, Spent
    <2>2. {remote', tracking', local'} \subseteq Seq(Commit) /\ {index', tree'} \subseteq [Fact -> Content]
        BY <1>1, <1>6 DEF Crash, clone
    <2>3. "idle" \in Stage /\ "done" \in Stage
        BY DEF Stage
    <2>4. want' \in [Call -> Want']
        BY <1>6, <2>1, TypesGrow DEF Crash, TypeOK
    <2>5. CallTypes'
        BY <1>6, <2>3, <2>4 DEF Crash, TypeOK, CallTypes
    <2> QED BY <2>1, <2>2, <2>5, TypesTogether
<1> QED BY <1>4, <1>5, <1>6 DEF Outside

LEMMA CancelTyped ==
    ASSUME TypeOK, NEW c \in Call, Cancel(c)
    PROVE  TypeOK'
<1>1. Spent
    BY DEF Cancel, Spent, Event
<1>2. {remote', tracking', local'} \subseteq Seq(Commit) /\ {index', tree'} \subseteq [Fact -> Content]
    BY DEF TypeOK, Cancel, clone
<1>3. want' \in [Call -> Want']
    BY <1>1, TypesGrow DEF Cancel, TypeOK
<1>4. CallTypes'
    BY <1>3 DEF Cancel, TypeOK, CallTypes
<1> QED BY <1>1, <1>2, <1>4, TypesTogether

LEMMA BeginTyped ==
    ASSUME TypeOK, NEW c \in Call, NEW new \in AtMostOne(Fact), NEW old \in AtMostOne(Fact),
           NEW expect \in AtMostOne({tree[f] : f \in old}), Begin(c, new, old, expect)
    PROVE  TypeOK'
<1>1. Spent
    BY DEF Begin, Spent
<1>2. {remote', tracking', local'} \subseteq Seq(Commit) /\ {index', tree'} \subseteq [Fact -> Content]
    BY DEF TypeOK, Begin, clone
<1>3. [new |-> new, old |-> old, expect |-> expect] \in Want
    <2>1. old \subseteq Fact
        BY DEF AtMostOne
    <2>2. {tree[f] : f \in old} \subseteq Content
        BY <2>1 DEF TypeOK
    <2>3. expect \in AtMostOne(Content)
        BY <2>2 DEF AtMostOne
    <2> QED BY <2>3 DEF Want
<1>4. want' \in [Call -> Want]
    BY <1>3 DEF Begin, TypeOK
<1>5. want' \in [Call -> Want']
    BY <1>1, <1>4, TypesGrow
<1>6. "wait" \in Stage
    BY DEF Stage
<1>7. CallTypes'
    BY <1>5, <1>6 DEF Begin, Goto, TypeOK, CallTypes
<1> QED BY <1>1, <1>2, <1>7, TypesTogether

LEMMA NextTyped ==
    ASSUME TypeOK, [Next]_vars
    PROVE  TypeOK'
<1>1. CASE Next
    BY <1>1, ProceedTyped, OutsideTyped, CancelTyped, BeginTyped DEF Next
<1>2. CASE UNCHANGED vars
    <2>1. Spent
        BY <1>2 DEF Spent, vars
    <2>2. {remote', tracking', local'} \subseteq Seq(Commit) /\ {index', tree'} \subseteq [Fact -> Content]
        BY <1>2 DEF TypeOK, vars, clone
    <2>3. want' \in [Call -> Want']
        BY <1>2, <2>1, TypesGrow DEF TypeOK, vars, calls
    <2>4. CallTypes'
        BY <1>2, <2>3 DEF TypeOK, CallTypes, vars, calls
    <2> QED BY <2>1, <2>2, <2>4, TypesTogether
<1> QED BY <1>1, <1>2

LEMMA InitTyped ==
    ASSUME Init
    PROVE  TypeOK
<1> DEFINE x == [f \in Seeded |-> Written(0, "active")]
<1>1. x \in Commit
    <2>1. Written(0, "active") \in Content
        BY DEF Written, Content, Author, Status
    <2>2. x \in [Seeded -> Content]
        BY <2>1
    <2>3. Seeded \in SUBSET Fact
        BY GitAssumption
    <2> HIDE DEF x
    <2> QED BY <2>2, <2>3 DEF Commit
<1>2. remote \in Seq(Commit)
    <2> HIDE DEF x
    <2>1. remote = <<x>>
        BY DEF Init, x
    <2> QED BY <1>1, <2>1
<1>3. tracking \in Seq(Commit) /\ local \in Seq(Commit) /\ index \in [Fact -> Content] /\ tree \in [Fact -> Content]
    BY <1>2, TreeOfType DEF Init
<1>4. lock \subseteq Call /\ tries \in [Call -> 0..3] /\ answer \in [Call -> Answer] /\ used \in [Event -> Nat]
    BY DEF Init, Answer
<1>5. pc \in [Call -> Stage]
    BY DEF Init, Stage
<1>6. want \in [Call -> Want]
    BY DEF Init, Want, WantNothing, AtMostOne
<1> QED BY <1>2, <1>3, <1>4, <1>5, <1>6 DEF TypeOK

-----------------------------------------------------------------------------
(* What holds even when a call is cancelled                                *)

\* Branches hold commits, files hold contents, whatever git does with them: TypeOK
\* of gitstore.py's clone and of the calls of facts.py.
THEOREM WellTyped == Spec => []TypeOK
<1>1. Init => TypeOK
    BY InitTyped
<1>2. TypeOK /\ [Next]_vars => TypeOK'
    BY NextTyped
<1> QED BY <1>1, <1>2, PTL DEF Spec

LEMMA RewriteIsCounted ==
    ASSUME TypeOK, Spend("rewrite")
    PROVE  used'["rewrite"] # used["rewrite"]
BY DEF TypeOK, Spend, Event

\* The server adds to the remote's main and never takes a commit off it, cancelled
\* threads or not: a push is accepted only when it extends what is there.
THEOREM NothingIsTakenOff == Spec => ServerOnlyExtends
<1> DEFINE Step == used'["rewrite"] = used["rewrite"] => IsPrefix(remote, remote')
<1>1. ASSUME TypeOK, [Next]_vars PROVE [Step]_vars
    <2>1. IsPrefix(remote, remote)
        <3>1. remote \in Seq(Commit)
            BY <1>1 DEF TypeOK
        <3> QED BY <3>1, LenProperties, PrefixMeaning
    <2>2. CASE UNCHANGED remote
        BY <2>1, <2>2
    <2>3. ASSUME NEW c \in Call, Push(c) PROVE IsPrefix(remote, remote')
        <3>1. CASE Accepted
            BY <2>1, <2>3, <3>1 DEF Push, Accepted
        <3>2. CASE ~Accepted
            BY <2>1, <2>3, <3>2 DEF Push
        <3> QED BY <3>1, <3>2
    <2>4. ASSUME NEW f \in Fact, NEW s \in {"active", "invalidated"}, PushByOther(f, s)
          PROVE  IsPrefix(remote, remote')
        <3>1. Foreign(f, s) \in Commit' /\ remote \in Seq(Commit')
            <4>1. Spend("push") /\ s \in Status /\ "push" \in Event
                BY <2>4 DEF PushByOther, Status, Event
            <4>2. Spent
                BY <4>1 DEF Spent
            <4>3. remote \in Seq(Commit)
                BY <1>1 DEF TypeOK
            <4> QED BY <1>1, <4>1, <4>2, <4>3, ForeignTyped, TypesGrow
        <3>2. remote' = Append(remote, Foreign(f, s))
            BY <2>4 DEF PushByOther
        <3>3. remote' \in Seq(Commit') /\ Len(remote') = Len(remote) + 1 /\ \A i \in 1..Len(remote) : remote'[i] = remote[i]
            BY <3>1, <3>2, AppendProperties
        <3>4. Len(remote) \in Nat
            BY <3>1, LenProperties
        <3> QED BY <3>1, <3>3, <3>4, PrefixMeaning
    <2>5. ASSUME NEW f \in Fact, NEW n \in 0..Len(remote) - 1, RewriteRemote(f, n) PROVE Step
        BY <1>1, <2>5, RewriteIsCounted DEF RewriteRemote
    <2>6. CASE Next
        <3>1. ASSUME NEW c \in Call, Proceed(c) PROVE UNCHANGED remote \/ Push(c)
            BY <3>1 DEF Proceed, Acquire, Fetch, Forward, Check, WriteFile, Add, CommitStaged, OutOfTries, Refetch, Rebase, Drop, Undo
        <3>2. ASSUME NEW c \in Call, Cancel(c) PROVE UNCHANGED remote
            BY <3>2 DEF Cancel
        <3>3. ASSUME NEW c \in Call, NEW new, NEW old, NEW expect, Begin(c, new, old, expect) PROVE UNCHANGED remote
            BY <3>3 DEF Begin
        <3>4. ASSUME Crash PROVE UNCHANGED remote
            BY <3>4 DEF Crash
        <3>5. \/ UNCHANGED remote
              \/ \E c \in Call : Push(c)
              \/ \E f \in Fact, s \in {"active", "invalidated"} : PushByOther(f, s)
              \/ \E f \in Fact, n \in 0..Len(remote) - 1 : RewriteRemote(f, n)
            BY <2>6, <3>1, <3>2, <3>3, <3>4 DEF Next, Outside
        <3>6. Step
            <4>1. CASE \E f \in Fact, n \in 0..Len(remote) - 1 : RewriteRemote(f, n)
                <5> HIDE DEF Step
                <5> QED BY <2>5, <4>1
            <4>2. CASE IsPrefix(remote, remote')
                BY <4>2
            <4> HIDE DEF Step
            <4>3. CASE UNCHANGED remote
                BY <2>1, <4>2, <4>3
            <4> QED BY <2>3, <2>4, <3>5, <4>1, <4>2, <4>3
        <3> QED BY <3>6
    <2>7. CASE UNCHANGED vars
        BY <2>7 DEF vars
    <2> QED BY <1>1, <2>6, <2>7
<1>2. TypeOK /\ [Next]_vars => [Step]_vars
    BY <1>1
<1> QED BY <1>2, WellTyped, PTL DEF Spec, ServerOnlyExtends

\* After a reset the clone is at origin/main, and what is not committed is untracked.
LEMMA ResetLeavesClean ==
    ASSUME TypeOK, ResetHard
    PROVE  (local = tracking /\ index = TreeOf(local) /\ \A f \in Fact : Clean(f) \/ Untracked(f))'
<1>1. local' = tracking' /\ tracking' = tracking
    BY DEF ResetHard
<1>2. index' = TreeOf(tracking)
    BY DEF ResetHard
<1>3. TreeOf(local') = TreeOf(tracking)
    BY <1>1
<1>4. ASSUME NEW f \in Fact PROVE Clean(f)' \/ Untracked(f)'
    <2>1. tree'[f] = IF Untracked(f) /\ TreeOf(tracking)[f] = Absent THEN tree[f] ELSE TreeOf(tracking)[f]
        BY DEF ResetHard
    <2>2. CASE Untracked(f) /\ TreeOf(tracking)[f] = Absent
        BY <1>2, <2>1, <2>2 DEF Untracked
    <2>3. CASE ~(Untracked(f) /\ TreeOf(tracking)[f] = Absent)
        <3>1. tree'[f] = index'[f] /\ index'[f] = TreeOf(local')[f]
            BY <1>2, <1>3, <2>1, <2>3
        <3> QED BY <3>1 DEF Clean
    <2> QED BY <2>2, <2>3
<1>5. TreeOf(local)' = TreeOf(local')
    BY DEF TreeOf
<1> QED BY <1>1, <1>2, <1>3, <1>4, <1>5

\* Who is told of a failure is told so after the reset.
LEMMA FailureIsUndo ==
    ASSUME TypeOK, Next, NEW c \in Call, answer[c] = "none", answer'[c] \in {"conflict", "refused", "error"}
    PROVE  ResetHard
<1>1. ASSUME NEW d \in Call, NEW a, Finish(d, a) PROVE answer'[c] \in {"none", a}
    BY <1>1 DEF Finish, TypeOK
<1>2. ASSUME UNCHANGED answer PROVE FALSE
    BY <1>2
<1>3. ASSUME NEW d \in Call, NEW p, Return(d, p) \/ Then(d, p) PROVE FALSE
    BY <1>2, <1>3 DEF Return, Then
<1>4. ASSUME NEW d \in Call, NEW a, a \in {"ok", "failed", "rewritten"} PROVE ~Finish(d, a)
    BY <1>1, <1>4
<1>5. ASSUME NEW d \in Call, Proceed(d) PROVE Undo(d)
    <2>1. ~Acquire(d)
        BY <1>2 DEF Acquire
    <2>2. ~Fetch(d)
        BY <1>3, <1>4 DEF Fetch
    <2>3. ~Forward(d)
        BY <1>3, <1>4 DEF Forward
    <2>4. ~Check(d)
        BY <1>3, <1>4 DEF Check
    <2>5. ~\E f \in Fact : WriteFile(d, f)
        BY <1>3 DEF WriteFile
    <2>6. ~Add(d)
        BY <1>3 DEF Add
    <2>7. ~CommitStaged(d)
        BY <1>3, CommitStagedShape
    <2>8. ~Push(d)
        BY <1>2, <1>4 DEF Push
    <2>9. ~OutOfTries(d) /\ ~Refetch(d) /\ ~Rebase(d) /\ ~Drop(d)
        BY <1>3 DEF OutOfTries, Refetch, Rebase, Drop
    <2> QED BY <1>5, <2>1, <2>2, <2>3, <2>4, <2>5, <2>6, <2>7, <2>8, <2>9 DEF Proceed
<1>6. ~Outside
    BY <1>2 DEF Outside, PushByOther, RewriteRemote, Crash, calls
<1>7. ASSUME NEW d \in Call PROVE ~Cancel(d)
    BY <1>2 DEF Cancel
<1>8. ASSUME NEW d \in Call, NEW new, NEW old, NEW expect PROVE ~Begin(d, new, old, expect)
    BY <1>2 DEF Begin
<1>9. PICK d \in Call : Undo(d)
    BY <1>5, <1>6, <1>7, <1>8 DEF Next
<1> QED BY <1>9 DEF Undo

\* A caller told of a conflict, a refusal or an error leaves the clone at origin/main,
\* for whatever an earlier call, crash or cancellation left in it.
THEOREM FailuresLeaveNothing == Spec => FailedLeavesClean
<1> DEFINE Left == local = tracking /\ index = TreeOf(local) /\ \A f \in Fact : Clean(f) \/ Untracked(f)
           Step == \A c \in Call :
                Undisturbed /\ answer[c] = "none" /\ answer'[c] \in {"conflict", "refused", "error"} => Left'
<1>1. ASSUME TypeOK, [Next]_vars PROVE [Step]_vars
    <2>1. CASE Next
        <3>1. ASSUME NEW c \in Call, answer[c] = "none", answer'[c] \in {"conflict", "refused", "error"} PROVE Left'
            BY <1>1, <2>1, <3>1, FailureIsUndo, ResetLeavesClean
        <3> QED BY <3>1
    <2> QED BY <1>1, <2>1
<1>2. TypeOK /\ [Next]_vars => [Step]_vars
    BY <1>1
<1> QED BY <1>2, WellTyped, PTL DEF Spec, FailedLeavesClean

-----------------------------------------------------------------------------
(* How a step moves the calls and the branches                             *)

\* c's call is at q, and no other one is in the clone.
Moved(c, q) ==
    /\ pc'[c] = q
    /\ \A d \in Call \ {c} : pc'[d] = pc[d] /\ pc[d] \notin Busy
    /\ UNCHANGED want

LEMMA ThreadGoesOn ==
    ASSUME TypeOK, OneThread, NEW c \in Call, pc[c] \in Busy, NEW p \in Busy, Return(c, p) \/ Then(c, p)
    PROVE  OneThread' /\ Moved(c, p)
<1>1. lock = {c} /\ lock' = lock /\ want' = want
    BY DEF OneThread, Return, Then
<1>2. pc' = [pc EXCEPT ![c] = p]
    BY <1>1 DEF Return, Then, Goto
<1>3. pc'[c] = p /\ \A d \in Call \ {c} : pc'[d] = pc[d]
    BY <1>2 DEF TypeOK
<1>4. \A d \in Call \ {c} : lock # {d} /\ pc[d] \notin Busy
    BY <1>1 DEF OneThread
<1>5. OneThread'
    BY <1>1, <1>3, <1>4 DEF OneThread, Busy, InThread
<1> QED BY <1>1, <1>3, <1>4, <1>5 DEF Moved

LEMMA ThreadEnds ==
    ASSUME TypeOK, OneThread, NEW c \in Call, pc[c] \in Busy, NEW a, Finish(c, a)
    PROVE  OneThread' /\ Moved(c, "done")
<1>1. lock = {c} /\ lock' = {} /\ want' = want
    BY DEF OneThread, Finish
<1>2. pc'[c] = "done" /\ \A d \in Call \ {c} : pc'[d] = pc[d]
    BY DEF TypeOK, Finish, Goto
<1>3. \A d \in Call \ {c} : pc[d] \notin Busy
    BY <1>1 DEF OneThread
<1>4. "done" \notin Busy
    BY DEF Busy, InThread
<1>5. OneThread'
    BY <1>1, <1>2, <1>3, <1>4 DEF OneThread, Busy, InThread
<1> QED BY <1>1, <1>2, <1>3, <1>5 DEF Moved

LEMMA NobodyRebases ==
    ASSUME NEW c \in Call, NEW q, Moved(c, q), q # "rebase"
    PROVE  RebaseSees'
<1>1. \A d \in Call : pc'[d] # "rebase"
    BY DEF Moved, Busy, InThread
<1> QED BY <1>1 DEF RebaseSees

\* Calls that are not in the clone keep their part when what they have not touched stays untouched.
LEMMA OthersAsTheyWere ==
    ASSUME TypeOK', Progress, NEW c \in Call, NEW q, Moved(c, q), ProgressOf(c)',
           \A d \in Call \ {c} : Untouched(d) => Untouched(d)'
    PROVE  Progress'
<1>1. ASSUME NEW d \in Call \ {c} PROVE ProgressOf(d)'
    <2>1. pc'[d] = pc[d] /\ pc[d] \notin Busy
        BY DEF Moved
    <2>2. pc'[d] \notin {"fetch", "forward", "check", "write", "add", "commit", "push", "refetch", "rebase"}
        BY <2>1 DEF Busy, InThread
    <2>3. pc[d] \in {"idle", "wait"} => Untouched(d)
        BY DEF Progress, ProgressOf
    <2>4. pc'[d] \in {"idle", "wait"} => Untouched(d)'
        BY <2>1, <2>3
    <2> QED BY <2>2, <2>4 DEF ProgressOf
<1> QED BY <1>1 DEF Progress

\* h2 holds c's commits as h does.
Within(c, h2, h) == By(c, h2) \subseteq By(c, h) /\ \A i \in By(c, h2) : \A k \in 1..i : h2[k] = h[k]

LEMMA CommitsStay ==
    ASSUME NEW c \in Call, WholeOf(c), AgreeOn(c), Nowhere(c) \/ want'[c] = want[c],
           \A h2 \in Branches' : \E h \in Branches : Within(c, h2, h)
    PROVE  WholeOf(c)' /\ AgreeOn(c)' /\ (Nowhere(c) => Nowhere(c)')
<1>1. Nowhere(c) => \A h2 \in Branches' : By(c, h2) = {}
    BY DEF Nowhere, Within
<1>2. CASE Nowhere(c)
    <2>1. Nowhere(c)'
        BY <1>1, <1>2 DEF Nowhere, By
    <2>2. WholeOf(c)'
        BY <1>1, <1>2 DEF WholeOf, By
    <2>3. AgreeOn(c)'
        BY <1>1, <1>2 DEF AgreeOn, By
    <2> QED BY <2>1, <2>2, <2>3
<1>3. CASE ~Nowhere(c)
    <2>1. Files(c)' = Files(c)
        BY <1>3 DEF Files
    <2>2. ASSUME NEW h2 \in Branches', NEW i \in By(c, h2)
          PROVE  By(c, h2) = {i} /\ Files(c) \subseteq DOMAIN h2[i]
        <3>1. PICK h \in Branches : Within(c, h2, h)
            OBVIOUS
        <3>2. i \in By(c, h) /\ By(c, h) = {i} /\ Files(c) \subseteq DOMAIN h[i]
            BY <2>2, <3>1 DEF Within, WholeOf
        <3>3. i \in 1..i
            BY <2>2 DEF By
        <3>4. h2[i] = h[i]
            BY <2>2, <3>1, <3>3 DEF Within
        <3> QED BY <2>2, <3>1, <3>2, <3>4 DEF Within
    <2>3. WholeOf(c)'
        BY <2>1, <2>2 DEF WholeOf, By
    <2>4. ASSUME NEW g2 \in Branches', NEW h2 \in Branches', NEW i \in By(c, g2), NEW j \in By(c, h2)
          PROVE  i = j /\ \A k \in 1..i : g2[k] = h2[k]
        <3>1. PICK g \in Branches : Within(c, g2, g)
            OBVIOUS
        <3>2. PICK h \in Branches : Within(c, h2, h)
            OBVIOUS
        <3>3. i \in By(c, g) /\ j \in By(c, h)
            BY <3>1, <3>2 DEF Within
        <3>4. i = j /\ \A k \in 1..i : g[k] = h[k]
            BY <3>3 DEF AgreeOn
        <3>5. \A k \in 1..i : g2[k] = g[k] /\ h2[k] = h[k]
            BY <3>1, <3>2, <3>4 DEF Within
        <3> QED BY <3>4, <3>5
    <2>5. AgreeOn(c)'
        BY <2>4 DEF AgreeOn, By
    <2> QED BY <1>3, <2>3, <2>5
<1> QED BY <1>2, <1>3

LEMMA BranchesStay ==
    ASSUME Whole, Agree, Branches' \subseteq Branches, \A c \in Call : Nowhere(c) \/ want'[c] = want[c]
    PROVE  Whole' /\ Agree' /\ \A c \in Call : Nowhere(c) => Nowhere(c)'
<1>1. ASSUME NEW c \in Call PROVE WholeOf(c)' /\ AgreeOn(c)' /\ (Nowhere(c) => Nowhere(c)')
    <2>1. \A h : Within(c, h, h)
        BY DEF Within
    <2>2. WholeOf(c) /\ AgreeOn(c)
        BY DEF Whole, Agree
    <2> QED BY <2>1, <2>2, CommitsStay
<1> QED BY <1>1 DEF Whole, Agree

\* What a call has not touched stays so when files come from the clone or from the branches.
LEMMA StaysUntouched ==
    ASSUME TypeOK', NEW d \in Call, Untouched(d), Nowhere(d)',
           \A f \in Fact : /\ index'[f].by # d \/ index'[f] \in {index[f], tree[f]} \/ \E h \in Branches' : index'[f] = TreeOf(h)[f]
                           /\ tree'[f].by # d \/ tree'[f] = tree[f] \/ \E h \in Branches' : tree'[f] = TreeOf(h)[f]
    PROVE  Untouched(d)'
<1>1. ASSUME NEW h \in Branches', NEW f \in Fact PROVE TreeOf(h)[f].by # d
    <2>1. By(d, h) = {}
        BY DEF Nowhere, By
    <2>2. Len(h) \in Nat
        BY LenProperties DEF TypeOK, Branches
    <2> QED BY <2>1, <2>2, TreeIsCommitted
<1>2. \A f \in Fact : index[f].by # d /\ tree[f].by # d
    BY DEF Untouched, Unstaged
<1>3. ASSUME NEW f \in Fact PROVE index'[f].by # d /\ tree'[f].by # d
    BY <1>1, <1>2
<1> QED BY <1>3 DEF Untouched, Unstaged

\* What is staged stays so when the clone's branch and its index do.
LEMMA StagingStays ==
    ASSUME StagedWhole, \A c \in Call : Nowhere(c) => Nowhere(c)', UNCHANGED <<local, index>>,
           \A c \in Call : want'[c] = want[c] \/ \A f \in Fact : index[f].by # c
    PROVE  StagedWhole'
<1>1. \A f : Uncommitted(f)' <=> Uncommitted(f)
    BY DEF Uncommitted, TreeOf
<1>2. ASSUME NEW c \in Call, Staged(c)' PROVE (Nowhere(c) /\ \A g \in Files(c) : index[g].by \in Call /\ Uncommitted(g))'
    <2>1. Staged(c)
        BY <1>1, <1>2 DEF Staged
    <2>2. Files(c)' = Files(c)
        BY <2>1 DEF Staged, Files
    <2> QED BY <1>1, <2>1, <2>2 DEF StagedWhole
<1> QED BY <1>2 DEF StagedWhole

LEMMA NothingStaged ==
    ASSUME index' = TreeOf(local')
    PROVE  StagedWhole'
BY DEF StagedWhole, Staged, Uncommitted, TreeOf

LEMMA FilesAreFacts ==
    ASSUME TypeOK, NEW c \in Call
    PROVE  Files(c) \subseteq Fact
<1>1. want[c] \in Want
    BY DEF TypeOK
<1>2. want[c].new \in AtMostOne(Fact) /\ want[c].old \in AtMostOne(Fact)
    BY <1>1 DEF Want
<1>3. \A S \in AtMostOne(Fact) : S \subseteq Fact
    BY DEF AtMostOne
<1> QED BY <1>2, <1>3 DEF Files

\* A move leaves alone what a call has staged.
LEMMA StagingOutlivesMove ==
    ASSUME TypeOK, StagedWhole, NEW h, MoveTo(h), UNCHANGED want, \A c \in Call : Nowhere(c) => Nowhere(c)',
           \A f \in Changed(local, h) : Clean(f) \/ Untracked(f)
    PROVE  StagedWhole'
<1>1. local' = h /\ index' = [f \in Fact |-> IF f \in Changed(local, h) THEN TreeOf(h)[f] ELSE index[f]]
    BY DEF MoveTo
<1>2. TreeOf(local)' = TreeOf(h)
    BY <1>1 DEF TreeOf
<1>3. ASSUME NEW f \in Fact, index[f].by \in Call, Uncommitted(f) PROVE index'[f] = index[f] /\ Uncommitted(f)'
    <2>1. ~Clean(f)
        BY <1>3 DEF Clean, Uncommitted
    <2>2. ~Untracked(f)
        BY <1>3, GitAssumption DEF Untracked, Absent
    <2>3. f \notin Changed(local, h)
        BY <2>1, <2>2
    <2>4. index'[f] = index[f] /\ TreeOf(h)[f] = TreeOf(local)[f]
        BY <1>1, <2>3 DEF Changed
    <2> QED BY <1>2, <1>3, <2>4 DEF Uncommitted
<1>4. ASSUME NEW c \in Call, NEW f \in Fact, index'[f].by = c, Uncommitted(f)' PROVE index[f].by = c /\ Uncommitted(f)
    <2>1. f \notin Changed(local, h)
        BY <1>1, <1>2, <1>4 DEF Uncommitted
    <2>2. index'[f] = index[f] /\ TreeOf(h)[f] = TreeOf(local)[f]
        BY <1>1, <2>1 DEF Changed
    <2> QED BY <1>2, <1>4, <2>2 DEF Uncommitted
<1>5. ASSUME NEW c \in Call, Staged(c)' PROVE (Nowhere(c) /\ \A g \in Files(c) : index[g].by \in Call /\ Uncommitted(g))'
    <2>1. Staged(c)
        BY <1>4, <1>5 DEF Staged
    <2>2. Files(c)' = Files(c) /\ Files(c) \subseteq Fact
        BY FilesAreFacts DEF Files
    <2> QED BY <1>3, <2>1, <2>2 DEF StagedWhole
<1> QED BY <1>5 DEF StagedWhole

-----------------------------------------------------------------------------
(* One action after the other                                              *)

\* A step that leaves the branch, the index and the working tree of the clone alone.
LEMMA CloneStays ==
    ASSUME TypeOK', Core, NEW c \in Call, NEW q, Moved(c, q), OneThread', q # "rebase",
           UNCHANGED <<local, index, tree>>, Branches' \subseteq Branches
    PROVE  /\ \A d \in Call : /\ Nowhere(d) => Nowhere(d)'
                              /\ Unstaged(d) => Unstaged(d)'
                              /\ Untouched(d) => Untouched(d)'
           /\ ProgressOf(c)' => Core'
<1>1. want' = want
    BY DEF Moved
<1>2. Whole' /\ Agree' /\ \A d \in Call : Nowhere(d) => Nowhere(d)'
    BY <1>1, BranchesStay DEF Core
<1>3. StagedWhole'
    BY <1>1, <1>2, StagingStays DEF Core
<1>4. RebaseSees'
    BY NobodyRebases
<1>5. \A d \in Call : (Unstaged(d) => Unstaged(d)') /\ (Untouched(d) => Untouched(d)')
    BY <1>2 DEF Unstaged, Untouched
<1>6. ProgressOf(c)' => Progress'
    BY <1>5, OthersAsTheyWere DEF Core
<1> QED BY <1>2, <1>3, <1>4, <1>5, <1>6 DEF Core

LEMMA AcquireKeeps ==
    ASSUME TypeOK, TypeOK', Core, NEW c \in Call, Acquire(c)
    PROVE  Core'
<1>1. lock = {} /\ lock' = {c} /\ pc' = [pc EXCEPT ![c] = "fetch"] /\ UNCHANGED <<remote, clone, want>>
    BY DEF Acquire, Goto
<1>2. pc[c] = "wait" /\ pc'[c] = "fetch" /\ \A d \in Call \ {c} : pc'[d] = pc[d]
    BY <1>1 DEF Acquire, TypeOK
<1>3. \A d \in Call : pc[d] \notin Busy
    BY <1>1 DEF Core, OneThread
<1>4. OneThread'
    BY <1>1, <1>2, <1>3 DEF OneThread, Busy, InThread
<1>5. Moved(c, "fetch")
    BY <1>1, <1>2, <1>3 DEF Moved
<1>6. Branches' \subseteq Branches
    BY <1>1 DEF Branches, clone
<1>7. Untouched(c)
    BY <1>2 DEF Core, Progress, ProgressOf
<1>8. (ProgressOf(c)' => Core') /\ Untouched(c)'
    BY <1>1, <1>4, <1>5, <1>6, <1>7, CloneStays DEF clone
<1>9. ProgressOf(c)'
    BY <1>2, <1>8 DEF ProgressOf
<1> QED BY <1>8, <1>9

LEMMA FetchKeeps ==
    ASSUME TypeOK, TypeOK', Core, NEW c \in Call, Fetch(c)
    PROVE  Core'
<1>1. pc[c] = "fetch" /\ Untouched(c)
    BY DEF Fetch, Core, Progress, ProgressOf
<1>2. pc[c] \in Busy /\ "forward" \in Busy
    BY <1>1 DEF Busy, InThread
<1>3. Branches' \subseteq Branches /\ UNCHANGED <<local, index, tree>>
    BY DEF Fetch, Branches
<1>4. PICK q \in {"forward", "done"} : OneThread' /\ Moved(c, q)
    <2>1. Then(c, "forward") \/ Finish(c, "failed")
        BY DEF Fetch
    <2> QED BY <1>2, <2>1, ThreadGoesOn, ThreadEnds DEF Core
<1>5. (ProgressOf(c)' => Core') /\ Untouched(c)'
    BY <1>1, <1>3, <1>4, CloneStays
<1>6. ProgressOf(c)'
    BY <1>4, <1>5 DEF ProgressOf, Moved
<1> QED BY <1>5, <1>6

\* Moving to a branch of the clone's or the remote's brings in what is on it.
LEMMA MoveFiles ==
    ASSUME NEW h, MoveTo(h), NEW f \in Fact
    PROVE  /\ index'[f] = index[f] \/ index'[f] = TreeOf(h)[f]
           /\ tree'[f] = tree[f] \/ tree'[f] = TreeOf(h)[f]
BY DEF MoveTo

LEMMA ForwardKeeps ==
    ASSUME TypeOK, TypeOK', Core, NEW c \in Call, Forward(c)
    PROVE  Core'
<1>1. pc[c] = "forward" /\ Untouched(c) /\ UNCHANGED <<remote, tracking, used>>
    BY DEF Forward, Core, Progress, ProgressOf
<1>2. pc[c] \in Busy /\ "check" \in Busy
    BY <1>1 DEF Busy, InThread
<1>3. PICK q \in {"check", "done"} : OneThread' /\ Moved(c, q)
    <2>1. Return(c, "check") \/ Finish(c, "failed") \/ Finish(c, "rewritten")
        BY DEF Forward
    <2> QED BY <1>2, <2>1, ThreadGoesOn, ThreadEnds DEF Core
<1>4. CASE MoveTo(tracking) /\ CanMoveTo(tracking)
    <2>1. Branches' \subseteq Branches /\ want' = want
        BY <1>1, <1>3, <1>4 DEF MoveTo, Branches, Moved
    <2>2. Whole' /\ Agree' /\ \A d \in Call : Nowhere(d) => Nowhere(d)'
        BY <2>1, BranchesStay DEF Core
    <2>3. StagedWhole'
        BY <1>4, <2>1, <2>2, StagingOutlivesMove DEF Core, CanMoveTo
    <2>4. ASSUME NEW d \in Call, Untouched(d) PROVE Untouched(d)'
        <3>1. tracking \in Branches'
            BY <1>1 DEF Branches
        <3>2. Nowhere(d)'
            BY <2>2, <2>4 DEF Untouched, Unstaged
        <3> QED BY <1>4, <2>4, <3>1, <3>2, MoveFiles, StaysUntouched
    <2>5. ProgressOf(c)'
        BY <1>1, <1>3, <2>4 DEF ProgressOf, Moved
    <2>6. Progress'
        BY <1>3, <2>4, <2>5, OthersAsTheyWere DEF Core
    <2>7. RebaseSees'
        BY <1>3, NobodyRebases
    <2> QED BY <1>3, <2>2, <2>3, <2>6, <2>7 DEF Core
<1>5. CASE UNCHANGED <<local, index, tree>>
    <2>1. Branches' \subseteq Branches
        BY <1>1, <1>5 DEF Branches
    <2>2. (ProgressOf(c)' => Core') /\ Untouched(c)'
        BY <1>1, <1>3, <1>5, <2>1, CloneStays
    <2>3. ProgressOf(c)'
        BY <1>3, <2>2 DEF ProgressOf, Moved
    <2> QED BY <2>2, <2>3
<1> QED BY <1>4, <1>5 DEF Forward

LEMMA CheckKeeps ==
    ASSUME TypeOK, TypeOK', Core, NEW c \in Call, Check(c)
    PROVE  Core'
<1>1. pc[c] = "check" /\ Untouched(c) /\ UNCHANGED <<remote, clone, used>>
    BY DEF Check, Core, Progress, ProgressOf
<1>2. pc[c] \in Busy /\ {"abort", "write", "undo"} \subseteq Busy
    BY <1>1 DEF Busy, InThread
<1>3. PICK q \in {"done", "abort", "write", "undo"} : OneThread' /\ Moved(c, q) /\ (q = "write" => Files(c) # {})
    <2>1. \/ Finish(c, "ok") \/ Then(c, "abort") \/ Then(c, "undo")
          \/ Then(c, "write") /\ Files(c) # {}
        BY DEF Check
    <2> QED BY <1>2, <2>1, ThreadGoesOn, ThreadEnds DEF Core
<1>4. Branches' \subseteq Branches
    BY <1>1 DEF Branches, clone
<1>5. (ProgressOf(c)' => Core') /\ Untouched(c)'
    BY <1>1, <1>3, <1>4, CloneStays DEF clone
<1>6. Files(c)' = Files(c)
    BY <1>3 DEF Moved, Files
<1>7. ProgressOf(c)'
    BY <1>3, <1>5, <1>6 DEF ProgressOf, Moved, Untouched
<1> QED BY <1>5, <1>7

LEMMA WriteFileKeeps ==
    ASSUME TypeOK, TypeOK', Core, NEW c \in Call, NEW f \in Fact, WriteFile(c, f)
    PROVE  Core'
<1>1. pc[c] = "write" /\ Unstaged(c) /\ Files(c) # {} /\ UNCHANGED <<remote, tracking, local, index>>
    BY DEF WriteFile, Core, Progress, ProgressOf
<1>2. pc[c] \in Busy /\ {"write", "add", "abort"} \subseteq Busy
    BY <1>1 DEF Busy, InThread
<1>3. PICK q \in {"write", "add", "abort"} :
        /\ OneThread' /\ Moved(c, q)
        /\ q = "add" => Unwritten(c) = {f} /\ tree'[f].by = c
    <2>1. Then(c, "write") \/ Then(c, "abort") \/ (Then(c, "add") /\ Unwritten(c) = {f} /\ tree'[f].by = c)
        BY DEF WriteFile, TypeOK, Written
    <2> QED BY <1>2, <2>1, ThreadGoesOn DEF Core
<1>4. \A g \in Fact : tree'[g] = tree[g] \/ (g = f /\ tree'[g].by = c)
    BY DEF WriteFile, TypeOK, Written
<1>5. Branches' \subseteq Branches /\ want' = want
    BY <1>1, <1>3 DEF Branches, Moved
<1>6. Whole' /\ Agree' /\ \A d \in Call : Nowhere(d) => Nowhere(d)'
    BY <1>5, BranchesStay DEF Core
<1>7. StagedWhole'
    BY <1>1, <1>5, <1>6, StagingStays DEF Core
<1>8. RebaseSees'
    BY <1>3, NobodyRebases
<1>9. \A d \in Call \ {c} : Untouched(d) => Untouched(d)'
    BY <1>1, <1>4, <1>6 DEF Untouched, Unstaged
<1>10. ProgressOf(c)'
    <2>1. Unstaged(c)' /\ Files(c)' = Files(c)
        BY <1>1, <1>5, <1>6 DEF Unstaged, Files
    <2>2. ASSUME pc'[c] = "add", NEW g \in Files(c) PROVE tree'[g].by = c
        <3>1. Unwritten(c) = {f} /\ tree'[f].by = c
            BY <1>3, <2>2 DEF Moved
        <3>2. g = f \/ tree[g].by = c
            BY <3>1 DEF Unwritten
        <3> QED BY <1>4, <3>1, <3>2, FilesAreFacts
    <2> QED BY <1>1, <1>3, <2>1, <2>2 DEF ProgressOf, Moved
<1>11. Progress'
    BY <1>3, <1>9, <1>10, OthersAsTheyWere DEF Core
<1> QED BY <1>3, <1>6, <1>7, <1>8, <1>11 DEF Core

LEMMA AddKeeps ==
    ASSUME TypeOK, TypeOK', Core, NEW c \in Call, Add(c)
    PROVE  Core'
<1>1. /\ pc[c] = "add" /\ Unstaged(c) /\ Files(c) # {} /\ \A f \in Files(c) : tree[f].by = c
      /\ UNCHANGED <<remote, tracking, local, tree>>
    BY DEF Add, Core, Progress, ProgressOf
<1>2. pc[c] \in Busy /\ "commit" \in Busy
    BY <1>1 DEF Busy, InThread
<1>3. OneThread' /\ Moved(c, "commit")
    BY <1>2, ThreadGoesOn DEF Add, Core
<1>4. Branches' \subseteq Branches /\ want' = want
    BY <1>1, <1>3 DEF Branches, Moved
<1>5. Whole' /\ Agree' /\ \A d \in Call : Nowhere(d) => Nowhere(d)'
    BY <1>4, BranchesStay DEF Core
<1>6. RebaseSees'
    BY <1>3, NobodyRebases
<1>7. \A f \in Fact : IF f \in Files(c) THEN index'[f] = tree[f] /\ index'[f].by = c ELSE index'[f] = index[f]
    BY <1>1 DEF Add, Added
<1>8. \A d \in Call \ {c} : Untouched(d) => Untouched(d)'
    BY <1>1, <1>5, <1>7 DEF Untouched, Unstaged
<1>9. ProgressOf(c)'
    <2>1. Nowhere(c)' /\ Files(c)' = Files(c)
        BY <1>1, <1>4, <1>5 DEF Unstaged, Files
    <2>2. \A f \in Files(c) : index'[f].by = c
        BY <1>7, FilesAreFacts
    <2> QED BY <1>1, <1>3, <2>1, <2>2 DEF ProgressOf, Moved
<1>10. Progress'
    BY <1>3, <1>8, <1>9, OthersAsTheyWere DEF Core
<1>11. ASSUME NEW f \in Fact, index'[f].by = c PROVE Uncommitted(f)'
    <2>1. TreeOf(local)[f].by # c
        <3>1. By(c, local) = {} /\ Len(local) \in Nat
            BY <1>1, LenProperties DEF Unstaged, Nowhere, Branches, TypeOK
        <3> QED BY <3>1, TreeIsCommitted
    <2>2. TreeOf(local)' = TreeOf(local)
        BY <1>1 DEF TreeOf
    <2> QED BY <1>11, <2>1, <2>2 DEF Uncommitted
<1>12. \A f \in Fact : index'[f] = index[f] /\ Uncommitted(f) => Uncommitted(f)'
    <2>1. TreeOf(local)' = TreeOf(local)
        BY <1>1 DEF TreeOf
    <2> QED BY <2>1 DEF Uncommitted
<1>13. StagedWhole'
    <2>1. ASSUME NEW d \in Call, Staged(d)'
          PROVE  Nowhere(d)' /\ \A g \in Files(d)' : index'[g].by \in Call /\ Uncommitted(g)'
        <3>1. Files(d)' = Files(d) /\ Files(d) \subseteq Fact
            BY <1>4, FilesAreFacts DEF Files
        <3>2. CASE d = c
            <4>1. \A g \in Files(c) : index'[g].by = c
                BY <1>7, FilesAreFacts
            <4>2. Nowhere(c)'
                BY <1>1, <1>5 DEF Unstaged
            <4> QED BY <1>11, <3>1, <3>2, <4>1, <4>2
        <3>3. CASE d # c
            <4>1. PICK f \in Fact : index'[f].by = d /\ Uncommitted(f)'
                BY <2>1 DEF Staged
            <4>2. index'[f] = index[f] /\ index[f].by = d
                BY <1>7, <3>3, <4>1
            <4>3. Uncommitted(f)
                <5>1. TreeOf(local)' = TreeOf(local)
                    BY <1>1 DEF TreeOf
                <5> QED BY <4>1, <4>2, <5>1 DEF Uncommitted
            <4>4. Nowhere(d) /\ \A g \in Files(d) : index[g].by \in Call /\ Uncommitted(g)
                BY <4>2, <4>3 DEF Core, StagedWhole, Staged
            <4>5. \A g \in Files(d) : index'[g].by \in Call /\ Uncommitted(g)'
                BY <1>7, <1>11, <1>12, <3>1, <4>4
            <4> QED BY <1>5, <3>1, <4>4, <4>5
        <3> QED BY <3>2, <3>3
    <2> QED BY <2>1 DEF StagedWhole
<1> QED BY <1>3, <1>5, <1>6, <1>10, <1>13 DEF Core

\* The next commit is on the branch for exactly the calls it carries files of.
LEMMA CommitAdds ==
    ASSUME TypeOK, NEW t, t = Append(local, NewCommit), NEW n, n = Len(local)
    PROVE  /\ n \in Nat /\ Len(t) = n + 1
           /\ \A k \in 1..n : t[k] = local[k]
           /\ t[n + 1] = NewCommit
           /\ \A d \in Call : By(d, t) = IF Staged(d) THEN By(d, local) \cup {n + 1} ELSE By(d, local)
<1>1. local \in Seq(Commit) /\ NewCommit \in Commit
    BY NewCommitTyped DEF TypeOK
<1>2. n \in Nat /\ Len(t) = n + 1 /\ (\A k \in 1..n : t[k] = local[k]) /\ t[n + 1] = NewCommit
    BY <1>1, AppendProperties, LenProperties
<1>3. ASSUME NEW d \in Call
      PROVE  By(d, t) = IF Staged(d) THEN By(d, local) \cup {n + 1} ELSE By(d, local)
    <2>1. (\E f \in DOMAIN NewCommit : NewCommit[f].by = d) <=> Staged(d)
        BY DEF NewCommit, Staged
    <2>2. \A i : i \in By(d, local) <=> i \in 1..n /\ \E f \in DOMAIN local[i] : local[i][f].by = d
        BY DEF By
    <2>3. \A i : i \in By(d, t) <=> i \in 1..n + 1 /\ \E f \in DOMAIN t[i] : t[i][f].by = d
        BY <1>2 DEF By
    <2>4. \A i \in 1..n : i \in By(d, t) <=> i \in By(d, local)
        BY <1>2, <2>2, <2>3
    <2>5. n + 1 \in By(d, t) <=> Staged(d)
        BY <1>2, <2>1, <2>3
    <2>6. \A i : i \in By(d, t) <=> i \in By(d, local) \/ (i = n + 1 /\ Staged(d))
        BY <1>2, <2>2, <2>3, <2>4, <2>5
    <2> QED BY <2>6
<1> QED BY <1>2, <1>3

LEMMA CommitStagedKeeps ==
    ASSUME TypeOK, TypeOK', Core, NEW c \in Call, CommitStaged(c)
    PROVE  Core'
<1>1. /\ pc[c] = "commit" /\ UNCHANGED <<remote, tracking, index, tree>>
      /\ Nowhere(c) /\ Files(c) # {} /\ \A f \in Files(c) : index[f].by = c
    BY CommitStagedShape DEF Core, Progress, ProgressOf
<1>2. pc[c] \in Busy /\ "push" \in Busy
    BY <1>1 DEF Busy, InThread
<1>3. Staged(c)
    <2>1. PICK f \in Files(c) : index[f].by = c
        BY <1>1
    <2>2. f \in Fact
        BY FilesAreFacts
    <2>3. TreeOf(local)[f].by # c
        <3>1. By(c, local) = {} /\ Len(local) \in Nat
            BY <1>1, LenProperties DEF Nowhere, Branches, TypeOK
        <3> QED BY <2>2, <3>1, TreeIsCommitted
    <2> QED BY <2>1, <2>2, <2>3 DEF Staged, Uncommitted
<1>4. local' = Append(local, NewCommit) /\ Then(c, "push")
    BY <1>3, CommitStagedShape DEF Staged
<1>5. OneThread' /\ Moved(c, "push")
    BY <1>2, <1>4, ThreadGoesOn DEF Core
<1> DEFINE n == Len(local)
           B2 == {remote, tracking, local'}
<1>6. /\ n \in Nat /\ (\A k \in 1..n : local'[k] = local[k]) /\ local'[n + 1] = NewCommit
      /\ \A d \in Call : By(d, local') = IF Staged(d) THEN By(d, local) \cup {n + 1} ELSE By(d, local)
    BY <1>4, CommitAdds
<1>7. Branches' = B2 /\ Branches = {remote, tracking, local}
    BY <1>1 DEF Branches
<1> HIDE DEF n, B2
<1>8. ASSUME NEW d \in Call, ~Staged(d)
      PROVE  WholeOf(d)' /\ AgreeOn(d)' /\ (Nowhere(d) => Nowhere(d)')
    <2>1. By(d, local') = By(d, local) /\ \A i \in By(d, local) : i \in 1..n
        BY <1>6, <1>8 DEF By, n
    <2>2. Within(d, local', local)
        BY <1>6, <2>1 DEF Within
    <2>3. \A h : Within(d, h, h)
        BY DEF Within
    <2>4. \A h2 \in Branches' : \E h \in Branches : Within(d, h2, h)
        BY <1>7, <2>2, <2>3 DEF B2
    <2>5. WholeOf(d) /\ AgreeOn(d)
        BY DEF Core, Whole, Agree
    <2>6. want'[d] = want[d]
        BY <1>5 DEF Moved
    <2> QED BY <2>4, <2>5, <2>6, CommitsStay
<1>9. ASSUME NEW d \in Call, Staged(d)
      PROVE  WholeOf(d)' /\ AgreeOn(d)'
    <2>1. Nowhere(d) /\ \A g \in Files(d) : Uncommitted(g)
        BY <1>9 DEF Core, StagedWhole
    <2>2. By(d, remote) = {} /\ By(d, tracking) = {} /\ By(d, local') = {n + 1}
        BY <1>6, <1>9, <2>1 DEF Nowhere, Branches
    <2>3. Files(d)' = Files(d) /\ Files(d) \subseteq DOMAIN local'[n + 1]
        <3>1. Files(d) \subseteq DOMAIN NewCommit
            BY <2>1, FilesAreFacts DEF NewCommit
        <3> QED BY <1>5, <1>6, <3>1 DEF Moved, Files
    <2>4. \A h \in Branches' : \A i : i \in By(d, h) => h = local' /\ i = n + 1
        BY <1>7, <2>2 DEF B2
    <2>5. WholeOf(d)'
        BY <2>2, <2>3, <2>4 DEF WholeOf, By
    <2>6. AgreeOn(d)'
        BY <2>4 DEF AgreeOn, By
    <2> QED BY <2>5, <2>6
<1>10. Whole' /\ Agree'
    BY <1>8, <1>9 DEF Whole, Agree
<1>11. ASSUME NEW d \in Call \ {c}, Untouched(d) PROVE Untouched(d)'
    <2>1. ~Staged(d)
        BY <1>11 DEF Untouched, Unstaged, Staged
    <2>2. Nowhere(d)'
        BY <1>8, <1>11, <2>1 DEF Untouched, Unstaged
    <2> QED BY <1>1, <1>11, <2>2 DEF Untouched, Unstaged
<1>12. ProgressOf(c)'
    <2>1. By(c, local') # {}
        BY <1>3, <1>6
    <2> QED BY <1>5, <2>1 DEF ProgressOf, Moved, By
<1>13. Progress'
    BY <1>5, <1>11, <1>12, OthersAsTheyWere DEF Core
<1>14. StagedWhole'
    <2>1. \A f \in Fact : index'[f] = TreeOf(local')[f]
        <3> TAKE f \in Fact
        <3>1. local \in Seq(Commit) /\ NewCommit \in Commit
            BY NewCommitTyped DEF TypeOK
        <3>2. TreeOf(local')[f] = IF f \in DOMAIN NewCommit THEN NewCommit[f] ELSE TreeOf(local)[f]
            BY <1>4, <3>1, TreeOfAppend
        <3> QED BY <1>1, <3>2 DEF NewCommit, Uncommitted
    <2>2. \A f \in Fact : ~Uncommitted(f)'
        BY <2>1 DEF Uncommitted, TreeOf
    <2> QED BY <2>2 DEF StagedWhole, Staged
<1>15. RebaseSees'
    BY <1>5, NobodyRebases
<1> QED BY <1>5, <1>10, <1>13, <1>14, <1>15 DEF Core

LEMMA PushKeeps ==
    ASSUME TypeOK, TypeOK', Core, NEW c \in Call, Push(c)
    PROVE  Core'
<1>1. pc[c] = "push" /\ By(c, local) # {} /\ UNCHANGED <<local, index, tree>>
    BY DEF Push, Core, Progress, ProgressOf
<1>2. pc[c] \in Busy /\ "refetch" \in Busy
    BY <1>1 DEF Busy, InThread
<1>3. Branches' \subseteq Branches
    BY <1>1 DEF Push, Branches
<1>4. PICK q \in {"refetch", "done"} : OneThread' /\ Moved(c, q)
    <2>1. CASE Finish(c, "ok")
        BY <1>2, <2>1, ThreadEnds DEF Core
    <2>2. CASE Goto(c, "refetch") /\ UNCHANGED <<lock, want, answer>>
        <3>1. pc'[c] = "refetch" /\ \A d \in Call \ {c} : pc'[d] = pc[d]
            BY <2>2 DEF Goto, TypeOK
        <3>2. lock = {c} /\ \A d \in Call \ {c} : pc[d] \notin Busy
            BY <1>2 DEF Core, OneThread
        <3>3. OneThread'
            BY <1>2, <2>2, <3>1, <3>2 DEF OneThread
        <3> QED BY <2>2, <3>1, <3>2, <3>3 DEF Moved
    <2> QED BY <2>1, <2>2 DEF Push
<1>5. ProgressOf(c)' => Core'
    BY <1>1, <1>3, <1>4, CloneStays
<1>6. ProgressOf(c)'
    BY <1>1, <1>4 DEF ProgressOf, Moved, By
<1> QED BY <1>5, <1>6

LEMMA OutOfTriesKeeps ==
    ASSUME TypeOK, TypeOK', Core, NEW c \in Call, OutOfTries(c)
    PROVE  Core'
<1>1. pc[c] = "push" /\ UNCHANGED <<remote, clone, used>>
    BY DEF OutOfTries
<1>2. pc[c] \in Busy /\ "drop" \in Busy
    BY <1>1 DEF Busy, InThread
<1>3. Branches' \subseteq Branches
    BY <1>1 DEF clone, Branches
<1>4. OneThread' /\ Moved(c, "drop")
    BY <1>2, ThreadGoesOn DEF Core, OutOfTries
<1>5. ProgressOf(c)' => Core'
    BY <1>1, <1>3, <1>4, CloneStays DEF clone
<1>6. ProgressOf(c)'
    BY <1>4 DEF ProgressOf, Moved
<1> QED BY <1>5, <1>6

LEMMA RefetchKeeps ==
    ASSUME TypeOK, TypeOK', Core, NEW c \in Call, Refetch(c)
    PROVE  Core'
<1>1. pc[c] = "refetch" /\ By(c, local) # {} /\ UNCHANGED <<remote, local, index, tree>>
    BY DEF Refetch, Core, Progress, ProgressOf
<1>2. pc[c] \in Busy /\ {"rebase", "discard"} \subseteq Busy
    BY <1>1 DEF Busy, InThread
<1>3. Branches' \subseteq Branches
    BY <1>1 DEF Refetch, Branches
<1>4. CASE Return(c, "discard")
    <2>1. OneThread' /\ Moved(c, "discard")
        BY <1>2, <1>4, ThreadGoesOn DEF Core
    <2>2. ProgressOf(c)' => Core'
        BY <1>1, <1>3, <2>1, CloneStays
    <2>3. ProgressOf(c)'
        BY <2>1 DEF ProgressOf, Moved
    <2> QED BY <2>2, <2>3
<1>5. CASE tracking' = remote /\ Then(c, "rebase")
    <2>1. OneThread' /\ Moved(c, "rebase")
        BY <1>2, <1>5, ThreadGoesOn DEF Core
    <2>2. want' = want
        BY <2>1 DEF Moved
    <2>3. Whole' /\ Agree' /\ \A d \in Call : Nowhere(d) => Nowhere(d)'
        BY <1>3, <2>2, BranchesStay DEF Core
    <2>4. StagedWhole'
        BY <1>1, <2>2, <2>3, StagingStays DEF Core
    <2>5. ProgressOf(c)'
        BY <1>1, <2>1 DEF ProgressOf, Moved, By
    <2>6. \A d \in Call : Untouched(d) => Untouched(d)'
        BY <1>1, <2>3 DEF Untouched, Unstaged
    <2>7. Progress'
        BY <2>1, <2>5, <2>6, OthersAsTheyWere DEF Core
    <2>8. RebaseSees'
        BY <1>1, <1>5 DEF RebaseSees, By
    <2> QED BY <2>1, <2>3, <2>4, <2>7, <2>8 DEF Core
<1> QED BY <1>4, <1>5 DEF Refetch

\* A reset leaves what is on origin/main.
LEMMA ResetKeeps ==
    ASSUME TypeOK, TypeOK', Core, NEW c \in Call, NEW q \in {"discard", "done"}, Moved(c, q), OneThread', ResetHard, UNCHANGED remote
    PROVE  Core'
<1>1. local' = tracking /\ tracking' = tracking /\ index' = TreeOf(tracking)
    BY DEF ResetHard
<1>2. Branches' \subseteq Branches /\ want' = want
    BY <1>1 DEF Branches, Moved
<1>3. Whole' /\ Agree' /\ \A d \in Call : Nowhere(d) => Nowhere(d)'
    BY <1>2, BranchesStay DEF Core
<1>4. StagedWhole'
    BY <1>1, NothingStaged
<1>5. RebaseSees'
    BY NobodyRebases
<1>6. ASSUME NEW d \in Call, Untouched(d) PROVE Untouched(d)'
    <2>1. tracking \in Branches'
        BY <1>1 DEF Branches
    <2>2. Nowhere(d)'
        BY <1>3, <1>6 DEF Untouched, Unstaged
    <2>3. \A f \in Fact : index'[f] = TreeOf(tracking)[f] /\ (tree'[f] = tree[f] \/ tree'[f] = TreeOf(tracking)[f])
        BY DEF ResetHard
    <2> QED BY <1>6, <2>1, <2>2, <2>3, StaysUntouched
<1>7. ProgressOf(c)'
    BY DEF ProgressOf, Moved
<1>8. Progress'
    BY <1>6, <1>7, OthersAsTheyWere DEF Core
<1> QED BY <1>3, <1>4, <1>5, <1>8 DEF Core

LEMMA DropKeeps ==
    ASSUME TypeOK, TypeOK', Core, NEW c \in Call, Drop(c)
    PROVE  Core'
<1>1. pc[c] \in Busy /\ "discard" \in Busy
    BY DEF Drop, Busy, InThread
<1>2. OneThread' /\ Moved(c, "discard")
    BY <1>1, ThreadGoesOn DEF Core, Drop
<1> QED BY <1>2, ResetKeeps DEF Drop

LEMMA UndoKeeps ==
    ASSUME TypeOK, TypeOK', Core, NEW c \in Call, Undo(c)
    PROVE  Core'
<1>1. pc[c] \in Busy
    BY DEF Undo, Undoing, Busy, InThread
<1>2. OneThread' /\ Moved(c, "done")
    BY <1>1, ThreadEnds DEF Core, Undo
<1> QED BY <1>2, ResetKeeps DEF Undo

\* A replayed branch has the remote's commits and then those the clone had over.
Replay == tracking \o OnlyIn(local, tracking)

LEMMA ReplayShape ==
    ASSUME TypeOK, NEW p, p = Shared(local, tracking), NEW m, m = Len(tracking), NEW t, t = Replay
    PROVE  /\ p \in Nat /\ m \in Nat /\ p <= Len(local) /\ p <= m /\ Len(t) = m + (Len(local) - p)
           /\ \A k \in 1..m : t[k] = tracking[k]
           /\ \A k \in 1..Len(local) - p : t[m + k] = local[p + k]
           /\ \A k \in 1..p : local[k] = tracking[k]
           /\ \A n \in Nat : n <= Len(local) /\ n <= m /\ (\A k \in 1..n : local[k] = tracking[k]) => n <= p
<1> DEFINE u == OnlyIn(local, tracking)
<1>1. local \in Seq(Commit) /\ tracking \in Seq(Commit)
    BY DEF TypeOK
<1>2. /\ p \in Nat /\ p <= Len(local) /\ p <= Len(tracking)
      /\ \A k \in 1..p : local[k] = tracking[k]
      /\ \A n \in Nat : n <= Len(local) /\ n <= Len(tracking) /\ (\A k \in 1..n : local[k] = tracking[k]) => n <= p
    BY <1>1, CommonPart
<1>3. u \in Seq(Commit) /\ Len(u) = Len(local) - p /\ \A k \in 1..Len(local) - p : u[k] = local[p + k]
    <2>1. u \in Seq(Commit)
        BY <1>1, OnlyInShape
    <2>2. Len(u) = Len(local) - p
        BY <1>1, OnlyInShape
    <2>3. \A k \in 1..Len(local) - p : u[k] = local[p + k]
        BY <1>1, OnlyInShape
    <2> QED BY <2>1, <2>2, <2>3
<1> HIDE DEF u
<1>4. m \in Nat /\ Len(local) \in Nat
    BY <1>1, LenProperties
<1>5. Len(tracking \o u) = m + Len(u) /\ \A i \in 1..m + Len(u) : (tracking \o u)[i] = IF i <= m THEN tracking[i] ELSE u[i - m]
    BY <1>1, <1>3, ConcatProperties
<1>6. t = tracking \o u
    BY DEF u, Replay
<1>7. \A k \in 1..m : t[k] = tracking[k]
    BY <1>2, <1>3, <1>4, <1>5, <1>6
<1>8. ASSUME NEW k \in 1..Len(local) - p PROVE t[m + k] = local[p + k]
    <2>1. m + k \in 1..m + Len(u) /\ ~(m + k <= m) /\ m + k - m = k
        BY <1>2, <1>3, <1>4
    <2>2. t[m + k] = u[m + k - m]
        BY <1>5, <1>6, <2>1
    <2> QED BY <1>3, <2>1, <2>2
<1>9. Len(t) = m + (Len(local) - p)
    BY <1>3, <1>5, <1>6
<1>10. p <= m /\ \A n \in Nat : n <= Len(local) /\ n <= m /\ (\A k \in 1..n : local[k] = tracking[k]) => n <= p
    BY <1>2
<1> QED BY <1>2, <1>4, <1>7, <1>8, <1>9, <1>10, Zenon

\* Where a replayed branch has a call's commits.
LEMMA ReplayedCommits ==
    ASSUME TypeOK, NEW d \in Call, NEW k,
           NEW p, p = Shared(local, tracking), NEW m, m = Len(tracking), NEW t, t = Replay
    PROVE  k \in By(d, t) <=>
              \/ k \in By(d, tracking)
              \/ \E j \in By(d, local) : j > p /\ k = m + (j - p)
<1> DEFINE l == Len(local)
           Has(h, i) == \E f \in DOMAIN h[i] : h[i][f].by = d
<1>1. /\ p \in Nat /\ m \in Nat /\ p <= l /\ p <= m /\ Len(t) = m + (l - p)
      /\ \A i \in 1..m : t[i] = tracking[i]
      /\ \A i \in 1..l - p : t[m + i] = local[p + i]
    BY ReplayShape
<1>2. l \in Nat
    BY LenProperties DEF TypeOK
<1>3. By(d, t) = {i \in 1..Len(t) : Has(t, i)} /\ By(d, tracking) = {i \in 1..m : Has(tracking, i)} /\ By(d, local) = {i \in 1..l : Has(local, i)}
    BY DEF By
<1>4. \A i \in 1..m : Has(t, i) <=> Has(tracking, i)
    BY <1>1
<1>5. \A i \in 1..l - p : Has(t, m + i) <=> Has(local, p + i)
    BY <1>1
<1> HIDE DEF l, Has
<1>6. ASSUME k \in By(d, t), ~(k <= m) PROVE \E j \in By(d, local) : j > p /\ k = m + (j - p)
    <2>1. k \in 1..m + (l - p) /\ Has(t, k)
        BY <1>1, <1>3, <1>6
    <2>2. k - m \in 1..l - p /\ m + (k - m) = k
        BY <1>1, <1>2, <1>6, <2>1
    <2>3. Has(local, p + (k - m))
        BY <1>5, <2>1, <2>2
    <2>4. p + (k - m) \in 1..l /\ p + (k - m) > p /\ k = m + ((p + (k - m)) - p)
        BY <1>1, <1>2, <2>2
    <2> QED BY <1>3, <2>3, <2>4
<1>7. ASSUME k \in By(d, t), k <= m PROVE k \in By(d, tracking)
    <2>1. k \in 1..m /\ Has(t, k)
        BY <1>1, <1>3, <1>7
    <2> QED BY <1>3, <1>4, <2>1
<1>8. ASSUME k \in By(d, tracking) PROVE k \in By(d, t)
    <2>1. k \in 1..m /\ k \in 1..Len(t)
        BY <1>1, <1>2, <1>3, <1>8
    <2> QED BY <1>3, <1>4, <1>8, <2>1
<1>9. ASSUME NEW j \in By(d, local), j > p, k = m + (j - p) PROVE k \in By(d, t)
    <2>1. j \in 1..l /\ Has(local, j)
        BY <1>3
    <2>2. j - p \in 1..l - p /\ p + (j - p) = j /\ k \in 1..Len(t)
        BY <1>1, <1>2, <1>9, <2>1
    <2>3. Has(t, k)
        BY <1>5, <1>9, <2>1, <2>2
    <2> QED BY <1>3, <2>2, <2>3
<1> QED BY <1>6, <1>7, <1>8, <1>9

\* A replay keeps every call's commit, once: what both branches have is in their
\* common part, and what only the clone has is on no other branch.
LEMMA ReplayKeepsCommits ==
    ASSUME TypeOK, NEW d \in Call, WholeOf(d), AgreeOn(d), By(d, remote) # {} => By(d, tracking) # {},
           local' = Replay, UNCHANGED <<remote, tracking, want>>
    PROVE  /\ WholeOf(d)' /\ AgreeOn(d)' /\ (Nowhere(d) => Nowhere(d)')
           /\ By(d, local) # {} => By(d, local') # {}
<1> DEFINE t == Replay
           p == Shared(local, tracking)
           m == Len(tracking)
           l == Len(local)
<1>1. /\ p \in Nat /\ m \in Nat /\ p <= l /\ p <= m /\ Len(t) = m + (l - p)
      /\ \A i \in 1..m : t[i] = tracking[i]
      /\ \A i \in 1..l - p : t[m + i] = local[p + i]
      /\ \A k \in 1..p : local[k] = tracking[k]
      /\ \A n \in Nat : n <= l /\ n <= m /\ (\A k \in 1..n : local[k] = tracking[k]) => n <= p
    BY ReplayShape
<1>2. \A k : k \in By(d, t) <=> k \in By(d, tracking) \/ \E j \in By(d, local) : j > p /\ k = m + (j - p)
    <2> TAKE k
    <2> QED BY ReplayedCommits
<1>3. /\ \A i \in By(d, tracking) : i \in 1..m
      /\ \A i \in By(d, local) : i \in 1..l
    BY DEF By
<1>4. Branches' = {remote, tracking, t} /\ Branches = {remote, tracking, local} /\ l \in Nat
    BY LenProperties DEF Branches, TypeOK
<1> HIDE DEF t, p, m, l
<1>5. CASE By(d, tracking) # {}
    <2>1. ASSUME NEW j \in By(d, local) PROVE j <= p
        <3>1. PICK i \in By(d, tracking) : TRUE
            BY <1>5
        <3>2. j = i /\ \A k \in 1..j : local[k] = tracking[k]
            BY <1>4 DEF AgreeOn
        <3>3. j \in Nat /\ j <= l /\ j <= m
            BY <1>1, <1>3, <1>4, <3>1, <3>2
        <3> QED BY <1>1, <3>2, <3>3
    <2>2. \A k : k \in By(d, t) <=> k \in By(d, tracking)
        BY <1>1, <1>2, <1>3, <1>4, <2>1
    <2>3. Within(d, t, tracking)
        <3>1. ASSUME NEW i \in By(d, t), NEW k \in 1..i PROVE t[k] = tracking[k]
            <4>1. i \in 1..m
                BY <1>3, <2>2
            <4>2. k \in 1..m
                BY <1>1, <4>1
            <4> QED BY <1>1, <4>2
        <3> QED BY <2>2, <3>1 DEF Within
    <2>4. \A h2 \in Branches' : \E h \in Branches : Within(d, h2, h)
        <3>1. \A h : Within(d, h, h)
            BY DEF Within
        <3> QED BY <1>4, <2>3, <3>1
    <2>5. WholeOf(d)' /\ AgreeOn(d)' /\ (Nowhere(d) => Nowhere(d)')
        BY <2>4, CommitsStay
    <2>6. By(d, local') # {}
        BY <1>5, <2>2 DEF t
    <2> QED BY <2>5, <2>6
<1>6. CASE By(d, tracking) = {} /\ By(d, local) # {}
    <2>1. By(d, remote) = {}
        BY <1>6
    <2>2. PICK j \in By(d, local) : By(d, local) = {j} /\ Files(d) \subseteq DOMAIN local[j]
        BY <1>4, <1>6 DEF WholeOf
    <2>3. j > p
        <3>1. ASSUME j <= p PROVE FALSE
            <4>1. j \in 1..p /\ j \in 1..m
                BY <1>1, <1>3, <1>4, <3>1
            <4>2. tracking[j] = local[j]
                BY <1>1, <4>1
            <4>3. \E f \in DOMAIN local[j] : local[j][f].by = d
                BY DEF By
            <4>4. j \in By(d, tracking)
                BY <4>1, <4>2, <4>3 DEF By, m
            <4> QED BY <1>6, <4>4
        <3>2. j \in Nat
            BY <1>3
        <3> QED BY <1>1, <3>1, <3>2
    <2>4. By(d, t) = {m + (j - p)}
        BY <1>2, <1>6, <2>2, <2>3
    <2>5. t[m + (j - p)] = local[j]
        <3>1. j - p \in 1..l - p /\ p + (j - p) = j
            BY <1>1, <1>3, <1>4, <2>3
        <3> QED BY <1>1, <3>1
    <2>6. \A h \in Branches' : \A i : i \in By(d, h) => h = t /\ i = m + (j - p)
        BY <1>4, <1>6, <2>1, <2>4
    <2>7. Files(d)' = Files(d)
        BY DEF Files
    <2>8. WholeOf(d)'
        BY <2>2, <2>4, <2>5, <2>6, <2>7 DEF WholeOf, By
    <2>9. AgreeOn(d)'
        BY <2>6 DEF AgreeOn, By
    <2>10. By(d, local') # {} /\ ~Nowhere(d)
        BY <1>4, <1>6, <2>4 DEF t, Nowhere
    <2> QED BY <2>8, <2>9, <2>10
<1>7. CASE By(d, tracking) = {} /\ By(d, local) = {}
    <2>1. By(d, remote) = {} /\ By(d, t) = {}
        BY <1>2, <1>7
    <2>2. \A h \in Branches' : By(d, h) = {}
        BY <1>4, <1>7, <2>1
    <2>3. WholeOf(d)' /\ AgreeOn(d)' /\ Nowhere(d)'
        BY <2>2 DEF WholeOf, AgreeOn, Nowhere, By
    <2> QED BY <1>7, <2>3
<1> QED BY <1>5, <1>6, <1>7

LEMMA RebaseKeeps ==
    ASSUME TypeOK, TypeOK', Core, NEW c \in Call, Rebase(c)
    PROVE  Core'
<1>1. pc[c] = "rebase" /\ By(c, local) # {} /\ UNCHANGED <<remote, tracking>>
    BY DEF Rebase, Core, Progress, ProgressOf
<1>2. pc[c] \in Busy /\ {"discard", "drop", "push"} \subseteq Busy
    BY <1>1 DEF Busy, InThread
<1>3. ASSUME NEW q \in {"discard", "drop"}, Return(c, q) \/ Then(c, q), UNCHANGED <<local, index, tree>>
      PROVE  Core'
    <2>1. OneThread' /\ Moved(c, q)
        BY <1>2, <1>3, ThreadGoesOn DEF Core
    <2>2. Branches' \subseteq Branches
        BY <1>1, <1>3 DEF Branches
    <2>3. ProgressOf(c)' => Core'
        BY <1>3, <2>1, <2>2, CloneStays
    <2>4. ProgressOf(c)'
        BY <2>1 DEF ProgressOf, Moved
    <2> QED BY <2>3, <2>4
<1>4. CASE RebaseStarts /\ MoveTo(Replay) /\ Then(c, "push")
    <2>1. OneThread' /\ Moved(c, "push")
        BY <1>2, <1>4, ThreadGoesOn DEF Core
    <2>2. local' = Replay /\ want' = want
        BY <1>4, <2>1 DEF MoveTo, Moved
    <2>3. ASSUME NEW d \in Call
          PROVE  /\ WholeOf(d)' /\ AgreeOn(d)' /\ (Nowhere(d) => Nowhere(d)')
                 /\ By(d, local) # {} => By(d, local') # {}
        <3>1. WholeOf(d) /\ AgreeOn(d) /\ (By(d, remote) # {} => By(d, tracking) # {})
            BY <1>1 DEF Core, Whole, Agree, RebaseSees
        <3> QED BY <1>1, <2>2, <3>1, ReplayKeepsCommits
    <2>4. Whole' /\ Agree' /\ \A d \in Call : Nowhere(d) => Nowhere(d)'
        BY <2>3 DEF Whole, Agree
    <2>5. StagedWhole'
        <3>1. \A f \in Changed(local, Replay) : Clean(f) \/ Untracked(f)
            BY <1>4 DEF RebaseStarts, Changed
        <3> QED BY <1>4, <2>2, <2>4, <3>1, StagingOutlivesMove DEF Core
    <2>6. ASSUME NEW d \in Call, Untouched(d) PROVE Untouched(d)'
        <3>1. Replay \in Branches'
            BY <2>2 DEF Branches
        <3>2. Nowhere(d)'
            BY <2>4, <2>6 DEF Untouched, Unstaged
        <3> QED BY <1>4, <2>6, <3>1, <3>2, MoveFiles, StaysUntouched
    <2>7. ProgressOf(c)'
        <3>1. By(c, local') # {}
            BY <1>1, <2>3
        <3> QED BY <2>1, <3>1 DEF ProgressOf, Moved, By
    <2>8. Progress'
        BY <2>1, <2>6, <2>7, OthersAsTheyWere DEF Core
    <2>9. RebaseSees'
        BY <2>1, NobodyRebases
    <2> QED BY <2>1, <2>4, <2>5, <2>8, <2>9 DEF Core
<1> QED BY <1>3, <1>4 DEF Rebase, Replay

LEMMA BeginKeeps ==
    ASSUME TypeOK, TypeOK', Core, NEW c \in Call, NEW new, NEW old, NEW expect, Begin(c, new, old, expect)
    PROVE  Core'
<1>1. pc[c] = "idle" /\ Untouched(c) /\ UNCHANGED <<remote, clone, lock>>
    BY DEF Begin, Core, Progress, ProgressOf
<1>2. pc'[c] = "wait" /\ \A d \in Call \ {c} : pc'[d] = pc[d] /\ want'[d] = want[d]
    BY DEF Begin, Goto, TypeOK
<1>3. OneThread'
    <2>1. \A d \in Call : pc'[d] \in Busy <=> pc[d] \in Busy
        BY <1>1, <1>2 DEF Busy, InThread
    <2> QED BY <1>1, <2>1 DEF Core, OneThread
<1>4. \A d \in Call : Nowhere(d) \/ want'[d] = want[d]
    BY <1>1, <1>2 DEF Untouched, Unstaged
<1>5. Branches' \subseteq Branches /\ UNCHANGED <<local, index, tree, remote, tracking>>
    BY <1>1 DEF Branches, clone
<1>6. Whole' /\ Agree' /\ \A d \in Call : Nowhere(d) => Nowhere(d)'
    BY <1>4, <1>5, BranchesStay DEF Core
<1>7. StagedWhole'
    <2>1. \A d \in Call : want'[d] = want[d] \/ \A f \in Fact : index[f].by # d
        BY <1>1, <1>2 DEF Untouched, Unstaged
    <2> QED BY <1>5, <1>6, <2>1, StagingStays DEF Core
<1>8. RebaseSees'
    <2>1. \A d \in Call : pc'[d] = "rebase" => pc[d] = "rebase"
        BY <1>2
    <2> QED BY <1>5, <2>1 DEF Core, RebaseSees, By
<1>9. \A d \in Call : (Untouched(d) => Untouched(d)') /\ (Unstaged(d) => Unstaged(d)')
    BY <1>5, <1>6 DEF Untouched, Unstaged
<1>10. ASSUME NEW d \in Call PROVE ProgressOf(d)'
    <2>1. CASE d = c
        BY <1>1, <1>2, <1>9, <2>1 DEF ProgressOf
    <2>2. CASE d # c
        <3>1. pc'[d] = pc[d] /\ Files(d)' = Files(d)
            BY <1>2, <2>2 DEF Files
        <3>2. ProgressOf(d)
            BY DEF Core, Progress
        <3> QED BY <1>5, <1>6, <1>9, <3>1, <3>2 DEF ProgressOf, By
    <2> QED BY <2>1, <2>2
<1>11. Progress'
    BY <1>10 DEF Progress
<1> QED BY <1>3, <1>6, <1>7, <1>8, <1>11 DEF Core

LEMMA CrashKeeps ==
    ASSUME TypeOK, TypeOK', Core, Crash
    PROVE  Core'
<1>1. lock' = {} /\ want' = want /\ UNCHANGED <<remote, tracking, local, index, tree>>
    BY DEF Crash, clone
<1>2. \A d \in Call : pc'[d] = "done" \/ (pc'[d] = "idle" /\ pc[d] = "idle")
    BY DEF Crash
<1>3. OneThread'
    BY <1>1, <1>2 DEF OneThread, Busy, InThread
<1>4. Branches' \subseteq Branches
    BY <1>1 DEF Branches
<1>5. Whole' /\ Agree' /\ \A d \in Call : Nowhere(d) => Nowhere(d)'
    BY <1>1, <1>4, BranchesStay DEF Core
<1>6. StagedWhole'
    BY <1>1, <1>5, StagingStays DEF Core
<1>7. RebaseSees'
    BY <1>2 DEF RebaseSees
<1>8. ASSUME NEW d \in Call PROVE ProgressOf(d)'
    <2>1. pc[d] = "idle" => Untouched(d)'
        BY <1>1, <1>5 DEF Core, Progress, ProgressOf, Untouched, Unstaged
    <2> QED BY <1>2, <2>1 DEF ProgressOf
<1>9. Progress'
    BY <1>8 DEF Progress
<1> QED BY <1>3, <1>5, <1>6, <1>7, <1>9 DEF Core

\* Somebody else's commit is nobody's among the calls, and replaces at most the last ones.
LEMMA OutsiderKeeps ==
    ASSUME TypeOK, TypeOK', Core, UNCHANGED <<clone, calls>>, NEW x, NEW n \in 0..Len(remote),
           \A f \in DOMAIN x : x[f].by \notin Call,
           /\ Len(remote') = n + 1 /\ remote'[n + 1] = x
           /\ \A k \in 1..n : remote'[k] = remote[k]
    PROVE  Core'
<1>1. UNCHANGED <<tracking, local, index, tree, lock, pc, want>>
    BY DEF clone, calls
<1>2. Len(remote) \in Nat
    BY LenProperties DEF TypeOK
<1>3. ASSUME NEW d \in Call PROVE Within(d, remote', remote)
    <2>1. ASSUME NEW i \in By(d, remote') PROVE i \in 1..n /\ i \in By(d, remote)
        <3>1. i \in 1..n + 1 /\ \E f \in DOMAIN remote'[i] : remote'[i][f].by = d
            BY DEF By
        <3>2. i # n + 1
            BY <3>1
        <3>3. i \in 1..n /\ i \in 1..Len(remote) /\ remote'[i] = remote[i]
            BY <1>2, <3>1, <3>2
        <3> QED BY <3>1, <3>3 DEF By
    <2>2. ASSUME NEW i \in By(d, remote'), NEW k \in 1..i PROVE remote'[k] = remote[k]
        <3>1. k \in 1..n
            BY <1>2, <2>1
        <3> QED BY <3>1
    <2> QED BY <2>1, <2>2 DEF Within
<1>4. ASSUME NEW d \in Call PROVE WholeOf(d)' /\ AgreeOn(d)' /\ (Nowhere(d) => Nowhere(d)')
    <2>1. \A h2 \in Branches' : \E h \in Branches : Within(d, h2, h)
        <3>1. \A h : Within(d, h, h)
            BY DEF Within
        <3> QED BY <1>1, <1>3, <3>1 DEF Branches
    <2>2. WholeOf(d) /\ AgreeOn(d) /\ want'[d] = want[d]
        BY <1>1 DEF Core, Whole, Agree
    <2> QED BY <2>1, <2>2, CommitsStay
<1>5. Whole' /\ Agree' /\ \A d \in Call : Nowhere(d) => Nowhere(d)'
    BY <1>4 DEF Whole, Agree
<1>6. StagedWhole'
    BY <1>1, <1>5, StagingStays DEF Core
<1>7. RebaseSees'
    <2>1. \A d \in Call : By(d, remote') # {} => By(d, remote) # {}
        BY <1>3 DEF Within
    <2> QED BY <1>1, <2>1 DEF Core, RebaseSees, By
<1>8. OneThread'
    BY <1>1 DEF Core, OneThread
<1>9. ASSUME NEW d \in Call PROVE ProgressOf(d)'
    <2>1. ProgressOf(d) /\ Files(d)' = Files(d)
        BY <1>1 DEF Core, Progress, Files
    <2>2. (Untouched(d) => Untouched(d)') /\ (Unstaged(d) => Unstaged(d)')
        BY <1>1, <1>5 DEF Untouched, Unstaged
    <2> QED BY <1>1, <1>5, <2>1, <2>2 DEF ProgressOf, By
<1>10. Progress'
    BY <1>9 DEF Progress
<1> QED BY <1>5, <1>6, <1>7, <1>8, <1>10 DEF Core

LEMMA OutsideKeeps ==
    ASSUME TypeOK, TypeOK', Core, Outside
    PROVE  Core'
<1>1. remote \in Seq(Commit) /\ Len(remote) \in Nat
    BY LenProperties DEF TypeOK
<1>2. \A f, s : \A g \in DOMAIN Foreign(f, s) : Foreign(f, s)[g].by \notin Call
    <2>1. 1 + used["push"] + used["rewrite"] \in Nat \ {0}
        <3>1. used["push"] \in Nat /\ used["rewrite"] \in Nat
            BY DEF TypeOK, Event
        <3> QED BY <3>1
    <2>2. \A n \in Nat \ {0} : -n \notin Call
        BY GitAssumption
    <2>3. -(1 + used["push"] + used["rewrite"]) \notin Call
        BY <2>1, <2>2
    <2> QED BY <2>3 DEF Foreign, Written
<1>3. ASSUME NEW f \in Fact, NEW s \in {"active", "invalidated"}, PushByOther(f, s) PROVE Core'
    <2>1. Foreign(f, s) \in Commit' /\ remote \in Seq(Commit')
        <3>1. Spend("push") /\ s \in Status /\ "push" \in Event
            BY <1>3 DEF PushByOther, Status, Event
        <3>2. Spent
            BY <3>1 DEF Spent
        <3> QED BY <1>1, <3>1, <3>2, ForeignTyped, TypesGrow
    <2>2. remote' = Append(remote, Foreign(f, s)) /\ UNCHANGED <<clone, calls>>
        BY <1>3 DEF PushByOther
    <2>3. Len(remote') = Len(remote) + 1 /\ remote'[Len(remote) + 1] = Foreign(f, s) /\ \A k \in 1..Len(remote) : remote'[k] = remote[k]
        BY <2>1, <2>2, AppendProperties
    <2> QED BY <1>1, <1>2, <2>2, <2>3, OutsiderKeeps
<1>4. ASSUME NEW f \in Fact, NEW n \in 0..Len(remote) - 1, RewriteRemote(f, n) PROVE Core'
    <2> DEFINE r == SubSeq(remote, 1, n)
    <2>1. Foreign(f, "active") \in Commit' /\ remote \in Seq(Commit')
        <3>1. Spend("rewrite") /\ "active" \in Status /\ "rewrite" \in Event
            BY <1>4 DEF RewriteRemote, Status, Event
        <3>2. Spent
            BY <3>1 DEF Spent
        <3> QED BY <1>1, <3>1, <3>2, ForeignTyped, TypesGrow
    <2>2. r \in Seq(Commit') /\ Len(r) = n /\ \A k \in 1..n : r[k] = remote[k]
        <3>1. \A k \in 1..n : remote[k] \in Commit'
            BY <1>1, <2>1, ElementOfSeq
        <3>2. r \in Seq(Commit') /\ Len(r) = (IF 1 <= n THEN n - 1 + 1 ELSE 0) /\ \A k \in 1..n - 1 + 1 : r[k] = remote[1 + k - 1]
            BY <1>1, <3>1, SubSeqProperties
        <3> HIDE DEF r
        <3>3. n - 1 + 1 = n /\ \A k \in 1..n : 1 + k - 1 = k
            BY <1>1
        <3> QED BY <1>1, <3>2, <3>3
    <2>3. remote' = Append(r, Foreign(f, "active")) /\ UNCHANGED <<clone, calls>>
        BY <1>4 DEF RewriteRemote
    <2> HIDE DEF r
    <2>4. Len(remote') = n + 1 /\ remote'[n + 1] = Foreign(f, "active") /\ \A k \in 1..n : remote'[k] = remote[k]
        BY <2>1, <2>2, <2>3, AppendProperties
    <2>5. n \in 0..Len(remote)
        BY <1>1
    <2> QED BY <1>2, <2>3, <2>4, <2>5, OutsiderKeeps
<1> QED BY <1>3, <1>4, CrashKeeps DEF Outside

-----------------------------------------------------------------------------
(* What holds as long as no call is cancelled                              *)

LEMMA CoreAtFirst ==
    ASSUME TypeOK, Init
    PROVE  Core
<1>1. ASSUME NEW c \in Call, NEW h \in Branches PROVE By(c, h) = {}
    <2>1. h = <<[f \in Seeded |-> Written(0, "active")]>>
        BY DEF Branches, Init
    <2>2. \A i \in 1..Len(h) : \A f \in DOMAIN h[i] : h[i][f].by = 0
        BY <2>1 DEF Written
    <2>3. c # 0
        BY GitAssumption
    <2> QED BY <2>2, <2>3 DEF By
<1>2. ASSUME NEW c \in Call, NEW f \in Fact PROVE index[f].by # c /\ tree[f].by # c
    <2>1. index[f] = TreeOf(remote)[f] /\ tree[f] = index[f]
        BY DEF Init
    <2>2. By(c, remote) = {} /\ Len(remote) \in Nat
        BY <1>1, LenProperties DEF Branches, TypeOK
    <2> QED BY <2>1, <2>2, TreeIsCommitted
<1>3. \A c \in Call : Untouched(c)
    BY <1>1, <1>2 DEF Untouched, Unstaged, Nowhere
<1>4. \A c \in Call : pc[c] = "idle"
    BY DEF Init
<1>5. Progress
    BY <1>3, <1>4 DEF Progress, ProgressOf
<1>6. OneThread
    BY <1>4 DEF OneThread, Init, Busy, InThread
<1>7. StagedWhole
    BY <1>2 DEF StagedWhole, Staged
<1>8. Whole /\ Agree
    BY <1>1 DEF Whole, WholeOf, Agree, AgreeOn
<1>9. RebaseSees
    BY <1>4 DEF RebaseSees
<1> QED BY <1>5, <1>6, <1>7, <1>8, <1>9 DEF Core

\* A cancelled call stays on the record.
LEMMA CancelIsCounted ==
    ASSUME TypeOK, Next, Undisturbed'
    PROVE  Undisturbed /\ \A c \in Call : ~Cancel(c)
<1>1. ASSUME Spent PROVE Undisturbed
    <2>1. used["cancel"] \in Nat /\ used'["cancel"] >= used["cancel"]
        BY <1>1, TypesGrow DEF TypeOK, Event
    <2> QED BY <2>1 DEF Undisturbed
<1>2. ASSUME NEW c \in Call, Cancel(c) PROVE FALSE
    <2>1. used \in [Event -> Nat] /\ "cancel" \in Event /\ used' = [used EXCEPT !["cancel"] = @ + 1]
        BY <1>2 DEF TypeOK, Event, Cancel, Spend
    <2>2. used'["cancel"] = used["cancel"] + 1 /\ used["cancel"] \in Nat
        BY <2>1
    <2> QED BY <2>2 DEF Undisturbed
<1>3. Event = {"push", "rewrite", "crash", "cut", "cancel", "disk"}
    BY DEF Event
<1>4. ASSUME NEW c \in Call, Proceed(c) PROVE Spent
    <2>1. ASSUME NEW f \in Fact, WriteFile(c, f) PROVE Spent
        BY <1>3, <2>1 DEF WriteFile, Spent
    <2>2. CASE Fetch(c) \/ Push(c) \/ Refetch(c)
        BY <1>3, <2>2 DEF Fetch, Push, Refetch, Spent
    <2>3. CASE Acquire(c) \/ Forward(c) \/ Check(c) \/ Add(c) \/ CommitStaged(c) \/ OutOfTries(c) \/ Rebase(c) \/ Drop(c) \/ Undo(c)
        BY <2>3 DEF Acquire, Forward, Check, Add, CommitStaged, OutOfTries, Rebase, Drop, Undo, Spent
    <2> QED BY <1>4, <2>1, <2>2, <2>3 DEF Proceed
<1>5. ASSUME Outside PROVE Spent
    BY <1>3, <1>5 DEF Outside, PushByOther, RewriteRemote, Crash, Spent
<1>6. ASSUME NEW c \in Call, NEW new, NEW old, NEW expect, Begin(c, new, old, expect) PROVE Spent
    BY <1>6 DEF Begin, Spent
<1>7. Spent
    BY <1>2, <1>4, <1>5, <1>6 DEF Next
<1> QED BY <1>1, <1>2, <1>7

LEMMA NextKeeps ==
    ASSUME Inv, [Next]_vars
    PROVE  Inv'
<1>1. TypeOK /\ TypeOK'
    BY NextTyped DEF Inv
<1>2. CASE Next
    <2>1. ASSUME Undisturbed' PROVE Core'
        <3>1. Core /\ \A c \in Call : ~Cancel(c)
            BY <1>1, <1>2, <2>1, CancelIsCounted DEF Inv
        <3>2. ASSUME NEW c \in Call, Proceed(c) PROVE Core'
            BY <1>1, <3>1, <3>2, AcquireKeeps, FetchKeeps, ForwardKeeps, CheckKeeps, WriteFileKeeps, AddKeeps, CommitStagedKeeps,
               PushKeeps, OutOfTriesKeeps, RefetchKeeps, RebaseKeeps, DropKeeps, UndoKeeps DEF Proceed
        <3> QED BY <1>1, <1>2, <3>1, <3>2, BeginKeeps, OutsideKeeps DEF Next
    <2> QED BY <1>1, <2>1 DEF Inv
<1>3. CASE UNCHANGED vars
    <2>1. UNCHANGED <<remote, tracking, local, index, tree, lock, pc, want, used>>
        BY <1>3 DEF vars, clone, calls
    <2>2. Undisturbed' <=> Undisturbed
        BY <2>1 DEF Undisturbed
    <2>3. ASSUME Core PROVE Core'
        <3>1. Branches' \subseteq Branches
            BY <2>1 DEF Branches
        <3>2. Whole' /\ Agree' /\ \A d \in Call : Nowhere(d) => Nowhere(d)'
            BY <2>1, <2>3, <3>1, BranchesStay DEF Core
        <3>3. StagedWhole'
            BY <2>1, <2>3, <3>2, StagingStays DEF Core
        <3>4. RebaseSees' /\ OneThread'
            BY <2>1, <2>3 DEF Core, RebaseSees, By, OneThread
        <3>5. ASSUME NEW d \in Call PROVE ProgressOf(d)'
            <4>1. ProgressOf(d) /\ Files(d)' = Files(d)
                BY <2>1, <2>3 DEF Core, Progress, Files
            <4>2. (Untouched(d) => Untouched(d)') /\ (Unstaged(d) => Unstaged(d)')
                BY <2>1, <3>2 DEF Untouched, Unstaged
            <4> QED BY <2>1, <3>2, <4>1, <4>2 DEF ProgressOf, By
        <3>6. Progress'
            BY <3>5 DEF Progress
        <3> QED BY <3>2, <3>3, <3>4, <3>6 DEF Core
    <2> QED BY <1>1, <2>2, <2>3 DEF Inv
<1> QED BY <1>2, <1>3

THEOREM Inductive == Spec => []Inv
<1>1. Init => Inv
    BY InitTyped, CoreAtFirst DEF Inv
<1>2. Inv /\ [Next]_vars => Inv'
    BY NextKeeps
<1> QED BY <1>1, <1>2, PTL DEF Spec

\* However often a push is repeated, rebased or lost, a change of facts.py reaches
\* main in one commit, with all its files.
THEOREM OnceAndWhole == Spec => []PublishedOnceAndWhole
<1>1. ASSUME Inv PROVE PublishedOnceAndWhole
    <2>1. ASSUME NEW c \in Call, Undisturbed, CommitsOf(c) # {}
          PROVE  \E i \in CommitsOf(c) : CommitsOf(c) = {i} /\ Files(c) \subseteq DOMAIN remote[i]
        <3>1. CommitsOf(c) = By(c, remote)
            BY DEF CommitsOf, By
        <3>2. WholeOf(c) /\ remote \in Branches
            BY <1>1, <2>1 DEF Inv, Core, Whole, Branches
        <3> QED BY <2>1, <3>1, <3>2 DEF WholeOf
    <2> QED BY <2>1 DEF PublishedOnceAndWhole
<1>2. Inv => PublishedOnceAndWhole
    BY <1>1
<1> QED BY <1>2, Inductive, PTL

\* A write that GitStore acknowledges is on main at that moment.
THEOREM AnswersAreTrue == Spec => AckedIsPublished
<1> DEFINE Step == \A c \in Call :
        Undisturbed /\ answer[c] = "none" /\ answer'[c] = "ok" /\ Files(c) # {} => CommitsOf(c)' # {}
<1>1. ASSUME Inv, [Next]_vars, NEW c \in Call,
             Undisturbed, answer[c] = "none", answer'[c] = "ok", Files(c) # {}
      PROVE  CommitsOf(c)' # {}
    <2>1. TypeOK /\ Progress
        BY <1>1 DEF Inv, Core
    <2>2. ASSUME NEW d \in Call, NEW a, Finish(d, a) PROVE d = c /\ a = "ok"
        BY <1>1, <2>1, <2>2 DEF Finish, TypeOK
    <2>3. ~UNCHANGED answer
        BY <1>1
    <2>4. ASSUME NEW d \in Call, NEW p, Return(d, p) \/ Then(d, p) PROVE FALSE
        BY <2>3, <2>4 DEF Return, Then
    <2>5. ASSUME NEW d \in Call, Push(d) PROVE CommitsOf(c)' # {}
        <3>1. remote' = local /\ Finish(d, "ok")
            BY <2>3, <2>5 DEF Push
        <3>2. d = c /\ pc[c] = "push"
            BY <2>2, <2>5, <3>1 DEF Push
        <3>3. By(c, local) # {}
            BY <2>1, <3>2 DEF Progress, ProgressOf
        <3> QED BY <3>1, <3>3 DEF CommitsOf, By
    <2>6. ASSUME NEW d \in Call, Proceed(d) PROVE Push(d)
        <3>1. ~Check(d)
            BY <1>1, <2>2, <2>4 DEF Check
        <3>2. ~Undo(d)
            BY <2>2 DEF Undo, Undoing
        <3>3. ~Fetch(d) /\ ~Forward(d)
            BY <2>2, <2>4 DEF Fetch, Forward
        <3>4. ~Acquire(d)
            BY <2>3 DEF Acquire
        <3>5. ~\E f \in Fact : WriteFile(d, f)
            BY <2>4 DEF WriteFile
        <3>6. ~CommitStaged(d)
            BY <2>4, CommitStagedShape
        <3>7. ~Add(d) /\ ~OutOfTries(d) /\ ~Refetch(d) /\ ~Rebase(d) /\ ~Drop(d)
            BY <2>4 DEF Add, OutOfTries, Refetch, Rebase, Drop
        <3> QED BY <2>6, <3>1, <3>2, <3>3, <3>4, <3>5, <3>6, <3>7 DEF Proceed
    <2>7. ~Outside
        BY <2>3 DEF Outside, PushByOther, RewriteRemote, Crash, calls
    <2>8. ASSUME NEW d \in Call PROVE ~Cancel(d)
        BY <2>3 DEF Cancel
    <2>9. ASSUME NEW d \in Call, NEW new, NEW old, NEW expect PROVE ~Begin(d, new, old, expect)
        BY <2>3 DEF Begin
    <2>10. Next
        BY <1>1, <2>3 DEF vars, calls
    <2> QED BY <2>5, <2>6, <2>7, <2>8, <2>9, <2>10 DEF Next
<1>2. Inv /\ [Next]_vars => [Step]_vars
    BY <1>1
<1> QED BY <1>2, Inductive, PTL DEF Spec, AckedIsPublished

-----------------------------------------------------------------------------
(* Feedback on top of the writer                                           *)

\* Seeded facts, and what stands for the fact of a request to come.
Subject == Seeded \cup {CHOOSE f \in Seeded : TRUE}

Record == [state : State, fact : Subject, base : Content, attempts : SUBSET Call, replacement : AtMostOne(Fact)]

FeedbackTypeOK ==
    /\ request \in [Request -> Record]
    /\ task \subseteq Request
    /\ \A r \in Request : request[r].state # "none" => request[r].fact \in Seeded

\* A request is applied by a call of the writer, and everything else leaves the
\* writer alone or is one of its steps.
LEMMA FeedbackStepsWrite ==
    ASSUME FeedbackTypeOK, [FeedbackNext]_allVars
    PROVE  [Next]_vars
<1>1. ASSUME NEW r \in Request, Apply(r) PROVE Next \/ UNCHANGED vars
    <2> DEFINE f == request[r].fact
    <2>1. f \in Fact
        BY <1>1, GitAssumption DEF Apply, FeedbackTypeOK
    <2>2. CASE \E c \in Call, new \in FreshFact : Begin(c, {new}, {f}, {request[r].base}) /\ Unchanged(r)
        <3>1. PICK c \in Call, new \in FreshFact : Begin(c, {new}, {f}, {request[r].base}) /\ Unchanged(r)
            BY <2>2
        <3>2. {new} \in AtMostOne(Fact) /\ {f} \in AtMostOne(Fact)
            BY <2>1 DEF AtMostOne, FreshFact
        <3>3. {request[r].base} \in AtMostOne({tree[g] : g \in {f}})
            BY <3>1 DEF AtMostOne, Unchanged
        <3> HIDE DEF f
        <3> QED BY <3>1, <3>2, <3>3 DEF Next
    <2> QED BY <1>1, <2>2 DEF Apply
<1>2. ASSUME OtherCall PROVE Next
    <2>1. CASE \E c \in Call : Proceed(c)
        BY <2>1 DEF Next
    <2>2. CASE \E c \in Call, new \in AtMostOne(FreshFact), old \in AtMostOne(Seeded) : Begin(c, new, old, {})
        <3>1. PICK c \in Call, new \in AtMostOne(FreshFact), old \in AtMostOne(Seeded) : Begin(c, new, old, {})
            BY <2>2
        <3>2. new \in AtMostOne(Fact) /\ old \in AtMostOne(Fact) /\ {} \in AtMostOne({tree[f] : f \in old})
            BY GitAssumption DEF AtMostOne, FreshFact
        <3> QED BY <3>1, <3>2 DEF Next
    <2>3. CASE \E f \in Seeded, s \in {"active", "invalidated"} : PushByOther(f, s)
        BY <2>3, GitAssumption DEF Next, Outside
    <2> QED BY <1>2, <2>1, <2>2, <2>3 DEF OtherCall
<1>3. ASSUME Restart PROVE Next
    BY <1>3 DEF Restart, Next, Outside
<1>4. ASSUME NEW r \in Request, Work(r) \/ Reject(r) \/ Settle(r) \/ \E f \in Seeded : Submit(r, f) PROVE UNCHANGED vars
    BY <1>4 DEF Work, Run, Answered, Reject, Settle, Submit
<1>5. CASE FeedbackNext
    BY <1>1, <1>2, <1>3, <1>4, <1>5 DEF FeedbackNext
<1>6. CASE UNCHANGED allVars
    BY <1>6 DEF allVars
<1> QED BY <1>5, <1>6

\* How a step changes one request; the others stay as they are.
ChangesTo(r, s) ==
    /\ request'[r].state = s
    /\ request'[r].fact = request[r].fact /\ request'[r].base = request[r].base
    /\ \A q \in Request \ {r} : request'[q] = request[q]

LEMMA SetShape ==
    ASSUME FeedbackTypeOK, NEW r \in Request, NEW s \in State, Set(r, s)
    PROVE  /\ ChangesTo(r, s) /\ request' \in [Request -> Record]
           /\ request'[r].attempts = request[r].attempts
<1>1. request' = [request EXCEPT ![r].state = s] /\ request \in [Request -> Record]
    BY DEF Set, FeedbackTypeOK
<1>2. ChangesTo(r, s) /\ request'[r].attempts = request[r].attempts
    BY <1>1 DEF ChangesTo, Record
<1>3. request'[r] \in Record
    BY <1>1 DEF Record
<1>4. request' \in [Request -> Record]
    BY <1>1, <1>3
<1> QED BY <1>2, <1>4

LEMMA ApplyShape ==
    ASSUME TypeOK, FeedbackTypeOK, NEW r \in Request, Apply(r)
    PROVE  /\ request[r].state = "proposed" /\ request[r].fact \in Seeded /\ task' = task
           /\ request' \in [Request -> Record]
           /\ \/ ChangesTo(r, "applied") /\ Marked(r) /\ UNCHANGED vars /\ request'[r].attempts = request[r].attempts
              \/ ChangesTo(r, "stale") /\ UNCHANGED vars /\ request'[r].attempts = request[r].attempts
              \/ \E c \in Call, new \in FreshFact :
                    /\ Begin(c, {new}, {request[r].fact}, {request[r].base})
                    /\ ChangesTo(r, "applying")
                    /\ request'[r].attempts = request[r].attempts \cup {c}
<1> DEFINE f == request[r].fact
<1>1. request[r].state = "proposed" /\ f \in Seeded /\ f \in Fact /\ task' = task /\ request \in [Request -> Record]
    BY GitAssumption DEF Apply, FeedbackTypeOK
<1>2. {"applied", "stale", "applying"} \subseteq State
    BY DEF State
<1>3. CASE Recognised(r) /\ request' = [request EXCEPT ![r].state = "applied", ![r].replacement = Successor(f)] /\ UNCHANGED vars
    <2>1. Successor(f) \in AtMostOne(Fact)
        BY <1>1 DEF Successor, TypeOK, Want, AtMostOne
    <2>2. ChangesTo(r, "applied") /\ request'[r].attempts = request[r].attempts
        <3> HIDE DEF f
        <3> QED BY <1>1, <1>3 DEF ChangesTo, Record
    <2>3. request'[r] \in Record
        <3> HIDE DEF f
        <3> QED BY <1>1, <1>2, <1>3, <2>1 DEF Record
    <2>4. request' \in [Request -> Record]
        BY <1>1, <1>3, <2>3
    <2> QED BY <1>1, <1>3, <2>2, <2>4 DEF Recognised
<1>4. CASE Set(r, "stale") /\ UNCHANGED vars
    BY <1>1, <1>2, <1>4, SetShape
<1>5. CASE \E c \in Call, new \in FreshFact :
                /\ Begin(c, {new}, {f}, {request[r].base})
                /\ request' = [request EXCEPT ![r].state = "applying", ![r].attempts = @ \cup {c}]
    <2>1. PICK c \in Call, new \in FreshFact :
                /\ Begin(c, {new}, {f}, {request[r].base})
                /\ request' = [request EXCEPT ![r].state = "applying", ![r].attempts = @ \cup {c}]
        BY <1>5
    <2>2. ChangesTo(r, "applying") /\ request'[r].attempts = request[r].attempts \cup {c}
        BY <1>1, <2>1 DEF ChangesTo, Record
    <2>3. request'[r] \in Record
        BY <1>1, <1>2, <2>1 DEF Record
    <2>4. request' \in [Request -> Record]
        BY <1>1, <2>1, <2>3
    <2> QED BY <1>1, <2>1, <2>2, <2>4
<1> QED BY <1>3, <1>4, <1>5 DEF Apply

\* Calls are made in the order of their numbers, so a request has a last attempt.
Orderly ==
    /\ \A c, d \in Call : d < c /\ pc[c] # "idle" => pc[d] # "idle"
    /\ \A r \in Request :
        /\ \A c \in request[r].attempts : pc[c] # "idle"
        /\ request[r].state = "applying" => \E c \in request[r].attempts : \A d \in request[r].attempts : d <= c

LEMMA LastIsAnAttempt ==
    ASSUME FeedbackTypeOK, Orderly, NEW r \in Request, request[r].state = "applying"
    PROVE  /\ LastAttempt(r) \in request[r].attempts /\ LastAttempt(r) \in Call
           /\ \A d \in request[r].attempts : d <= LastAttempt(r)
<1> DEFINE A == request[r].attempts
<1>1. A \subseteq Call
    BY DEF FeedbackTypeOK, Record
<1>2. PICK c \in A : \A d \in A : d <= c
    BY DEF Orderly
<1> HIDE DEF A
<1>3. c \in A /\ \A d \in A : c >= d
    BY <1>1, <1>2, GitAssumption
<1>4. Max(A) \in A /\ \A d \in A : Max(A) >= d
    BY <1>3 DEF Max
<1>5. \A d \in A : d <= Max(A)
    BY <1>1, <1>4, GitAssumption
<1> QED BY <1>1, <1>4, <1>5 DEF A, LastAttempt

LEMMA SettleShape ==
    ASSUME TypeOK, FeedbackTypeOK, Orderly, NEW r \in Request, Settle(r)
    PROVE  \E s \in {"applied", "proposed", "stale"} :
              /\ request[r].state = "applying" /\ ChangesTo(r, s) /\ UNCHANGED <<vars, task>>
              /\ request' \in [Request -> Record] /\ request'[r].attempts = request[r].attempts
              /\ answer[LastAttempt(r)] # "none" /\ (s = "applied" => answer[LastAttempt(r)] = "ok")
<1> DEFINE c == LastAttempt(r)
           s == Verdict(answer[c])
<1>1. request \in [Request -> Record]
    BY DEF FeedbackTypeOK
<1>2. s \in {"applied", "proposed", "stale"} /\ answer[c] # "none" /\ (s = "applied" => answer[c] = "ok")
    BY DEF Settle, Verdict
<1>3. request' = [request EXCEPT ![r].state = s, ![r].replacement = IF s = "applied" THEN want[c].new ELSE {}]
    BY DEF Settle
<1>4. want[c].new \in AtMostOne(Fact)
    <2>1. c \in Call
        BY LastIsAnAttempt DEF Settle
    <2> QED BY <2>1 DEF TypeOK, Want
<1> HIDE DEF s, c
<1>5. (IF s = "applied" THEN want[c].new ELSE {}) \in AtMostOne(Fact)
    BY <1>4 DEF AtMostOne
<1>6. ChangesTo(r, s) /\ request'[r].attempts = request[r].attempts
    BY <1>1, <1>3 DEF ChangesTo, Record
<1>7. request'[r] \in Record
    BY <1>1, <1>2, <1>3, <1>5 DEF Record, State
<1>8. request' \in [Request -> Record]
    BY <1>1, <1>3, <1>7
<1>9. request[r].state = "applying" /\ UNCHANGED <<vars, task>>
    BY DEF Settle
<1> QED BY <1>2, <1>6, <1>8, <1>9 DEF c

LEMMA SubmitShape ==
    ASSUME TypeOK, FeedbackTypeOK, NEW r \in Request, NEW f \in Seeded, Submit(r, f)
    PROVE  /\ request[r].state = "none" /\ tree[f].status = "active" /\ UNCHANGED vars /\ task' = task \cup {r}
           /\ request' \in [Request -> Record] /\ \A q \in Request \ {r} : request'[q] = request[q]
           /\ request'[r].state = "queued" /\ request'[r].fact = f /\ request'[r].base = tree[f] /\ request'[r].attempts = {}
<1> DEFINE x == [state |-> "queued", fact |-> f, base |-> tree[f], attempts |-> {}, replacement |-> {}]
<1>2. tree[f] \in Content
    BY GitAssumption DEF TypeOK
<1>3. x \in Record
    BY <1>2 DEF Record, State, Subject, AtMostOne
<1>4. request' = [request EXCEPT ![r] = x] /\ request \in [Request -> Record]
    <2>1. request \in [Request -> Record]
        BY DEF FeedbackTypeOK
    <2>2. request' = [request EXCEPT ![r] = x]
        BY Zenon DEF Submit, x
    <2> QED BY <2>1, <2>2
<1> HIDE DEF x
<1>5. request' \in [Request -> Record] /\ request'[r] = x /\ \A q \in Request \ {r} : request'[q] = request[q]
    BY <1>3, <1>4
<1> QED BY <1>5 DEF Submit, x

LEMMA RestartShape ==
    ASSUME FeedbackTypeOK, Restart
    PROVE  /\ Crash /\ request' \in [Request -> Record] /\ task' \subseteq Request
           /\ \A r \in Request :
                /\ request'[r].state = Resumed(request[r].state)
                /\ request'[r].fact = request[r].fact /\ request'[r].base = request[r].base
                /\ request'[r].attempts = request[r].attempts
<1>1. request \in [Request -> Record]
    BY DEF FeedbackTypeOK
<1>2. request' = [r \in Request |-> [request[r] EXCEPT !.state = Resumed(@)]]
    BY DEF Restart
<1>3. \A s \in State : Resumed(s) \in State
    BY DEF Resumed, State, Requeued
<1>4. ASSUME NEW r \in Request
      PROVE  /\ request'[r].state = Resumed(request[r].state)
             /\ request'[r].fact = request[r].fact /\ request'[r].base = request[r].base
             /\ request'[r].attempts = request[r].attempts
             /\ request'[r] \in Record
    <2>1. request[r] \in Record
        BY <1>1
    <2>2. request'[r] = [request[r] EXCEPT !.state = Resumed(request[r].state)]
        BY <1>2
    <2>3. Resumed(request[r].state) \in State
        BY <1>3, <2>1 DEF Record
    <2> QED BY <2>1, <2>2, <2>3 DEF Record
<1>5. request' \in [Request -> Record]
    BY <1>2, <1>4
<1> QED BY <1>4, <1>5 DEF Restart

\* What the steps of the feedback do: a request changes its state, is made, is
\* applied by a call; or all of them are resumed.
Alters(r, s) ==
    /\ ChangesTo(r, s) /\ request'[r].attempts = request[r].attempts /\ UNCHANGED vars
    /\ \/ request[r].state = "queued" /\ s = "running"
       \/ request[r].state = "running" /\ s \in {"proposed", "failed"}
       \/ request[r].state = "proposed" /\ s \in {"rejected", "stale"}
       \/ request[r].state = "proposed" /\ s = "applied" /\ Marked(r)
       \/ request[r].state = "applying" /\ s \in {"proposed", "stale"} /\ answer[LastAttempt(r)] # "none"
       \/ request[r].state = "applying" /\ s = "applied" /\ answer[LastAttempt(r)] = "ok"

Makes(r, f) ==
    /\ request[r].state = "none" /\ tree[f].status = "active" /\ UNCHANGED vars
    /\ \A q \in Request \ {r} : request'[q] = request[q]
    /\ request'[r].state = "queued" /\ request'[r].fact = f /\ request'[r].base = tree[f] /\ request'[r].attempts = {}

Attempts(r, c, new) ==
    /\ request[r].state = "proposed" /\ request[r].fact \in Seeded
    /\ Begin(c, {new}, {request[r].fact}, {request[r].base})
    /\ ChangesTo(r, "applying")
    /\ request'[r].attempts = request[r].attempts \cup {c}

Resumes ==
    /\ Crash
    /\ \A r \in Request :
        /\ request'[r].state = Resumed(request[r].state)
        /\ request'[r].fact = request[r].fact /\ request'[r].base = request[r].base
        /\ request'[r].attempts = request[r].attempts

FeedbackMoves ==
    \/ \E r \in Request, s \in State : Alters(r, s)
    \/ \E r \in Request, f \in Seeded : Makes(r, f)
    \/ \E r \in Request, c \in Call, new \in FreshFact : Attempts(r, c, new)
    \/ Resumes
    \/ OtherCall
    \/ UNCHANGED allVars

LEMMA FeedbackShape ==
    ASSUME TypeOK, FeedbackTypeOK, Orderly, [FeedbackNext]_allVars
    PROVE  FeedbackMoves /\ request' \in [Request -> Record] /\ task' \subseteq Request
<1> DEFINE Goal == FeedbackMoves /\ request' \in [Request -> Record] /\ task' \subseteq Request
<1>1. request \in [Request -> Record] /\ task \subseteq Request
    BY DEF FeedbackTypeOK
<1>2. \A s : s \in State <=> s \in {"none", "queued", "running", "proposed", "applying", "applied", "rejected", "failed", "stale"}
    BY DEF State
<1>3. ASSUME NEW r \in Request, NEW s \in State, Set(r, s), UNCHANGED vars, task' \subseteq Request,
             \/ request[r].state = "queued" /\ s = "running"
             \/ request[r].state = "running" /\ s \in {"proposed", "failed"}
             \/ request[r].state = "proposed" /\ s = "rejected"
      PROVE  Goal
    <2>1. s \in State /\ Set(r, s) /\ r \in Request
        BY <1>3
    <2>2. ChangesTo(r, s) /\ request' \in [Request -> Record] /\ request'[r].attempts = request[r].attempts
        BY <2>1, SetShape
    <2>3. FeedbackMoves
        BY <1>3, <2>2 DEF FeedbackMoves, Alters
    <2> QED BY <1>3, <2>2, <2>3
<1>4. ASSUME NEW r \in Request, Work(r) \/ Reject(r) PROVE Goal
    <2>1. CASE Run(r)
        <3>1. "running" \in State /\ Set(r, "running") /\ request[r].state = "queued" /\ UNCHANGED vars /\ task' \subseteq Request
            BY <1>1, <1>2, <2>1 DEF Run
        <3> HIDE DEF Goal
        <3> QED BY <1>3, <3>1
    <2>2. CASE Answered(r)
        <3>1. PICK s \in {"proposed", "failed"} : Set(r, s)
            BY <2>2 DEF Answered
        <3>2. s \in State /\ request[r].state = "running" /\ UNCHANGED vars /\ task' \subseteq Request
            BY <1>1, <1>2, <2>2 DEF Answered
        <3> HIDE DEF Goal
        <3> QED BY <1>3, <3>1, <3>2
    <2>3. CASE Reject(r)
        <3>1. "rejected" \in State /\ Set(r, "rejected") /\ request[r].state = "proposed" /\ UNCHANGED vars /\ task' \subseteq Request
            BY <1>1, <1>2, <2>3 DEF Reject
        <3> HIDE DEF Goal
        <3> QED BY <1>3, <3>1
    <2> QED BY <1>4, <2>1, <2>2, <2>3 DEF Work
<1>5. ASSUME NEW r \in Request, Apply(r) PROVE Goal
    <2>1. "applied" \in State /\ "stale" \in State
        BY <1>2
    <2> QED BY <1>1, <1>5, <2>1, ApplyShape DEF FeedbackMoves, Alters, Attempts
<1>6. ASSUME NEW r \in Request, Settle(r) PROVE Goal
    <2>1. PICK s \in {"applied", "proposed", "stale"} :
              /\ request[r].state = "applying" /\ ChangesTo(r, s) /\ UNCHANGED <<vars, task>>
              /\ request' \in [Request -> Record] /\ request'[r].attempts = request[r].attempts
              /\ answer[LastAttempt(r)] # "none" /\ (s = "applied" => answer[LastAttempt(r)] = "ok")
        BY <1>6, SettleShape
    <2>2. s \in State
        BY <1>2
    <2> QED BY <1>1, <2>1, <2>2 DEF FeedbackMoves, Alters
<1>7. ASSUME NEW r \in Request, NEW f \in Seeded, Submit(r, f) PROVE Goal
    BY <1>1, <1>7, SubmitShape DEF FeedbackMoves, Makes
<1>8. ASSUME Restart PROVE Goal
    BY <1>8, RestartShape DEF FeedbackMoves, Resumes
<1>9. ASSUME OtherCall PROVE Goal
    BY <1>1, <1>9 DEF FeedbackMoves, OtherCall, feedback
<1>10. ASSUME UNCHANGED allVars PROVE Goal
    BY <1>1, <1>10 DEF FeedbackMoves, allVars, feedback
<1> QED BY <1>4, <1>5, <1>6, <1>7, <1>8, <1>9, <1>10 DEF FeedbackNext

\* A call that goes on has begun, stays begun, and keeps what it wants.
LEMMA CallsGoOn ==
    ASSUME TypeOK, NEW c \in Call, Proceed(c)
    PROVE  /\ pc[c] # "idle" /\ want' = want
           /\ \E p \in Stage \ {"idle"} : pc' = [pc EXCEPT ![c] = p]
           /\ Spent
<1> DEFINE Goal == /\ pc[c] # "idle" /\ want' = want
                   /\ \E p \in Stage \ {"idle"} : pc' = [pc EXCEPT ![c] = p]
<1> USE DEF Spent
<1>1. InThread \cup {"wait", "check", "write", "done"} \subseteq Stage \ {"idle"}
    BY DEF Stage, InThread
<1>2. ASSUME NEW p \in Stage \ {"idle"}, Return(c, p) \/ Then(c, p), pc[c] # "idle" PROVE Goal
    BY <1>1, <1>2 DEF Return, Then, Goto
<1>3. ASSUME NEW a, Finish(c, a), pc[c] # "idle" PROVE Goal
    BY <1>1, <1>3 DEF Finish, Goto
<1>4. "push" \in Event /\ "rewrite" \in Event /\ "crash" \in Event /\ "cut" \in Event /\ "cancel" \in Event /\ "disk" \in Event
    BY DEF Event
<1>5. InThread = {"fetch", "forward", "add", "commit", "push", "refetch", "rebase", "drop", "undo", "abort", "discard"}
    BY DEF InThread
<1> HIDE DEF Goal
<1>6. ASSUME Acquire(c) PROVE Goal /\ Spent
    BY <1>1, <1>5, <1>6 DEF Acquire, Goto, Goal
<1>7. ASSUME Fetch(c) PROVE Goal /\ Spent
    BY <1>1, <1>2, <1>3, <1>4, <1>5, <1>7 DEF Fetch
<1>8. ASSUME Forward(c) PROVE Goal /\ Spent
    BY <1>1, <1>2, <1>3, <1>8 DEF Forward
<1>9. ASSUME Check(c) PROVE Goal /\ Spent
    BY <1>1, <1>2, <1>3, <1>5, <1>9 DEF Check
<1>10. ASSUME NEW f \in Fact, WriteFile(c, f) PROVE Goal /\ Spent
    BY <1>1, <1>2, <1>4, <1>5, <1>10 DEF WriteFile
<1>11. ASSUME Add(c) PROVE Goal /\ Spent
    BY <1>1, <1>2, <1>5, <1>11 DEF Add
<1>12. ASSUME CommitStaged(c) PROVE Goal /\ Spent
    <2>1. pc[c] # "idle" /\ UNCHANGED used
        BY <1>12 DEF CommitStaged
    <2>2. Return(c, "discard") \/ Then(c, "push")
        BY <1>12, CommitStagedShape
    <2> QED BY <1>1, <1>2, <1>5, <2>1, <2>2
<1>13. ASSUME Push(c) PROVE Goal /\ Spent
    <2>1. pc[c] # "idle"
        BY <1>13 DEF Push
    <2>2. CASE Finish(c, "ok") /\ UNCHANGED used
        BY <1>3, <2>1, <2>2
    <2>3. CASE Goto(c, "refetch") /\ want' = want
        <3>1. "refetch" \in Stage \ {"idle"}
            BY <1>1, <1>5
        <3>2. pc' = [pc EXCEPT ![c] = "refetch"] /\ want' = want
            BY <2>3 DEF Goto
        <3>3. Goal
            BY <2>1, <3>1, <3>2 DEF Goal
        <3>4. Spent
            BY <1>4, <1>13 DEF Push
        <3> QED BY <3>3, <3>4
    <2>4. Spent
        BY <1>4, <1>13 DEF Push
    <2> QED BY <1>13, <2>2, <2>3, <2>4 DEF Push
<1>14. ASSUME OutOfTries(c) PROVE Goal /\ Spent
    BY <1>1, <1>2, <1>5, <1>14 DEF OutOfTries
<1>15. ASSUME Refetch(c) PROVE Goal /\ Spent
    BY <1>1, <1>2, <1>4, <1>5, <1>15 DEF Refetch
<1>16. ASSUME Rebase(c) PROVE Goal /\ Spent
    BY <1>1, <1>2, <1>5, <1>16 DEF Rebase
<1>17. ASSUME Drop(c) PROVE Goal /\ Spent
    BY <1>1, <1>2, <1>5, <1>17 DEF Drop
<1>18. ASSUME Undo(c) PROVE Goal /\ Spent
    BY <1>3, <1>18 DEF Undo, Undoing
<1>19. Goal /\ Spent
    BY <1>6, <1>7, <1>8, <1>9, <1>10, <1>11, <1>12, <1>13, <1>14, <1>15, <1>16, <1>17, <1>18 DEF Proceed
<1> QED BY <1>19 DEF Goal

\* No step makes a call idle again; a call begins after the earlier ones.
LEMMA CallsBegin ==
    ASSUME TypeOK, [Next]_vars
    PROVE  /\ Spent
           /\ \A c \in Call : pc[c] # "idle" => pc'[c] # "idle"
           /\ \A c, d \in Call : pc[d] = "idle" /\ pc'[d] # "idle" /\ c < d => pc[c] # "idle"
<1> DEFINE Goal == /\ \A c \in Call : pc[c] # "idle" => pc'[c] # "idle"
                   /\ \A c, d \in Call : pc[d] = "idle" /\ pc'[d] # "idle" /\ c < d => pc[c] # "idle"
<1>1. pc \in [Call -> Stage]
    BY DEF TypeOK
<1>2. {"push", "rewrite", "crash", "cancel"} \subseteq Event
    BY DEF Event
<1>3. ASSUME NEW c \in Call, Proceed(c) PROVE Goal /\ Spent
    <2>1. PICK p \in Stage \ {"idle"} : pc' = [pc EXCEPT ![c] = p]
        BY <1>3, CallsGoOn
    <2>2. pc[c] # "idle" /\ Spent
        BY <1>3, CallsGoOn
    <2> QED BY <1>1, <2>1, <2>2
<1>4. ASSUME NEW c \in Call, NEW new, NEW old, NEW expect, Begin(c, new, old, expect) PROVE Goal /\ Spent
    BY <1>1, <1>4 DEF Begin, Goto, Spent
<1>5. ASSUME NEW c \in Call, Cancel(c) PROVE Goal /\ Spent
    BY <1>2, <1>5 DEF Cancel, Spent
<1>6. ASSUME Outside PROVE Goal /\ Spent
    <2>1. CASE Crash
        BY <1>1, <1>2, <2>1 DEF Crash, Spent
    <2>2. ASSUME NEW f, NEW s, PushByOther(f, s) PROVE Goal /\ Spent
        BY <1>2, <2>2 DEF PushByOther, Spent, calls
    <2>3. ASSUME NEW f, NEW n, RewriteRemote(f, n) PROVE Goal /\ Spent
        BY <1>2, <2>3 DEF RewriteRemote, Spent, calls
    <2> QED BY <1>6, <2>1, <2>2, <2>3 DEF Outside
<1>7. ASSUME UNCHANGED vars PROVE Goal /\ Spent
    BY <1>7 DEF vars, calls, Spent
<1> HIDE DEF Goal
<1>8. Goal /\ Spent
    BY <1>3, <1>4, <1>5, <1>6, <1>7 DEF Next
<1> QED BY <1>8 DEF Goal

\* The request that a step of the feedback finds is well formed, and so is what it
\* leaves.
LEMMA FeedbackTyped ==
    ASSUME TypeOK, FeedbackTypeOK, Orderly, [FeedbackNext]_allVars
    PROVE  TypeOK' /\ FeedbackTypeOK' /\ Orderly'
<1>1. [Next]_vars
    BY FeedbackStepsWrite
<1>2. TypeOK'
    BY <1>1, NextTyped
<1>3. FeedbackMoves /\ request' \in [Request -> Record] /\ task' \subseteq Request
    BY FeedbackShape
<1>4. Record \subseteq Record'
    <2>1. Content \subseteq Content'
        BY <1>1, CallsBegin, TypesGrow
    <2> QED BY <2>1 DEF Record
<1> DEFINE Of(q) == request[q].state # "none" => request[q].fact \in Seeded
<1>5. \A q \in Request : Of(q)
    BY DEF FeedbackTypeOK
<1>6. \A q \in Request : Of(q)'
    <2>1. ASSUME NEW r \in Request, NEW s \in State, Alters(r, s) PROVE \A q \in Request : Of(q)'
        BY <1>5, <2>1 DEF Alters, ChangesTo
    <2>2. ASSUME NEW r \in Request, NEW f \in Seeded, Makes(r, f) PROVE \A q \in Request : Of(q)'
        BY <1>5, <2>2 DEF Makes
    <2>3. ASSUME NEW r \in Request, NEW c \in Call, NEW new \in FreshFact, Attempts(r, c, new) PROVE \A q \in Request : Of(q)'
        BY <1>5, <2>3 DEF Attempts, ChangesTo
    <2>4. ASSUME Resumes PROVE \A q \in Request : Of(q)'
        BY <1>5, <2>4 DEF Resumes, Resumed, Requeued
    <2>5. ASSUME OtherCall \/ UNCHANGED allVars PROVE \A q \in Request : Of(q)'
        BY <1>5, <2>5 DEF OtherCall, feedback, allVars
    <2> QED BY <1>3, <2>1, <2>2, <2>3, <2>4, <2>5 DEF FeedbackMoves
<1>7. FeedbackTypeOK'
    BY <1>3, <1>4, <1>6 DEF FeedbackTypeOK
<1> DEFINE InOrder(r) == /\ \A c \in request[r].attempts : pc[c] # "idle"
                         /\ request[r].state = "applying" =>
                               \E c \in request[r].attempts : \A d \in request[r].attempts : d <= c
<1>8. \A c, d \in Call : d < c /\ pc'[c] # "idle" => pc'[d] # "idle"
    <2>1. /\ \A c \in Call : pc[c] # "idle" => pc'[c] # "idle"
          /\ \A c, d \in Call : pc[d] = "idle" /\ pc'[d] # "idle" /\ c < d => pc[c] # "idle"
        BY <1>1, CallsBegin
    <2> QED BY <2>1 DEF Orderly
<1>9. \A r \in Request : InOrder(r)
    BY DEF Orderly
<1>10. /\ \A r \in Request : request[r].attempts \subseteq Call
       /\ \A c \in Call : pc[c] # "idle" => pc'[c] # "idle"
    BY <1>1, CallsBegin DEF FeedbackTypeOK, Record
<1>11. \A r \in Request : InOrder(r)'
    <2>1. ASSUME NEW q \in Request, request'[q].attempts = request[q].attempts,
                 request'[q].state = "applying" => request[q].state = "applying"
          PROVE  InOrder(q)'
        BY <1>9, <1>10, <2>1
    <2>2. ASSUME NEW r \in Request, NEW s \in State, Alters(r, s) PROVE \A q \in Request : InOrder(q)'
        <3>1. s # "applying"
            BY <2>2 DEF Alters
        <3> HIDE DEF InOrder
        <3> QED BY <2>1, <2>2, <3>1 DEF Alters, ChangesTo
    <2>3. ASSUME NEW r \in Request, NEW f \in Seeded, Makes(r, f) PROVE \A q \in Request : InOrder(q)'
        <3>1. InOrder(r)'
            BY <2>3 DEF Makes
        <3> HIDE DEF InOrder
        <3> QED BY <2>1, <2>3, <3>1 DEF Makes
    <2>4. ASSUME NEW r \in Request, NEW c \in Call, NEW new \in FreshFact, Attempts(r, c, new) PROVE \A q \in Request : InOrder(q)'
        <3>1. pc[c] = "idle" /\ pc'[c] = "wait"
            BY <2>4 DEF Attempts, Begin, Goto, TypeOK
        <3>2. \A d \in request[r].attempts : d <= c
            <4>1. \A d \in request[r].attempts : d \in Call /\ pc[d] # "idle"
                BY <1>9, <1>10
            <4>2. \A d \in Call : pc[d] # "idle" => ~(c < d)
                BY <3>1 DEF Orderly
            <4>3. ASSUME NEW d \in Call, ~(c < d) PROVE d <= c
                BY <4>3, GitAssumption
            <4> QED BY <4>1, <4>2, <4>3
        <3>3. request'[r].attempts = request[r].attempts \cup {c}
            BY <2>4 DEF Attempts
        <3>4. InOrder(r)'
            <4>1. \A d \in request'[r].attempts : d <= c /\ pc'[d] # "idle"
                <5>1. \A d \in request[r].attempts : pc'[d] # "idle"
                    BY <1>9, <1>10
                <5>2. c <= c
                    BY GitAssumption
                <5> HIDE DEF InOrder
                <5> QED BY <3>1, <3>2, <3>3, <5>1, <5>2
            <4> QED BY <3>3, <4>1
        <3> HIDE DEF InOrder
        <3> QED BY <2>1, <2>4, <3>4 DEF Attempts, ChangesTo
    <2>5. ASSUME Resumes PROVE \A q \in Request : InOrder(q)'
        <3>1. \A q \in Request : request'[q].attempts = request[q].attempts /\ request'[q].state # "applying"
            BY <2>5 DEF Resumes, Resumed, Requeued
        <3> HIDE DEF InOrder
        <3> QED BY <2>1, <3>1
    <2>6. ASSUME OtherCall \/ UNCHANGED allVars PROVE \A q \in Request : InOrder(q)'
        <3> HIDE DEF InOrder
        <3> QED BY <2>1, <2>6 DEF OtherCall, feedback, allVars
    <2> HIDE DEF InOrder
    <2> QED BY <1>3, <2>2, <2>3, <2>4, <2>5, <2>6 DEF FeedbackMoves
<1>12. Orderly'
    BY <1>8, <1>11 DEF Orderly
<1> QED BY <1>2, <1>7, <1>12

LEMMA FeedbackTypedAtFirst ==
    ASSUME FeedbackInit
    PROVE  TypeOK /\ FeedbackTypeOK /\ Orderly
<1>1. TypeOK
    BY InitTyped DEF FeedbackInit
<1> DEFINE x == NoRequest(CHOOSE f \in Seeded : TRUE)
<1>2. x \in Record /\ x.state = "none" /\ x.attempts = {}
    <2>1. Absent \in Content
        BY DEF Absent, Content, Status, Author
    <2> QED BY <2>1 DEF NoRequest, Record, State, Subject, AtMostOne
<1> HIDE DEF x
<1>3. request = [r \in Request |-> x] /\ task = {}
    BY DEF FeedbackInit, x
<1>4. FeedbackTypeOK
    BY <1>2, <1>3 DEF FeedbackTypeOK
<1>5. \A c \in Call : pc[c] = "idle"
    BY DEF FeedbackInit, Init
<1>6. Orderly
    BY <1>2, <1>3, <1>5 DEF Orderly
<1> QED BY <1>1, <1>4, <1>6

\* What the requests and their calls are, in every state of the feedback.
LEMMA FeedbackInductive == FeedbackSpec => [](TypeOK /\ FeedbackTypeOK /\ Orderly)
<1>1. FeedbackInit => TypeOK /\ FeedbackTypeOK /\ Orderly
    BY FeedbackTypedAtFirst
<1>2. (TypeOK /\ FeedbackTypeOK /\ Orderly) /\ [FeedbackNext]_allVars => (TypeOK /\ FeedbackTypeOK /\ Orderly)'
    BY FeedbackTyped
<1> QED BY <1>1, <1>2, PTL DEF FeedbackSpec

\* The feedback uses the writer as its callers may: every behaviour of the two
\* together is, for the writer, one of its own, so what holds of the writer holds
\* under the feedback as well.
THEOREM FeedbackUsesTheWriter == FeedbackSpec => Spec
<1>1. FeedbackInit => Init
    BY DEF FeedbackInit
<1>2. FeedbackTypeOK /\ [FeedbackNext]_allVars => [Next]_vars
    BY FeedbackStepsWrite
<1> QED BY <1>1, <1>2, FeedbackInductive, PTL DEF FeedbackSpec, Spec

\* A request changes its state as feedback.py allows, whoever writes it.
THEOREM StatesAreAllowed == FeedbackSpec => KeepsToAllowed
<1> DEFINE Step(r) ==
        LET s == request[r].state  t == request'[r].state
        IN s # t => \/ t \in Allowed(s)
                    \/ s = "proposed" /\ \E m \in Allowed(s) : t \in Allowed(m)
<1>1. ASSUME TypeOK, FeedbackTypeOK, Orderly, [FeedbackNext]_allVars PROVE \A q \in Request : Step(q)
    <2>1. FeedbackMoves /\ \A r \in Request : request[r].state \in State
        BY <1>1, FeedbackShape DEF FeedbackTypeOK, Record
    <2>2. ASSUME NEW r \in Request, NEW s \in State, Alters(r, s) PROVE \A q \in Request : Step(q)
        <3>1. Step(r)
            BY <2>2 DEF Alters, ChangesTo, Allowed
        <3> QED BY <2>2, <3>1 DEF Alters, ChangesTo
    <2>3. ASSUME NEW r \in Request, NEW f \in Seeded, Makes(r, f) PROVE \A q \in Request : Step(q)
        <3>1. Step(r)
            BY <2>3 DEF Makes, Allowed
        <3> QED BY <2>3, <3>1 DEF Makes
    <2>4. ASSUME NEW r \in Request, NEW c \in Call, NEW new \in FreshFact, Attempts(r, c, new) PROVE \A q \in Request : Step(q)
        <3>1. Step(r)
            BY <2>4 DEF Attempts, ChangesTo, Allowed
        <3> QED BY <2>4, <3>1 DEF Attempts, ChangesTo
    <2>5. ASSUME Resumes PROVE \A q \in Request : Step(q)
        BY <2>1, <2>5 DEF Resumes, Resumed, Requeued, Allowed, State
    <2>6. ASSUME OtherCall \/ UNCHANGED allVars PROVE \A q \in Request : Step(q)
        BY <2>6 DEF OtherCall, feedback, allVars
    <2> HIDE DEF Step
    <2> QED BY <2>1, <2>2, <2>3, <2>4, <2>5, <2>6 DEF FeedbackMoves
<1>2. (TypeOK /\ FeedbackTypeOK /\ Orderly) /\ [FeedbackNext]_allVars => [\A r \in Request : Step(r)]_allVars
    BY <1>1
<1> QED BY <1>2, FeedbackInductive, PTL DEF FeedbackSpec, KeepsToAllowed

-----------------------------------------------------------------------------
(* What keeps the attempts of a request apart                              *)

\* h goes on from g.
Extends(h, g) == Len(g) <= Len(h) /\ \A k \in 1..Len(g) : h[k] = g[k]

\* Nobody is cancelled and nobody rewrites the remote: the feedback does neither.
Quiet == used["cancel"] = 0 /\ used["rewrite"] = 0

\* The clone has every commit of the server's that is on the remote, or will when it
\* moves on to what it fetches.
Known == \A d \in Call : By(d, remote) # {} => By(d, local) # {} \/ Extends(tracking, local)

Fetched ==
    \A c \in Call : pc[c] = "forward" => \A d \in Call : By(d, remote) # {} => By(d, tracking) # {}

Current == {"check", "write", "add", "commit"}
UpToDate ==
    \A c \in Call : pc[c] \in Current => \A d \in Call : By(d, remote) # {} => By(d, local) # {}

\* The clone's commits beside those of origin/main are the server's.
Ours(x) == \A f \in DOMAIN x : x[f].by \in Call
LocalIsOurs ==
    \A i \in 1..Len(local) :
        \/ i <= Len(tracking) /\ \A k \in 1..i : local[k] = tracking[k]
        \/ Ours(local[i])

\* What is not as HEAD has it was written by a call.
ByCalls(f) == tree[f].by \in Call /\ (Uncommitted(f) => index[f].by \in Call)
Kept == \A f \in Fact : Clean(f) \/ ByCalls(f)

\* The server only retires the seeded facts.
Retired(x) == x.by \in Call => x.status # "active"
SeededRetired ==
    \A f \in Seeded :
        /\ Retired(tree[f]) /\ Retired(index[f])
        /\ \A h \in Branches : \A i \in 1..Len(h) : f \in DOMAIN h[i] => Retired(h[i][f])
NewIsFresh == \A c \in Call : want[c].new \cap Seeded = {}

CloneInv ==
    /\ Quiet /\ Extends(remote, tracking) /\ Known /\ Fetched /\ UpToDate
    /\ LocalIsOurs /\ Kept /\ SeededRetired /\ NewIsFresh

\* How a step changes the branches and the files of the clone, as long as it is quiet.
Still == UNCHANGED <<remote, tracking, local, index, tree>>
Reads == tracking' = remote /\ UNCHANGED <<remote, local, index, tree>>
Moves(h) == MoveTo(h) /\ UNCHANGED <<remote, tracking>>
Writes(c, f) ==
    /\ f \in Files(c)
    /\ tree' = [tree EXCEPT ![f] = Written(c, IF f \in want[c].new THEN "active" ELSE "invalidated")]
    /\ UNCHANGED <<remote, tracking, local, index>>
Commits == local' = Append(local, NewCommit) /\ UNCHANGED <<remote, tracking, index, tree>>
Lands == Extends(local, remote) /\ remote' = local /\ tracking' \in {tracking, local} /\ UNCHANGED <<local, index, tree>>
Resets == ResetHard /\ UNCHANGED remote
Joins == \E f \in Fact, s \in {"active", "invalidated"} : PushByOther(f, s)

MovesOf(c) ==
    \/ pc[c] \in {"fetch", "refetch"} /\ Reads
    \/ pc[c] = "forward" /\ Moves(tracking)
    \/ pc[c] = "rebase" /\ Moves(Replay)
    \/ pc[c] = "write" /\ \E f \in Fact : Writes(c, f)
    \/ Add(c)
    \/ pc[c] = "commit" /\ Commits
    \/ pc[c] = "push" /\ Lands
    \/ pc[c] \in {"drop", "undo", "abort", "discard"} /\ Resets

LEMMA ProceedMoves ==
    ASSUME TypeOK, NEW c \in Call, Proceed(c)
    PROVE  Still \/ MovesOf(c)
<1> USE DEF clone
<1>1. CASE Acquire(c)
    BY <1>1 DEF Acquire, Still
<1>2. CASE Fetch(c) \/ Refetch(c)
    BY <1>2 DEF Fetch, Refetch, Still, MovesOf, Reads
<1>3. CASE Forward(c)
    BY <1>3 DEF Forward, Still, MovesOf, Moves
<1>4. CASE Check(c) \/ OutOfTries(c)
    BY <1>4 DEF Check, OutOfTries, Still
<1>5. CASE \E f \in Fact : WriteFile(c, f)
    <2>1. PICK f \in Fact : WriteFile(c, f)
        BY <1>5
    <2>2. pc[c] = "write" /\ f \in Files(c) /\ UNCHANGED <<remote, tracking, local, index>>
        BY <2>1 DEF WriteFile, Unwritten
    <2>3. UNCHANGED tree \/ tree' = [tree EXCEPT ![f] = Written(c, IF f \in want[c].new THEN "active" ELSE "invalidated")]
        BY <2>1 DEF WriteFile
    <2> QED BY <2>2, <2>3 DEF Still, MovesOf, Writes
<1>6. CASE Add(c)
    BY <1>6 DEF MovesOf
<1>7. CASE CommitStaged(c)
    BY <1>7, CommitStagedShape DEF Still, MovesOf, Commits
<1>8. CASE Push(c)
    <2>1. Accepted => Extends(local, remote)
        BY PrefixMeaning DEF Accepted, Extends, TypeOK
    <2>2. pc[c] = "push" /\ UNCHANGED <<local, index, tree>>
        BY <1>8 DEF Push
    <2>3. \/ Accepted /\ remote' = local /\ tracking' = local
          \/ Accepted /\ remote' = local /\ tracking' = tracking
          \/ remote' = remote /\ tracking' = tracking
        BY <1>8 DEF Push
    <2> QED BY <2>1, <2>2, <2>3 DEF Still, MovesOf, Lands
<1>9. CASE Rebase(c)
    BY <1>9 DEF Rebase, Still, MovesOf, Moves, Replay
<1>10. CASE Drop(c) \/ Undo(c)
    BY <1>10 DEF Drop, Undo, Undoing, MovesOf, Resets
<1> QED BY <1>1, <1>2, <1>3, <1>4, <1>5, <1>6, <1>7, <1>8, <1>9, <1>10 DEF Proceed

LEMMA WriterMoves ==
    ASSUME TypeOK, [Next]_vars, Quiet, Quiet'
    PROVE  Still \/ (\E c \in Call : Proceed(c) /\ MovesOf(c)) \/ Joins
<1>1. CASE UNCHANGED vars
    BY <1>1 DEF vars, clone, Still
<1>2. ASSUME NEW c \in Call, Proceed(c) PROVE Still \/ (Proceed(c) /\ MovesOf(c))
    BY <1>2, ProceedMoves
<1>3. ASSUME NEW c \in Call, Cancel(c) PROVE Still
    BY <1>3 DEF Cancel, Still, clone
<1>4. ASSUME NEW c \in Call, NEW new, NEW old, NEW expect, Begin(c, new, old, expect) PROVE Still
    BY <1>4 DEF Begin, Still, clone
<1>5. ASSUME Crash PROVE Still
    BY <1>5 DEF Crash, Still, clone
<1>6. ASSUME NEW f, NEW n, RewriteRemote(f, n) PROVE FALSE
    <2>1. used'["rewrite"] # used["rewrite"]
        BY <1>6, RewriteIsCounted DEF RewriteRemote
    <2> QED BY <2>1 DEF Quiet
<1>7. CASE Outside
    <2>1. ASSUME NEW f \in Fact, NEW s \in {"active", "invalidated"}, PushByOther(f, s) PROVE Joins
        BY <2>1 DEF Joins
    <2> QED BY <1>5, <1>6, <1>7, <2>1 DEF Outside
<1>8. CASE Next
    BY <1>2, <1>3, <1>4, <1>7, <1>8 DEF Next
<1> QED BY <1>1, <1>8

\* Branches, prefixes of one another.
LEMMA BranchesTyped ==
    ASSUME TypeOK
    PROVE  /\ {remote, tracking, local} \subseteq Seq(Commit)
           /\ Len(remote) \in Nat /\ Len(tracking) \in Nat /\ Len(local) \in Nat
BY LenProperties DEF TypeOK

LEMMA ExtendsTrans ==
    ASSUME NEW g, NEW h, NEW k, Len(g) \in Nat, Len(h) \in Nat, Len(k) \in Nat, Extends(h, g), Extends(k, h)
    PROVE  Extends(k, g)
BY DEF Extends

\* A branch that goes on from another has its commits.
LEMMA ExtendsHas ==
    ASSUME NEW g, NEW h, Len(g) \in Nat, Len(h) \in Nat, Extends(h, g), NEW d, By(d, g) # {}
    PROVE  By(d, h) # {}
<1>1. PICK i \in 1..Len(g) : \E f \in DOMAIN g[i] : g[i][f].by = d
    BY DEF By
<1>2. i \in 1..Len(h) /\ h[i] = g[i]
    BY DEF Extends
<1> QED BY <1>1, <1>2 DEF By

\* What somebody else pushes.
LEMMA JoinsShape ==
    ASSUME TypeOK, Joins
    PROVE  /\ UNCHANGED <<clone, calls>>
           /\ Len(remote') = Len(remote) + 1
           /\ \A k \in 1..Len(remote) : remote'[k] = remote[k]
           /\ \A g \in DOMAIN remote'[Len(remote) + 1] : remote'[Len(remote) + 1][g].by \notin Author \cup Call
<1>1. PICK f \in Fact, s \in {"active", "invalidated"} : PushByOther(f, s)
    BY DEF Joins
<1>2. Spend("push") /\ s \in Status /\ "push" \in Event
    BY <1>1 DEF PushByOther, Status, Event
<1>3. Spent
    BY <1>2 DEF Spent
<1>4. Foreign(f, s) \in Commit' /\ remote \in Seq(Commit')
    BY <1>2, <1>3, ForeignTyped, TypesGrow, BranchesTyped
<1>5. remote' = Append(remote, Foreign(f, s)) /\ UNCHANGED <<clone, calls>>
    BY <1>1 DEF PushByOther
<1>6. Len(remote') = Len(remote) + 1 /\ remote'[Len(remote) + 1] = Foreign(f, s) /\ \A k \in 1..Len(remote) : remote'[k] = remote[k]
    BY <1>4, <1>5, AppendProperties
<1> DEFINE n == used["push"] + used["rewrite"]
<1>7. n \in Nat
    BY DEF TypeOK, Event
<1>8. -(1 + used["push"] + used["rewrite"]) \notin Author \cup Call
    <2>1. Author = Call \cup {0} \cup {-i : i \in 1..n}
        BY DEF Author
    <2>2. 1 + used["push"] + used["rewrite"] = 1 + n
        BY DEF TypeOK, Event
    <2> HIDE DEF n
    <2>3. -(1 + n) \notin Call
        BY <1>7, GitAssumption
    <2>4. \A i \in 1..n : -(1 + n) # -i
        BY <1>7
    <2> QED BY <1>7, <2>1, <2>2, <2>3, <2>4
<1>9. \A g \in DOMAIN Foreign(f, s) : Foreign(f, s)[g].by = -(1 + used["push"] + used["rewrite"])
    BY DEF Foreign, Written
<1> QED BY <1>5, <1>6, <1>8, <1>9

LEMMA JoinsKeepsBy ==
    ASSUME TypeOK, Joins, NEW d \in Call
    PROVE  By(d, remote') = By(d, remote)
<1> DEFINE n == Len(remote)
<1>1. n \in Nat /\ Len(remote') = n + 1 /\ (\A k \in 1..n : remote'[k] = remote[k])
      /\ \A g \in DOMAIN remote'[n + 1] : remote'[n + 1][g].by # d
    BY JoinsShape, BranchesTyped
<1>2. \A i \in 1..n + 1 : (\E f \in DOMAIN remote'[i] : remote'[i][f].by = d) <=> i \in 1..n /\ \E f \in DOMAIN remote[i] : remote[i][f].by = d
    BY <1>1
<1>3. \A i : i \in By(d, remote') <=> i \in By(d, remote)
    BY <1>1, <1>2 DEF By
<1> QED BY <1>3

\* The remote goes on from what the clone knows of it.
LEMMA RemoteGoesOn ==
    ASSUME TypeOK, Extends(remote, tracking), Still \/ (\E c \in Call : MovesOf(c)) \/ Joins
    PROVE  Extends(remote, tracking)' /\ Extends(remote', remote)
<1>0. Len(remote) \in Nat /\ Len(tracking) \in Nat /\ Len(local) \in Nat
    BY BranchesTyped
<1>1. CASE Still
    BY <1>0, <1>1 DEF Still, Extends
<1>2. ASSUME NEW c \in Call, MovesOf(c) PROVE Extends(remote, tracking)' /\ Extends(remote', remote)
    <2>1. CASE Reads \/ Moves(tracking) \/ Moves(Replay) \/ (\E f \in Fact : Writes(c, f)) \/ Add(c) \/ Commits \/ Resets
        BY <1>0, <2>1 DEF Reads, Moves, Writes, Add, Commits, Resets, ResetHard, Extends
    <2>2. CASE Lands
        <3>1. remote' = local /\ tracking' \in {tracking, local} /\ Extends(local, remote)
            BY <2>2 DEF Lands
        <3>2. Extends(local, tracking) /\ Extends(local, local)
            BY <1>0, <3>1, ExtendsTrans DEF Extends
        <3> QED BY <3>1, <3>2 DEF Extends
    <2> QED BY <1>2, <2>1, <2>2 DEF MovesOf
<1>3. CASE Joins
    <2>1. tracking' = tracking /\ Len(remote') = Len(remote) + 1 /\ \A k \in 1..Len(remote) : remote'[k] = remote[k]
        BY <1>3, JoinsShape DEF clone
    <2> QED BY <1>0, <2>1 DEF Extends
<1> QED BY <1>1, <1>2, <1>3

LEMMA ReplayGoesOn ==
    ASSUME TypeOK
    PROVE  Extends(Replay, tracking) /\ Len(Replay) \in Nat
<1>1. /\ Shared(local, tracking) \in Nat /\ Shared(local, tracking) <= Len(local)
      /\ Len(Replay) = Len(tracking) + (Len(local) - Shared(local, tracking))
      /\ \A k \in 1..Len(tracking) : Replay[k] = tracking[k]
    BY ReplayShape
<1>2. Len(local) \in Nat /\ Len(tracking) \in Nat
    BY BranchesTyped
<1> HIDE DEF Replay, Shared
<1> QED BY <1>1, <1>2 DEF Extends

LEMMA CommitsGoOn ==
    ASSUME TypeOK, Commits
    PROVE  Extends(local', local)
<1>1. local' = Append(local, NewCommit)
    BY DEF Commits
<1>2. Len(local) \in Nat /\ Len(local') = Len(local) + 1 /\ \A k \in 1..Len(local) : local'[k] = local[k]
    BY <1>1, CommitAdds
<1> QED BY <1>2 DEF Extends

\* What the clone knows of the remote.
LEMMA KnownStays ==
    ASSUME TypeOK, TypeOK', Core, Known, UpToDate, Extends(remote, tracking),
           Still \/ (\E c \in Call : MovesOf(c)) \/ Joins
    PROVE  Known'
<1>0. /\ Len(remote) \in Nat /\ Len(tracking) \in Nat /\ Len(local) \in Nat
      /\ Len(remote') \in Nat /\ Len(tracking') \in Nat /\ Len(local') \in Nat
    BY LenProperties DEF TypeOK
<1>1. CASE Still
    BY <1>1 DEF Still, Known, By, Extends
<1>2. ASSUME NEW c \in Call, MovesOf(c) PROVE Known'
    <2>1. CASE Reads
        <3>1. tracking' = remote /\ remote' = remote /\ local' = local
            BY <2>1 DEF Reads
        <3>2. Extends(tracking, local) => Extends(remote, local)
            BY <1>0, ExtendsTrans
        <3> QED BY <3>1, <3>2 DEF Known, By, Extends
    <2>2. CASE Moves(tracking) \/ Resets
        <3>1. local' = tracking /\ tracking' = tracking
            BY <2>2 DEF Moves, MoveTo, Resets, ResetHard
        <3> QED BY <1>0, <3>1 DEF Known, Extends
    <2>3. CASE pc[c] = "rebase" /\ Moves(Replay)
        <3>1. local' = Replay /\ tracking' = tracking /\ remote' = remote
            BY <2>3 DEF Moves, MoveTo
        <3>2. \A d \in Call : By(d, remote) # {} => By(d, Replay) # {}
            BY <1>0, <2>3, ReplayGoesOn, ExtendsHas DEF Core, RebaseSees
        <3> QED BY <3>1, <3>2 DEF Known, By
    <2>4. CASE (\E f \in Fact : Writes(c, f)) \/ Add(c)
        BY <2>4 DEF Writes, Add, Known, By, Extends
    <2>5. CASE pc[c] = "commit" /\ Commits
        <3>1. remote' = remote
            BY <2>5 DEF Commits
        <3>2. \A d \in Call : By(d, remote) # {} => By(d, local) # {}
            BY <2>5 DEF UpToDate, Current
        <3>3. \A d \in Call : By(d, remote) # {} => By(d, local') # {}
            BY <1>0, <2>5, <3>2, CommitsGoOn, ExtendsHas
        <3> QED BY <3>1, <3>3 DEF Known, By
    <2>6. CASE Lands
        BY <2>6 DEF Lands, Known, By
    <2> QED BY <1>2, <2>1, <2>2, <2>3, <2>4, <2>5, <2>6 DEF MovesOf
<1>3. CASE Joins
    <2>1. UNCHANGED <<tracking, local>>
        BY <1>3, JoinsShape DEF clone
    <2>2. \A d \in Call : By(d, remote') = By(d, remote)
        BY <1>3, JoinsKeepsBy
    <2> QED BY <2>1, <2>2 DEF Known, By, Extends
<1> QED BY <1>1, <1>2, <1>3

\* While a call is in the clone, nobody else is.
LEMMA Uninterrupted ==
    ASSUME TypeOK, Core, [Next]_vars, Quiet, Quiet', NEW c \in Call, pc[c] \in Busy \/ pc'[c] \in Busy
    PROVE  \/ Proceed(c)
           \/ pc'[c] = pc[c] /\ (Still \/ Joins)
           \/ Crash /\ pc'[c] \notin Busy
<1>1. CASE UNCHANGED vars
    BY <1>1 DEF vars, clone, calls, Still
<1>2. ASSUME NEW d \in Call, Proceed(d), d # c PROVE FALSE
    <2>1. pc'[c] = pc[c]
        BY <1>2, CallsGoOn DEF TypeOK
    <2>2. lock = {c}
        BY <2>1 DEF Core, OneThread
    <2>3. pc[d] \notin Busy
        BY <1>2, <2>2 DEF Core, OneThread
    <2>4. ~Acquire(d)
        BY <2>2 DEF Acquire
    <2>5. Undoing = [undo |-> "refused", abort |-> "error", discard |-> "conflict"]
        BY DEF Undoing
    <2>6. DOMAIN Undoing = {"undo", "abort", "discard"}
        BY <2>5
    <2> QED BY <1>2, <2>3, <2>4, <2>6
        DEF Proceed, Busy, InThread, Fetch, Forward, Check, WriteFile, Add, CommitStaged, Push, OutOfTries, Refetch, Rebase, Drop, Undo
<1>3. ASSUME NEW d \in Call, Cancel(d) PROVE FALSE
    <2>1. used' = [used EXCEPT !["cancel"] = @ + 1] /\ used \in [Event -> Nat] /\ "cancel" \in Event
        BY <1>3 DEF Cancel, Spend, TypeOK, Event
    <2> QED BY <2>1 DEF Quiet
<1>4. ASSUME NEW d \in Call, NEW new, NEW old, NEW expect, Begin(d, new, old, expect) PROVE pc'[c] = pc[c] /\ Still
    <2>1. pc'[d] = "wait" /\ \A e \in Call \ {d} : pc'[e] = pc[e]
        BY <1>4 DEF Begin, Goto, TypeOK
    <2>2. c # d
        BY <1>4, <2>1 DEF Begin, Busy, InThread
    <2> QED BY <1>4, <2>1, <2>2 DEF Begin, Still, clone
<1>5. ASSUME Crash PROVE pc'[c] \notin Busy
    BY <1>5 DEF Crash, Busy, InThread
<1>6. ASSUME NEW f, NEW n, RewriteRemote(f, n) PROVE FALSE
    <2>1. used'["rewrite"] # used["rewrite"]
        BY <1>6, RewriteIsCounted DEF RewriteRemote
    <2> QED BY <2>1 DEF Quiet
<1>7. ASSUME NEW f \in Fact, NEW s \in {"active", "invalidated"}, PushByOther(f, s) PROVE pc'[c] = pc[c] /\ Joins
    BY <1>7 DEF Joins, PushByOther, calls
<1>8. CASE Next
    BY <1>2, <1>3, <1>4, <1>5, <1>6, <1>7, <1>8 DEF Next, Outside
<1> QED BY <1>1, <1>8

\* What a call in the clone has fetched, and what it then has.
LEMMA FetchedStays ==
    ASSUME TypeOK, Core, Fetched, [Next]_vars, Quiet, Quiet'
    PROVE  Fetched'
<1>1. ASSUME NEW c \in Call, pc'[c] = "forward"
      PROVE  \A d \in Call : By(d, remote') # {} => By(d, tracking') # {}
    <2>1. pc'[c] \in Busy
        BY <1>1 DEF Busy, InThread
    <2>2. CASE Proceed(c)
        <3>1. pc \in [Call -> Stage]
            BY DEF TypeOK
        <3>2. ~UNCHANGED <<pc>> \/ pc[c] = "forward"
            BY <1>1
        <3>3. Fetch(c)
            <4>1. ASSUME NEW a, Finish(c, a) PROVE FALSE
                BY <1>1, <3>1, <4>1 DEF Finish, Goto
            <4>2. ASSUME NEW p \in Stage \ {"forward"}, Return(c, p) \/ Then(c, p) \/ Goto(c, p) PROVE FALSE
                BY <1>1, <3>1, <4>2 DEF Return, Then, Goto
            <4>3. {"fetch", "check", "abort", "write", "undo", "add", "commit", "discard", "push", "drop", "rebase", "refetch"} \subseteq Stage \ {"forward"}
                BY DEF Stage, InThread
            <4>4. ~Acquire(c) /\ ~Forward(c) /\ ~Check(c)
                BY <4>1, <4>2, <4>3 DEF Acquire, Forward, Check
            <4>5. ~\E f \in Fact : WriteFile(c, f)
                BY <4>1, <4>2, <4>3 DEF WriteFile
            <4>6. ~CommitStaged(c)
                BY <4>2, <4>3, CommitStagedShape
            <4>7. ~Add(c) /\ ~Push(c) /\ ~OutOfTries(c) /\ ~Refetch(c)
                BY <4>1, <4>2, <4>3 DEF Add, Push, OutOfTries, Refetch
            <4>8. ~Rebase(c) /\ ~Drop(c) /\ ~Undo(c)
                BY <4>1, <4>2, <4>3 DEF Rebase, Drop, Undo
            <4> QED BY <2>2, <4>4, <4>5, <4>6, <4>7, <4>8 DEF Proceed
        <3>4. ~Finish(c, "failed")
            BY <1>1, <3>1 DEF Finish, Goto
        <3>5. tracking' = remote /\ remote' = remote
            BY <3>3, <3>4 DEF Fetch
        <3> QED BY <3>5
    <2>3. CASE pc'[c] = pc[c] /\ Still
        BY <1>1, <2>3 DEF Fetched, Still, By
    <2>4. CASE pc'[c] = pc[c] /\ Joins
        <3>1. \A d \in Call : By(d, remote') = By(d, remote)
            BY <2>4, JoinsKeepsBy
        <3>2. tracking' = tracking
            BY <2>4, JoinsShape DEF clone
        <3> QED BY <1>1, <2>4, <3>1, <3>2 DEF Fetched, By
    <2> QED BY <2>1, <2>2, <2>3, <2>4, Uninterrupted
<1> QED BY <1>1 DEF Fetched, By

\* How a call comes to be where its clone must be current.
LEMMA BecomesCurrent ==
    ASSUME TypeOK, NEW c \in Call, Proceed(c), pc'[c] \in Current
    PROVE  Forward(c) \/ (pc[c] \in Current /\ UNCHANGED <<remote, tracking, local>>)
<1>1. pc \in [Call -> Stage]
    BY DEF TypeOK
<1>2. ASSUME NEW a, Finish(c, a) PROVE FALSE
    BY <1>1, <1>2 DEF Finish, Goto, Current
<1>3. ASSUME NEW p \in Stage \ Current, Return(c, p) \/ Then(c, p) \/ Goto(c, p) PROVE FALSE
    BY <1>1, <1>3 DEF Return, Then, Goto, Current
<1>4. {"fetch", "forward", "abort", "undo", "discard", "push", "drop", "rebase", "refetch"} \subseteq Stage \ Current
    BY DEF Stage, InThread, Current
<1>5. ~Acquire(c) /\ ~Fetch(c)
    BY <1>2, <1>3, <1>4 DEF Acquire, Fetch
<1>6. ~CommitStaged(c)
    BY <1>3, <1>4, CommitStagedShape
<1>7. ~Push(c) /\ ~OutOfTries(c) /\ ~Refetch(c)
    BY <1>2, <1>3, <1>4 DEF Push, OutOfTries, Refetch
<1>8. ~Rebase(c) /\ ~Drop(c) /\ ~Undo(c)
    BY <1>2, <1>3, <1>4 DEF Rebase, Drop, Undo
<1>9. CASE Check(c) \/ (\E f \in Fact : WriteFile(c, f)) \/ Add(c)
    BY <1>9 DEF Check, WriteFile, Add, Current, clone
<1> QED BY <1>5, <1>6, <1>7, <1>8, <1>9 DEF Proceed

LEMMA UpToDateStays ==
    ASSUME TypeOK, Core, Fetched, Known, UpToDate, [Next]_vars, Quiet, Quiet'
    PROVE  UpToDate'
<1>0. Len(tracking) \in Nat /\ Len(local) \in Nat /\ tracking \in Seq(Commit) /\ local \in Seq(Commit)
    BY BranchesTyped
<1>1. ASSUME NEW c \in Call, pc'[c] \in Current
      PROVE  \A d \in Call : By(d, remote') # {} => By(d, local') # {}
    <2>1. pc'[c] \in Busy
        BY <1>1 DEF Busy, InThread, Current
    <2>2. CASE Proceed(c)
        <3>1. CASE Forward(c)
            <4>1. pc[c] = "forward" /\ remote' = remote
                BY <3>1 DEF Forward
            <4>2. \A d \in Call : By(d, remote) # {} => By(d, tracking) # {}
                BY <4>1 DEF Fetched
            <4>3. CASE MoveTo(tracking)
                BY <4>1, <4>2, <4>3 DEF MoveTo
            <4>4. CASE ~IsStrictPrefix(local, tracking) /\ UNCHANGED local
                <5>1. ASSUME Extends(tracking, local) PROVE local = tracking
                    <6>1. IsPrefix(local, tracking)
                        BY <1>0, <5>1, PrefixMeaning DEF Extends
                    <6> QED BY <4>4, <6>1 DEF IsStrictPrefix
                <5> QED BY <4>1, <4>2, <4>4, <5>1 DEF Known
            <4>5. ~Finish(c, "failed")
                BY <1>1 DEF Finish, Goto, TypeOK, Current
            <4> QED BY <3>1, <4>3, <4>4, <4>5 DEF Forward
        <3>2. CASE pc[c] \in Current /\ UNCHANGED <<remote, tracking, local>>
            BY <3>2 DEF UpToDate
        <3> QED BY <1>1, <2>2, <3>1, <3>2, BecomesCurrent
    <2>3. CASE pc'[c] = pc[c] /\ Still
        BY <1>1, <2>3 DEF UpToDate, Still, By
    <2>4. CASE pc'[c] = pc[c] /\ Joins
        <3>1. \A d \in Call : By(d, remote') = By(d, remote)
            BY <2>4, JoinsKeepsBy
        <3>2. local' = local
            BY <2>4, JoinsShape DEF clone
        <3> QED BY <1>1, <2>4, <3>1, <3>2 DEF UpToDate, By
    <2> QED BY <2>1, <2>2, <2>3, <2>4, Uninterrupted
<1> QED BY <1>1 DEF UpToDate, By

\* What a rebase replays is on the clone's branch, after the common part.
LEMMA ReplayedFrom ==
    ASSUME TypeOK, NEW p, p = Shared(local, tracking), NEW m, m = Len(tracking), NEW t, t = Replay, NEW i \in 1..Len(t)
    PROVE  \/ i <= m /\ \A k \in 1..i : t[k] = tracking[k]
           \/ i > m /\ p + (i - m) \in 1..Len(local) /\ p + (i - m) > p /\ t[i] = local[p + (i - m)]
<1>1. /\ p \in Nat /\ p <= Len(local) /\ Len(t) = m + (Len(local) - p)
      /\ \A k \in 1..m : t[k] = tracking[k]
      /\ \A k \in 1..Len(local) - p : t[m + k] = local[p + k]
    BY ReplayShape
<1>2. Len(local) \in Nat /\ m \in Nat
    BY BranchesTyped
<1>3. CASE i <= m
    BY <1>1, <1>2, <1>3
<1>4. CASE ~(i <= m)
    <2>1. i - m \in 1..Len(local) - p /\ m + (i - m) = i /\ p + (i - m) \in 1..Len(local) /\ p + (i - m) > p
        BY <1>1, <1>2, <1>4
    <2>2. t[m + (i - m)] = local[p + (i - m)]
        BY <1>1, <2>1
    <2> QED BY <1>2, <1>4, <2>1, <2>2
<1> QED BY <1>3, <1>4

LEMMA AfterShared ==
    ASSUME TypeOK, LocalIsOurs, NEW j \in 1..Len(local), j > Shared(local, tracking)
    PROVE  Ours(local[j])
<1>1. \A n \in Nat : n <= Len(local) /\ n <= Len(tracking) /\ (\A k \in 1..n : local[k] = tracking[k]) => n <= Shared(local, tracking)
    BY ReplayShape
<1>2. Len(local) \in Nat /\ Shared(local, tracking) \in Nat
    BY BranchesTyped, ReplayShape
<1>3. ~(j <= Len(tracking) /\ \A k \in 1..j : local[k] = tracking[k])
    BY <1>1, <1>2
<1> QED BY <1>3 DEF LocalIsOurs

LEMMA OursStays ==
    ASSUME TypeOK, TypeOK', LocalIsOurs, Kept, Extends(remote, tracking),
           Still \/ (\E c \in Call : MovesOf(c)) \/ Joins
    PROVE  LocalIsOurs'
<1>0. Len(remote) \in Nat /\ Len(tracking) \in Nat /\ Len(local) \in Nat
    BY BranchesTyped
<1>1. CASE Still \/ Joins
    <2>1. UNCHANGED <<tracking, local>>
        BY <1>1, JoinsShape DEF Still, clone
    <2> QED BY <2>1 DEF LocalIsOurs
<1>2. ASSUME NEW c \in Call, MovesOf(c) PROVE LocalIsOurs'
    <2>1. CASE Reads
        <3>1. tracking' = remote /\ local' = local
            BY <2>1 DEF Reads
        <3> QED BY <1>0, <3>1 DEF LocalIsOurs, Extends
    <2>2. CASE Moves(tracking) \/ Resets
        <3>1. local' = tracking /\ tracking' = tracking
            BY <2>2 DEF Moves, MoveTo, Resets, ResetHard
        <3> QED BY <1>0, <3>1 DEF LocalIsOurs
    <2>3. CASE Moves(Replay)
        <3>1. local' = Replay /\ tracking' = tracking
            BY <2>3 DEF Moves, MoveTo
        <3>2. ASSUME NEW i \in 1..Len(Replay)
              PROVE  (i <= Len(tracking) /\ \A k \in 1..i : Replay[k] = tracking[k]) \/ Ours(Replay[i])
            BY ReplayedFrom, AfterShared
        <3> QED BY <3>1, <3>2 DEF LocalIsOurs
    <2>4. CASE (\E f \in Fact : Writes(c, f)) \/ Add(c)
        BY <2>4 DEF Writes, Add, LocalIsOurs
    <2>5. CASE Commits
        <3>1. tracking' = tracking /\ local' = Append(local, NewCommit)
            BY <2>5 DEF Commits
        <3>2. Len(local') = Len(local) + 1 /\ (\A k \in 1..Len(local) : local'[k] = local[k]) /\ local'[Len(local) + 1] = NewCommit
            BY <3>1, CommitAdds
        <3>3. Ours(NewCommit)
            BY DEF Ours, NewCommit, Kept, Clean, ByCalls, Uncommitted
        <3> QED BY <1>0, <3>1, <3>2, <3>3 DEF LocalIsOurs
    <2>6. CASE Lands
        <3>1. tracking' \in {tracking, local} /\ local' = local
            BY <2>6 DEF Lands
        <3> QED BY <1>0, <3>1 DEF LocalIsOurs
    <2> QED BY <1>2, <2>1, <2>2, <2>3, <2>4, <2>5, <2>6 DEF MovesOf
<1> QED BY <1>1, <1>2

\* The tip of the clone's branch after its next commit.
LEMMA TipAfterCommit ==
    ASSUME TypeOK, Commits, NEW f \in Fact
    PROVE  TreeOf(local')[f] = index[f]
<1>1. local \in Seq(Commit) /\ NewCommit \in Commit /\ local' = Append(local, NewCommit)
    BY NewCommitTyped DEF TypeOK, Commits
<1>2. TreeOf(Append(local, NewCommit))[f] = IF f \in DOMAIN NewCommit THEN NewCommit[f] ELSE TreeOf(local)[f]
    BY <1>1, TreeOfAppend
<1>3. f \in DOMAIN NewCommit <=> Uncommitted(f)
    BY DEF NewCommit
<1>4. f \in DOMAIN NewCommit => NewCommit[f] = index[f]
    BY DEF NewCommit
<1> QED BY <1>1, <1>2, <1>3, <1>4 DEF Uncommitted

LEMMA KeptStays ==
    ASSUME TypeOK, Kept, Still \/ (\E c \in Call : MovesOf(c)) \/ Joins
    PROVE  Kept'
<1>1. CASE Still \/ Joins
    <2>1. UNCHANGED <<local, index, tree>>
        BY <1>1, JoinsShape DEF Still, clone
    <2> QED BY <2>1 DEF Kept, Clean, ByCalls, Uncommitted, TreeOf
<1>2. ASSUME NEW c \in Call, MovesOf(c), NEW f \in Fact PROVE (Clean(f) \/ ByCalls(f))'
    <2>0. Clean(f) \/ ByCalls(f)
        BY DEF Kept
    <2>1. CASE Reads \/ Lands
        BY <2>0, <2>1 DEF Reads, Lands, Clean, ByCalls, Uncommitted, TreeOf
    <2>2. ASSUME NEW h, MoveTo(h) PROVE (Clean(f) \/ ByCalls(f))'
        <3>1. /\ local' = h
              /\ index'[f] = IF f \in Changed(local, h) THEN TreeOf(h)[f] ELSE index[f]
              /\ tree'[f] = IF f \in Changed(local, h) THEN TreeOf(h)[f] ELSE tree[f]
            BY <2>2 DEF MoveTo
        <3>2. f \notin Changed(local, h) => TreeOf(h)[f] = TreeOf(local)[f]
            BY DEF Changed
        <3>3. TreeOf(local)' = TreeOf(h)
            BY <3>1 DEF TreeOf
        <3> QED BY <2>0, <3>1, <3>2, <3>3 DEF Clean, ByCalls, Uncommitted
    <2>3. ASSUME NEW g \in Fact, Writes(c, g) PROVE (Clean(f) \/ ByCalls(f))'
        <3>1. UNCHANGED <<local, index>> /\ (tree'[f] = tree[f] \/ tree'[f].by = c)
            BY <2>3 DEF Writes, Written, TypeOK
        <3>2. TreeOf(local)' = TreeOf(local)
            BY <3>1 DEF TreeOf
        <3> QED BY <2>0, <3>1, <3>2 DEF Clean, ByCalls, Uncommitted
    <2>4. CASE Add(c)
        <3>1. UNCHANGED <<local, tree>> /\ index'[f] \in {index[f], tree[f]}
            BY <2>4 DEF Add
        <3>2. TreeOf(local)' = TreeOf(local)
            BY <3>1 DEF TreeOf
        <3> QED BY <2>0, <3>1, <3>2 DEF Clean, ByCalls, Uncommitted
    <2>5. CASE Commits
        <3>1. TreeOf(local')[f] = index[f] /\ UNCHANGED <<index, tree>>
            BY <2>5, TipAfterCommit DEF Commits
        <3>2. TreeOf(local)' = TreeOf(local')
            BY DEF TreeOf
        <3> QED BY <2>0, <3>1, <3>2 DEF Clean, ByCalls, Uncommitted
    <2>6. CASE Resets
        <3>1. /\ local' = tracking /\ index'[f] = TreeOf(tracking)[f]
              /\ tree'[f] = IF Untracked(f) /\ TreeOf(tracking)[f] = Absent THEN tree[f] ELSE TreeOf(tracking)[f]
            BY <2>6 DEF Resets, ResetHard
        <3>2. TreeOf(local)' = TreeOf(tracking)
            BY <3>1 DEF TreeOf
        <3>3. Untracked(f) => ~Clean(f)
            BY DEF Untracked, Clean
        <3> QED BY <2>0, <3>1, <3>2, <3>3 DEF Clean, ByCalls, Uncommitted
    <2> QED BY <1>2, <2>1, <2>2, <2>3, <2>4, <2>5, <2>6 DEF MovesOf, Moves
<1>3. (\E c \in Call : MovesOf(c)) => \A f \in Fact : (Clean(f) \/ ByCalls(f))'
    BY <1>2
<1> QED BY <1>1, <1>3 DEF Kept

RetiredIn(f, h) == \A i \in 1..Len(h) : f \in DOMAIN h[i] => Retired(h[i][f])

LEMMA TipRetired ==
    ASSUME NEW h, Len(h) \in Nat, NEW f \in Fact, RetiredIn(f, h)
    PROVE  Retired(TreeOf(h)[f])
<1>1. Retired(Absent)
    BY GitAssumption DEF Retired, Absent
<1> QED BY <1>1, TreeOfShape DEF RetiredIn

LEMMA RetiredStays ==
    ASSUME TypeOK, TypeOK', SeededRetired, NewIsFresh, Still \/ (\E c \in Call : MovesOf(c)) \/ Joins
    PROVE  SeededRetired'
<1> SUFFICES ASSUME NEW f \in Seeded
             PROVE  Retired(tree'[f]) /\ Retired(index'[f]) /\ \A h \in Branches' : RetiredIn(f, h)
    BY DEF SeededRetired, RetiredIn, Retired
<1>0. /\ f \in Fact /\ Len(tracking) \in Nat /\ Len(local) \in Nat
      /\ Retired(tree[f]) /\ Retired(index[f])
      /\ RetiredIn(f, remote) /\ RetiredIn(f, tracking) /\ RetiredIn(f, local)
    BY BranchesTyped, GitAssumption DEF SeededRetired, RetiredIn, Branches
<1>1. CASE Still
    BY <1>0, <1>1 DEF Still, Branches
<1>2. ASSUME NEW c \in Call, MovesOf(c)
      PROVE  Retired(tree'[f]) /\ Retired(index'[f]) /\ RetiredIn(f, remote') /\ RetiredIn(f, tracking') /\ RetiredIn(f, local')
    <2>1. CASE Reads \/ Lands
        BY <1>0, <2>1 DEF Reads, Lands
    <2>2. ASSUME NEW h, Len(h) \in Nat, RetiredIn(f, h), Moves(h)
          PROVE  Retired(tree'[f]) /\ Retired(index'[f]) /\ RetiredIn(f, remote') /\ RetiredIn(f, tracking') /\ RetiredIn(f, local')
        <3>1. Retired(TreeOf(h)[f])
            BY <1>0, <2>2, TipRetired
        <3>2. tree'[f] \in {tree[f], TreeOf(h)[f]} /\ index'[f] \in {index[f], TreeOf(h)[f]}
            BY <1>0, <2>2, MoveFiles DEF Moves
        <3> QED BY <1>0, <2>2, <3>1, <3>2 DEF Moves, MoveTo
    <2>3. Moves(tracking) => Retired(tree'[f]) /\ Retired(index'[f]) /\ RetiredIn(f, remote') /\ RetiredIn(f, tracking') /\ RetiredIn(f, local')
        BY <1>0, <2>2
    <2>4. Moves(Replay) => Retired(tree'[f]) /\ Retired(index'[f]) /\ RetiredIn(f, remote') /\ RetiredIn(f, tracking') /\ RetiredIn(f, local')
        <3>1. ASSUME NEW t, t = Replay, NEW i \in 1..Len(t), f \in DOMAIN t[i] PROVE Retired(t[i][f])
            <4>1. \/ \A k \in 1..i : t[k] = tracking[k] /\ i <= Len(tracking)
                  \/ \E j \in 1..Len(local) : t[i] = local[j]
                BY <3>1, ReplayedFrom
            <4>2. i \in 1..i
                BY <3>1
            <4> QED BY <1>0, <3>1, <4>1, <4>2 DEF RetiredIn
        <3>2. RetiredIn(f, Replay)
            BY <3>1 DEF RetiredIn
        <3> QED BY <2>2, <3>2, ReplayGoesOn
    <2>5. ASSUME NEW g \in Fact, Writes(c, g) PROVE Retired(tree'[f])
        <3>1. CASE f = g
            <4>1. f \notin want[c].new
                BY DEF NewIsFresh
            <4>2. tree'[f] = Written(c, "invalidated")
                BY <1>0, <2>5, <3>1, <4>1 DEF Writes, TypeOK
            <4> QED BY <4>2 DEF Written, Retired
        <3>2. CASE f # g
            BY <1>0, <2>5, <3>2 DEF Writes, TypeOK
        <3> QED BY <3>1, <3>2
    <2>6. (\E g \in Fact : Writes(c, g)) => UNCHANGED <<remote, tracking, local, index>>
        BY DEF Writes
    <2>7. CASE Add(c)
        <3>1. index'[f] \in {index[f], tree[f]} /\ UNCHANGED <<remote, tracking, local, tree>>
            BY <1>0, <2>7 DEF Add
        <3> QED BY <1>0, <3>1
    <2>8. CASE Commits
        <3>1. UNCHANGED <<remote, tracking, index, tree>> /\ local' = Append(local, NewCommit)
            BY <2>8 DEF Commits
        <3>2. Len(local') = Len(local) + 1 /\ (\A k \in 1..Len(local) : local'[k] = local[k]) /\ local'[Len(local) + 1] = NewCommit
            BY <3>1, CommitAdds
        <3>3. f \in DOMAIN NewCommit => Retired(NewCommit[f])
            BY <1>0 DEF NewCommit
        <3>4. RetiredIn(f, local')
            BY <1>0, <3>2, <3>3 DEF RetiredIn
        <3> QED BY <1>0, <3>1, <3>4
    <2>9. CASE Resets
        <3>1. UNCHANGED <<remote, tracking>> /\ local' = tracking /\ index'[f] = TreeOf(tracking)[f] /\ tree'[f] \in {tree[f], TreeOf(tracking)[f]}
            BY <1>0, <2>9 DEF Resets, ResetHard
        <3> QED BY <1>0, <3>1, TipRetired
    <2> QED BY <1>0, <1>2, <2>1, <2>3, <2>4, <2>5, <2>6, <2>7, <2>8, <2>9 DEF MovesOf
<1>3. CASE Joins
    <2>1. /\ UNCHANGED <<tracking, local, index, tree>>
          /\ Len(remote') = Len(remote) + 1
          /\ \A k \in 1..Len(remote) : remote'[k] = remote[k]
          /\ \A g \in DOMAIN remote'[Len(remote) + 1] : remote'[Len(remote) + 1][g].by \notin Call
        BY <1>3, JoinsShape DEF clone
    <2>2. Len(remote) \in Nat
        BY BranchesTyped
    <2>3. RetiredIn(f, remote')
        BY <1>0, <2>1, <2>2 DEF RetiredIn, Retired
    <2> QED BY <1>0, <2>1, <2>3 DEF Branches
<1> QED BY <1>1, <1>2, <1>3 DEF Branches

\* What a call of the feedback adds is a new fact.
LEMMA FreshStays ==
    ASSUME TypeOK, NewIsFresh, FeedbackMoves
    PROVE  NewIsFresh'
<1>1. ASSUME NEW d \in Call, NEW new, new \subseteq FreshFact, NEW old, NEW expect, Begin(d, new, old, expect) PROVE NewIsFresh'
    <2>1. want' = [want EXCEPT ![d] = [new |-> new, old |-> old, expect |-> expect]]
        BY <1>1 DEF Begin
    <2>2. want'[d].new = new /\ \A c \in Call \ {d} : want'[c] = want[c]
        BY <2>1 DEF TypeOK
    <2> QED BY <1>1, <2>2 DEF NewIsFresh, FreshFact
<1>2. ASSUME UNCHANGED want PROVE NewIsFresh'
    BY <1>2 DEF NewIsFresh
<1>3. CASE \E r \in Request, s \in State : Alters(r, s)
    BY <1>2, <1>3 DEF Alters, vars, calls
<1>4. CASE \E r \in Request, f \in Seeded : Makes(r, f)
    BY <1>2, <1>4 DEF Makes, vars, calls
<1>5. ASSUME NEW r \in Request, NEW c \in Call, NEW new \in FreshFact, Attempts(r, c, new) PROVE NewIsFresh'
    <2>1. {new} \subseteq FreshFact
        OBVIOUS
    <2> QED BY <1>1, <1>5, <2>1 DEF Attempts
<1>6. CASE Resumes \/ UNCHANGED allVars
    BY <1>2, <1>6 DEF Resumes, Crash, allVars, vars, calls
<1>7. CASE OtherCall
    <2>1. ASSUME NEW c \in Call, NEW new \in AtMostOne(FreshFact), NEW old, Begin(c, new, old, {}) PROVE NewIsFresh'
        BY <1>1, <2>1 DEF AtMostOne
    <2>2. ASSUME NEW c \in Call, Proceed(c) PROVE NewIsFresh'
        BY <1>2, <2>2, CallsGoOn
    <2>3. ASSUME NEW f, NEW s, PushByOther(f, s) PROVE NewIsFresh'
        BY <1>2, <2>3 DEF PushByOther, calls
    <2> QED BY <1>7, <2>1, <2>2, <2>3 DEF OtherCall
<1> QED BY <1>3, <1>4, <1>5, <1>6, <1>7 DEF FeedbackMoves

\* The feedback neither cancels a call nor rewrites the remote.
LEMMA QuietStays ==
    ASSUME TypeOK, Quiet, FeedbackMoves
    PROVE  Quiet'
<1>1. ASSUME NEW e \in {"push", "crash", "cut", "disk"}, Spend(e) PROVE Quiet'
    <2>1. used \in [Event -> Nat] /\ used' = [used EXCEPT ![e] = @ + 1] /\ {"cancel", "rewrite"} \subseteq Event
        BY <1>1 DEF TypeOK, Spend, Event
    <2>2. used'["cancel"] = used["cancel"] /\ used'["rewrite"] = used["rewrite"]
        BY <2>1
    <2> QED BY <2>2 DEF Quiet
<1>2. ASSUME UNCHANGED used PROVE Quiet'
    BY <1>2 DEF Quiet
<1>3. CASE (\E r \in Request, s \in State : Alters(r, s)) \/ (\E r \in Request, f \in Seeded : Makes(r, f)) \/ UNCHANGED allVars
    BY <1>2, <1>3 DEF Alters, Makes, allVars, vars
<1>4. ASSUME NEW c \in Call, NEW new, NEW old, NEW expect, Begin(c, new, old, expect) PROVE Quiet'
    BY <1>2, <1>4 DEF Begin
<1>5. CASE \E r \in Request, c \in Call, new \in FreshFact : Attempts(r, c, new)
    BY <1>4, <1>5 DEF Attempts
<1>6. CASE Resumes
    BY <1>1, <1>6 DEF Resumes, Crash
<1>7. ASSUME NEW c \in Call, Proceed(c) PROVE Quiet'
    <2>1. CASE Fetch(c) \/ Push(c) \/ Refetch(c)
        BY <1>1, <1>2, <2>1 DEF Fetch, Push, Refetch
    <2>2. ASSUME NEW f \in Fact, WriteFile(c, f) PROVE Quiet'
        BY <1>1, <1>2, <2>2 DEF WriteFile
    <2>3. CASE Acquire(c) \/ Forward(c) \/ Check(c) \/ Add(c) \/ CommitStaged(c) \/ OutOfTries(c) \/ Rebase(c) \/ Drop(c) \/ Undo(c)
        BY <1>2, <2>3 DEF Acquire, Forward, Check, Add, CommitStaged, OutOfTries, Rebase, Drop, Undo
    <2> QED BY <1>7, <2>1, <2>2, <2>3 DEF Proceed
<1>8. CASE OtherCall
    <2>1. ASSUME NEW f, NEW s, PushByOther(f, s) PROVE Quiet'
        BY <1>1, <2>1 DEF PushByOther
    <2> QED BY <1>4, <1>7, <1>8, <2>1 DEF OtherCall
<1> QED BY <1>3, <1>5, <1>6, <1>8 DEF FeedbackMoves

\* Together: what the clone keeps to while the feedback works in it.
LEMMA CloneStaysApart ==
    ASSUME TypeOK, TypeOK', Core, CloneInv, [Next]_vars, FeedbackMoves
    PROVE  CloneInv'
<1>1. Quiet /\ Quiet'
    BY QuietStays DEF CloneInv
<1>2. Still \/ (\E c \in Call : MovesOf(c)) \/ Joins
    BY <1>1, WriterMoves
<1>3. Extends(remote, tracking)'
    BY <1>2, RemoteGoesOn DEF CloneInv
<1>4. Known' /\ Fetched' /\ UpToDate'
    BY <1>1, <1>2, KnownStays, FetchedStays, UpToDateStays DEF CloneInv
<1>5. LocalIsOurs' /\ Kept'
    BY <1>2, OursStays, KeptStays DEF CloneInv
<1>6. SeededRetired' /\ NewIsFresh'
    BY <1>2, RetiredStays, FreshStays DEF CloneInv
<1> QED BY <1>1, <1>3, <1>4, <1>5, <1>6 DEF CloneInv

-----------------------------------------------------------------------------
(* The attempts of a request                                               *)

\* What a call has not staged is staged by its own git add only.
LEMMA UnstagedStays ==
    ASSUME TypeOK, TypeOK', Core, NEW c \in Call, Unstaged(c), pc[c] # "add",
           Still \/ (\E d \in Call : MovesOf(d)) \/ Joins
    PROVE  Unstaged(c)'
<1>0. /\ Len(remote) \in Nat /\ Len(tracking) \in Nat /\ Len(local) \in Nat
      /\ By(c, remote) = {} /\ By(c, tracking) = {} /\ By(c, local) = {}
      /\ \A f \in Fact : index[f].by # c
    BY BranchesTyped DEF Unstaged, Nowhere, Branches
<1> SUFFICES /\ By(c, remote') = {} /\ By(c, tracking') = {} /\ By(c, local') = {}
             /\ \A f \in Fact : index'[f].by # c
    BY DEF Unstaged, Nowhere, Branches, By
<1>1. CASE Still
    BY <1>0, <1>1 DEF Still
<1>2. CASE Joins
    BY <1>0, <1>2, JoinsShape, JoinsKeepsBy DEF clone
<1>3. ASSUME NEW h, Len(h) \in Nat, By(c, h) = {}, NEW f \in Fact PROVE TreeOf(h)[f].by # c
    BY <1>3, TreeIsCommitted
<1>4. ASSUME NEW d \in Call, MovesOf(d)
      PROVE  /\ By(c, remote') = {} /\ By(c, tracking') = {} /\ By(c, local') = {}
             /\ \A f \in Fact : index'[f].by # c
    <2>1. CASE Reads \/ Lands \/ \E f \in Fact : Writes(d, f)
        BY <1>0, <2>1 DEF Reads, Lands, Writes
    <2>2. ASSUME NEW h, Len(h) \in Nat, By(c, h) = {}, Moves(h)
          PROVE  /\ By(c, remote') = {} /\ By(c, tracking') = {} /\ By(c, local') = {}
                 /\ \A f \in Fact : index'[f].by # c
        <3>1. \A f \in Fact : index'[f] \in {index[f], TreeOf(h)[f]}
            BY <2>2, MoveFiles DEF Moves
        <3>2. \A f \in Fact : index'[f].by # c
            BY <1>0, <1>3, <2>2, <3>1
        <3> QED BY <1>0, <2>2, <3>2 DEF Moves, MoveTo
    <2>3. By(c, Replay) = {}
        <3>1. \A k : k \notin By(c, Replay)
            BY <1>0, ReplayedCommits
        <3> QED BY <3>1
    <2>4. CASE Moves(tracking) \/ Moves(Replay)
        BY <1>0, <2>2, <2>3, <2>4, ReplayGoesOn
    <2>5. CASE Add(d)
        <3>1. d # c /\ \A f \in Files(d) : tree[f].by = d
            BY <2>5 DEF Add, Core, Progress, ProgressOf
        <3>2. \A f \in Fact : index'[f].by # c
            BY <1>0, <2>5, <3>1 DEF Add, Added
        <3> QED BY <1>0, <2>5, <3>2 DEF Add
    <2>6. CASE Commits
        <3>1. ~Staged(c)
            BY <1>0 DEF Staged
        <3>2. UNCHANGED <<remote, tracking, index>> /\ local' = Append(local, NewCommit)
            BY <2>6 DEF Commits
        <3>3. By(c, local') = By(c, local)
            BY <3>1, <3>2, CommitAdds
        <3> QED BY <1>0, <3>2, <3>3
    <2>7. CASE Resets
        <3>1. UNCHANGED <<remote, tracking>> /\ local' = tracking /\ index' = TreeOf(tracking)
            BY <2>7 DEF Resets, ResetHard
        <3> QED BY <1>0, <1>3, <3>1
    <2> QED BY <1>4, <2>1, <2>4, <2>5, <2>6, <2>7 DEF MovesOf
<1> QED BY <1>1, <1>2, <1>4

\* After c's commit, h never has f as b again.
SupersededIn(c, f, b, h) == \A i \in By(c, h) : \A j \in i..Len(h) : f \in DOMAIN h[j] => h[j][f] # b

\* Nobody puts content back that is not a call's: others' commits are new, and what
\* the clone adds or replays is its calls'.
LEMMA SupersededStays ==
    ASSUME TypeOK, TypeOK', LocalIsOurs, Kept, Still \/ (\E d \in Call : MovesOf(d)) \/ Joins,
           NEW c \in Call, NEW f \in Fact, NEW b \in Content, b.by \notin Call,
           \A h \in Branches : SupersededIn(c, f, b, h)
    PROVE  \A h \in Branches' : SupersededIn(c, f, b, h)
<1>0. /\ Len(remote) \in Nat /\ Len(tracking) \in Nat /\ Len(local) \in Nat
      /\ SupersededIn(c, f, b, remote) /\ SupersededIn(c, f, b, tracking) /\ SupersededIn(c, f, b, local)
    BY BranchesTyped DEF Branches
<1> SUFFICES SupersededIn(c, f, b, remote') /\ SupersededIn(c, f, b, tracking') /\ SupersededIn(c, f, b, local')
    BY DEF Branches
<1>1. CASE Still
    BY <1>0, <1>1 DEF Still
<1>2. CASE Joins
    <2> DEFINE n == Len(remote)
    <2>1. /\ UNCHANGED <<tracking, local>> /\ Len(remote') = n + 1
          /\ \A k \in 1..n : remote'[k] = remote[k]
          /\ \A g \in DOMAIN remote'[n + 1] : remote'[n + 1][g].by \notin Author
        BY <1>2, JoinsShape DEF clone
    <2>2. By(c, remote') = By(c, remote)
        BY <1>2, JoinsKeepsBy
    <2>3. b.by \in Author
        BY DEF Content
    <2>4. SupersededIn(c, f, b, remote')
        <3>1. ASSUME NEW i \in By(c, remote), NEW j \in i..n + 1, f \in DOMAIN remote'[j] PROVE remote'[j][f] # b
            <4>1. i \in 1..n
                BY DEF By
            <4>2. CASE j = n + 1
                BY <2>1, <2>3, <3>1, <4>2
            <4>3. CASE j # n + 1
                <5>1. j \in i..n /\ j \in 1..n
                    BY <1>0, <4>1, <4>3
                <5> QED BY <1>0, <2>1, <3>1, <5>1 DEF SupersededIn
            <4> QED BY <4>2, <4>3
        <3> QED BY <2>1, <2>2, <3>1 DEF SupersededIn
    <2> QED BY <1>0, <2>1, <2>4
<1>3. ASSUME NEW d \in Call, MovesOf(d)
      PROVE  SupersededIn(c, f, b, remote') /\ SupersededIn(c, f, b, tracking') /\ SupersededIn(c, f, b, local')
    <2>1. CASE Reads \/ Lands \/ (\E g \in Fact : Writes(d, g)) \/ Add(d)
        BY <1>0, <2>1 DEF Reads, Lands, Writes, Add
    <2>2. CASE Moves(tracking) \/ Resets
        BY <1>0, <2>2 DEF Moves, MoveTo, Resets, ResetHard
    <2>3. CASE Moves(Replay)
        <3>1. ASSUME NEW p, p = Shared(local, tracking), NEW m, m = Len(tracking), NEW t, t = Replay
              PROVE  SupersededIn(c, f, b, t)
            <4>1. ASSUME NEW i \in By(c, t), NEW j \in i..Len(t), f \in DOMAIN t[j] PROVE t[j][f] # b
                <5>1. p \in Nat /\ m \in Nat /\ Len(t) \in Nat /\ i \in 1..Len(t) /\ j \in 1..Len(t)
                    <6>1. p \in Nat /\ m \in Nat
                        BY <3>1, ReplayShape
                    <6>2. Len(t) \in Nat
                        BY <3>1, ReplayGoesOn
                    <6>3. i \in 1..Len(t)
                        BY DEF By
                    <6> QED BY <6>1, <6>2, <6>3
                <5>2. CASE j > m
                    <6>1. p + (j - m) \in 1..Len(local) /\ p + (j - m) > p /\ t[j] = local[p + (j - m)]
                        BY <3>1, <5>1, <5>2, ReplayedFrom
                    <6>2. Ours(t[j])
                        BY <3>1, <6>1, AfterShared
                    <6> QED BY <4>1, <6>2 DEF Ours
                <5>3. CASE ~(j > m)
                    <6>1. j \in 1..m /\ t[j] = tracking[j] /\ i <= m
                        <7>1. \A k \in 1..m : t[k] = tracking[k]
                            BY <3>1, ReplayShape
                        <7>2. j \in 1..m /\ i <= j
                            BY <4>1, <5>1, <5>3
                        <7> QED BY <5>1, <7>1, <7>2
                    <6>2. i \in By(c, tracking)
                        <7>1. \/ i \in By(c, tracking)
                              \/ \E k \in By(c, local) : k > p /\ i = m + (k - p)
                            BY <3>1, <4>1, ReplayedCommits
                        <7>2. \A k \in By(c, local) : k \in Nat
                            BY DEF By
                        <7> QED BY <5>1, <6>1, <7>1, <7>2
                    <6>3. j \in i..Len(tracking)
                        BY <3>1, <4>1, <5>1, <6>1
                    <6> QED BY <1>0, <4>1, <6>1, <6>2, <6>3 DEF SupersededIn
                <5> QED BY <5>2, <5>3
            <4> QED BY <4>1 DEF SupersededIn
        <3>2. SupersededIn(c, f, b, Replay)
            BY <3>1
        <3> QED BY <1>0, <2>3, <3>2 DEF Moves, MoveTo
    <2>4. CASE Commits
        <3> DEFINE n == Len(local)
        <3>1. UNCHANGED <<remote, tracking>> /\ local' = Append(local, NewCommit)
            BY <2>4 DEF Commits
        <3>2. /\ Len(local') = n + 1 /\ (\A k \in 1..n : local'[k] = local[k]) /\ local'[n + 1] = NewCommit
              /\ \A i \in By(c, local') : i \in By(c, local) \/ i = n + 1
            BY <3>1, CommitAdds
        <3>3. Ours(NewCommit)
            BY DEF Ours, NewCommit, Kept, Clean, ByCalls, Uncommitted
        <3>4. ASSUME NEW i \in By(c, local'), NEW j \in i..n + 1, f \in DOMAIN local'[j] PROVE local'[j][f] # b
            <4>1. CASE j = n + 1
                BY <3>2, <3>3, <3>4, <4>1 DEF Ours
            <4>2. CASE j # n + 1
                <5>1. \A k \in By(c, local) : k \in 1..n
                    BY DEF By
                <5>2. i \in By(c, local) /\ j \in i..n /\ j \in 1..n
                    BY <1>0, <3>2, <4>2, <5>1
                <5> QED BY <1>0, <3>2, <3>4, <5>2 DEF SupersededIn
            <4> QED BY <4>1, <4>2
        <3>5. SupersededIn(c, f, b, local')
            BY <3>2, <3>4 DEF SupersededIn
        <3> QED BY <1>0, <3>1, <3>5
    <2> QED BY <1>3, <2>1, <2>2, <2>3, <2>4 DEF MovesOf
<1> QED BY <1>1, <1>2, <1>3

\* A call whose check finds the fact as the request was made for it is alone: what
\* another attempt had staged, or committed, would show in the working tree.
LEMMA CheckedAlone ==
    ASSUME TypeOK, Core, CloneInv, NEW c \in Call, NEW d \in Call, NEW f \in Fact, NEW b,
           b.by \notin Call, want[c].old = {f}, want[d].old = {f}, want[d].expect = {b},
           SupersededIn(c, f, b, local), pc[d] = "check", Acceptable(d)
    PROVE  Unstaged(c)
<1>1. tree[f] = b
    BY DEF Acceptable, Expected
<1>2. Clean(f)
    BY <1>1 DEF CloneInv, Kept, ByCalls
<1>3. f \in Files(c)
    BY DEF Files
<1>4. By(c, local) = {}
    <2> SUFFICES ASSUME By(c, local) # {} PROVE FALSE
        OBVIOUS
    <2>1. PICK i \in By(c, local) : TRUE
        OBVIOUS
    <2>2. i \in 1..Len(local) /\ f \in DOMAIN local[i]
        BY <1>3 DEF By, Core, Whole, WholeOf, Branches
    <2>3. Len(local) \in Nat
        BY BranchesTyped
    <2>4. PICK j \in 1..Len(local) : f \in DOMAIN local[j] /\ i <= j /\ TreeOf(local)[f] = local[j][f]
        BY <2>2, <2>3, TreeOfShape
    <2>5. j \in i..Len(local)
        BY <2>2, <2>3, <2>4
    <2>6. local[j][f] # b
        BY <2>1, <2>4, <2>5 DEF SupersededIn
    <2> QED BY <1>1, <1>2, <2>4, <2>6 DEF Clean
<1>5. Nowhere(c)
    <2>1. By(c, remote) = {}
        BY <1>4 DEF CloneInv, UpToDate, Current
    <2>2. By(c, tracking) = {}
        BY <2>1, BranchesTyped, ExtendsHas DEF CloneInv
    <2> QED BY <1>4, <2>1, <2>2 DEF Nowhere, Branches
<1>6. ASSUME NEW g \in Fact PROVE index[g].by # c
    <2>1. TreeOf(local)[g].by # c
        BY <1>4, BranchesTyped, TreeIsCommitted
    <2>2. ~Uncommitted(f)
        BY <1>2 DEF Clean, Uncommitted
    <2>3. ~Staged(c)
        BY <1>3, <2>2 DEF Core, StagedWhole
    <2> QED BY <2>1, <2>3 DEF Staged, Uncommitted
<1> QED BY <1>5, <1>6 DEF Unstaged

\* An attempt retires the request's fact, as it was when the request was made.
AttemptsFit(r) ==
    /\ request[r].state = "none" => request[r].attempts = {}
    /\ request[r].state # "none" => request[r].base.by \notin Call
    /\ \A c \in request[r].attempts : want[c].old = {request[r].fact} /\ want[c].expect = {request[r].base}

\* Once an attempt has its commit, the fact is never again what the request was made for.
Superseded(r) ==
    \A c \in request[r].attempts : \A h \in Branches : SupersededIn(c, request[r].fact, request[r].base, h)

\* Of two attempts one has staged nothing, and none writes while another has.
Apart(c, d) ==
    /\ Unstaged(c) \/ Unstaged(d)
    /\ pc[d] \in {"write", "add"} => Unstaged(c)
Alone(r) == \A c, d \in request[r].attempts : c # d => Apart(c, d)

RequestInv(r) == AttemptsFit(r) /\ Superseded(r) /\ Alone(r)
RequestsInv == \A r \in Request : RequestInv(r)

\* A call that has begun keeps what it wants.
LEMMA WantStays ==
    ASSUME TypeOK, [Next]_vars, NEW c \in Call, pc[c] # "idle"
    PROVE  want'[c] = want[c]
<1>1. ASSUME NEW d \in Call, NEW new, NEW old, NEW expect, Begin(d, new, old, expect) PROVE want'[c] = want[c]
    BY <1>1 DEF Begin, TypeOK
<1>2. ASSUME NEW d \in Call, Proceed(d) PROVE want'[c] = want[c]
    BY <1>2, CallsGoOn
<1>3. ASSUME NEW d \in Call, Cancel(d) PROVE want'[c] = want[c]
    BY <1>3 DEF Cancel
<1>4. ASSUME Outside PROVE want'[c] = want[c]
    BY <1>4 DEF Outside, PushByOther, RewriteRemote, Crash, calls
<1>5. ASSUME UNCHANGED vars PROVE want'[c] = want[c]
    BY <1>5 DEF vars, calls
<1> QED BY <1>1, <1>2, <1>3, <1>4, <1>5 DEF Next

\* What a step makes of one request.
Stays(r) ==
    /\ request'[r].fact = request[r].fact /\ request'[r].base = request[r].base
    /\ request'[r].attempts = request[r].attempts
    /\ request'[r].state = "none" <=> request[r].state = "none"

LEMMA RequestMoves ==
    ASSUME FeedbackTypeOK, FeedbackMoves, NEW q \in Request
    PROVE  \/ Stays(q)
           \/ \E f \in Seeded : Makes(q, f)
           \/ \E c \in Call, new \in FreshFact : Attempts(q, c, new)
<1>1. ASSUME NEW r \in Request, NEW s \in State, Alters(r, s) PROVE Stays(q)
    BY <1>1 DEF Alters, ChangesTo, Stays
<1>2. ASSUME NEW r \in Request, NEW f \in Seeded, Makes(r, f) PROVE Stays(q) \/ Makes(q, f)
    BY <1>2 DEF Makes, Stays
<1>3. ASSUME NEW r \in Request, NEW c \in Call, NEW new \in FreshFact, Attempts(r, c, new) PROVE Stays(q) \/ Attempts(q, c, new)
    BY <1>3 DEF Attempts, ChangesTo, Stays
<1>4. ASSUME Resumes PROVE Stays(q)
    BY <1>4 DEF Resumes, Resumed, Requeued, Stays
<1>5. ASSUME OtherCall \/ UNCHANGED allVars PROVE Stays(q)
    BY <1>5 DEF OtherCall, feedback, allVars, Stays
<1> QED BY <1>1, <1>2, <1>3, <1>4, <1>5 DEF FeedbackMoves

\* A call writes its files after a check.
LEMMA WritesAfterCheck ==
    ASSUME TypeOK, NEW d \in Call, Proceed(d), pc'[d] \in {"write", "add"}
    PROVE  pc[d] \in {"write", "add"} \/ (pc[d] = "check" /\ Acceptable(d))
<1>1. pc \in [Call -> Stage]
    BY DEF TypeOK
<1>2. CASE Forward(d)
    BY <1>1, <1>2 DEF Forward, Return, Finish, Goto
<1>3. CASE Check(d)
    BY <1>1, <1>3 DEF Check, Then, Finish, Goto
<1>4. CASE (\E f \in Fact : WriteFile(d, f)) \/ Add(d)
    BY <1>4 DEF WriteFile, Add
<1>5. CASE CommitStaged(d)
    BY <1>1, <1>5, CommitStagedShape DEF Return, Then, Goto
<1>6. pc'[d] \in Current /\ "fetch" \notin Current
    BY DEF Current
<1>7. Forward(d) \/ pc[d] \in Current
    BY <1>6, BecomesCurrent
<1>8. CASE pc[d] \in Current /\ ~Check(d) /\ ~CommitStaged(d) /\ ~Forward(d)
    <2>1. Undoing = [undo |-> "refused", abort |-> "error", discard |-> "conflict"]
        BY DEF Undoing
    <2>2. DOMAIN Undoing = {"undo", "abort", "discard"}
        BY <2>1
    <2>3. (\E f \in Fact : WriteFile(d, f)) \/ Add(d)
        BY <1>8, <2>2 DEF Proceed, Current, Acquire, Fetch, Push, OutOfTries, Refetch, Rebase, Drop, Undo
    <2> QED BY <1>4, <2>3
<1> QED BY <1>2, <1>3, <1>5, <1>7, <1>8

LEMMA ApartStays ==
    ASSUME TypeOK, TypeOK', Core, CloneInv, Quiet', [Next]_vars,
           NEW c \in Call, NEW d \in Call, c # d, Apart(c, d), Apart(d, c),
           NEW f \in Fact, NEW b, b.by \notin Call, want[c].old = {f}, want[d].old = {f}, want[d].expect = {b},
           SupersededIn(c, f, b, local)
    PROVE  Apart(c, d)'
<1>1. Still \/ (\E e \in Call : MovesOf(e)) \/ Joins
    BY WriterMoves DEF CloneInv
<1>2. pc[c] \in Busy => pc[d] \notin Busy
    BY DEF Core, OneThread
<1>3. \A s \in {"write", "add", "check"} : s \in Busy
    BY DEF Busy, InThread
<1>4. pc[c] = "add" => Unstaged(d)'
    <2>1. ASSUME pc[c] = "add" PROVE Unstaged(d) /\ pc[d] # "add"
        BY <1>2, <1>3, <2>1 DEF Apart
    <2> QED BY <1>1, <2>1, UnstagedStays
<1>5. pc[d] = "add" => Unstaged(c)'
    <2>1. ASSUME pc[d] = "add" PROVE Unstaged(c) /\ pc[c] # "add"
        BY <1>2, <1>3, <2>1 DEF Apart
    <2> QED BY <1>1, <2>1, UnstagedStays
<1>6. Unstaged(c)' \/ Unstaged(d)'
    BY <1>1, <1>4, <1>5, UnstagedStays DEF Apart
<1>7. ASSUME pc'[d] \in {"write", "add"} PROVE Unstaged(c)'
    <2>1. Proceed(d) \/ pc'[d] = pc[d]
        BY <1>3, <1>7, Uninterrupted DEF CloneInv
    <2>2. CASE pc[d] \in {"write", "add"}
        <3>1. Unstaged(c) /\ pc[c] # "add"
            BY <1>2, <1>3, <2>2 DEF Apart
        <3> QED BY <1>1, <3>1, UnstagedStays
    <2>3. CASE pc[d] = "check" /\ Acceptable(d)
        <3>1. Unstaged(c) /\ pc[c] # "add"
            BY <1>2, <1>3, <2>3, CheckedAlone
        <3> QED BY <1>1, <3>1, UnstagedStays
    <2> QED BY <1>7, <2>1, <2>2, <2>3, WritesAfterCheck
<1> QED BY <1>6, <1>7 DEF Apart

LEMMA RequestsStay ==
    ASSUME TypeOK, TypeOK', FeedbackTypeOK, Orderly, Core, CloneInv, Quiet', RequestsInv, [Next]_vars, FeedbackMoves
    PROVE  RequestsInv'
<1>1. Still \/ (\E e \in Call : MovesOf(e)) \/ Joins
    BY WriterMoves DEF CloneInv
<1>2. ASSUME NEW q \in Request PROVE RequestInv(q)'
    <2> DEFINE f == request[q].fact
               b == request[q].base
               A == request[q].attempts
    <2>1. /\ AttemptsFit(q) /\ Superseded(q) /\ Alone(q)
          /\ b \in Content /\ A \subseteq Call
          /\ request[q].state # "none" => f \in Fact
          /\ \A c \in A : pc[c] # "idle"
        BY GitAssumption DEF RequestsInv, RequestInv, FeedbackTypeOK, Record, Orderly
    <2>2. \A c \in A : want'[c] = want[c]
        BY <2>1, WantStays
    <2>3. A # {} => f \in Fact /\ b.by \notin Call
        BY <2>1 DEF AttemptsFit
    <2>4. ASSUME Stays(q) PROVE RequestInv(q)'
        <3>1. AttemptsFit(q)'
            BY <2>1, <2>2, <2>4 DEF Stays, AttemptsFit
        <3>2. \A c \in A : \A h \in Branches : SupersededIn(c, f, b, h)
            BY <2>1 DEF Superseded
        <3>3. \A c \in A : \A h \in Branches' : SupersededIn(c, f, b, h)
            BY <1>1, <2>1, <2>3, <3>2, SupersededStays DEF CloneInv
        <3>4. Superseded(q)'
            BY <2>4, <3>3 DEF Stays, Superseded
        <3>5. ASSUME NEW c \in A, NEW d \in A, c # d PROVE Apart(c, d)'
            <4>1. Apart(c, d) /\ Apart(d, c)
                BY <2>1, <3>5 DEF Alone
            <4>2. want[c].old = {f} /\ want[d].old = {f} /\ want[d].expect = {b} /\ c \in Call /\ d \in Call
                BY <2>1 DEF AttemptsFit
            <4>3. SupersededIn(c, f, b, local)
                BY <3>2 DEF Branches
            <4> QED BY <2>3, <3>5, <4>1, <4>2, <4>3, ApartStays
        <3>6. Alone(q)'
            BY <2>4, <3>5 DEF Stays, Alone
        <3> QED BY <3>1, <3>4, <3>6 DEF RequestInv
    <2>5. ASSUME NEW g \in Seeded, Makes(q, g) PROVE RequestInv(q)'
        <3>1. request'[q].attempts = {} /\ request'[q].state = "queued" /\ request'[q].base = tree[g] /\ tree[g].status = "active"
            BY <2>5 DEF Makes
        <3>2. tree[g].by \notin Call
            BY <3>1 DEF CloneInv, SeededRetired, Retired
        <3> QED BY <3>1, <3>2 DEF RequestInv, AttemptsFit, Superseded, Alone
    <2>6. ASSUME NEW c \in Call, NEW new \in FreshFact, Attempts(q, c, new) PROVE RequestInv(q)'
        <3>1. /\ request'[q].fact = f /\ request'[q].base = b /\ request'[q].attempts = A \cup {c}
              /\ request'[q].state = "applying" /\ request[q].state = "proposed"
              /\ Begin(c, {new}, {f}, {b})
            BY <2>6 DEF Attempts, ChangesTo
        <3>2. /\ pc[c] = "idle" /\ pc'[c] = "wait" /\ \A e \in Call \ {c} : pc'[e] = pc[e]
              /\ UNCHANGED <<remote, tracking, local, index, tree>>
              /\ want' = [want EXCEPT ![c] = [new |-> {new}, old |-> {f}, expect |-> {b}]]
            BY <3>1 DEF Begin, Goto, TypeOK, clone
        <3>3. want'[c].old = {f} /\ want'[c].expect = {b}
            BY <3>2 DEF TypeOK
        <3>4. b.by \notin Call
            BY <2>1, <3>1 DEF AttemptsFit
        <3>5. AttemptsFit(q)'
            BY <2>1, <2>2, <3>1, <3>3, <3>4 DEF AttemptsFit
        <3>6. Unstaged(c)
            BY <3>2 DEF Core, Progress, ProgressOf, Untouched
        <3>7. Branches' = Branches
            BY <3>2 DEF Branches
        <3>8. \A h \in Branches : SupersededIn(c, f, b, h)
            BY <3>6 DEF Unstaged, Nowhere, SupersededIn
        <3>9. Superseded(q)'
            BY <2>1, <3>1, <3>7, <3>8 DEF Superseded
        <3>10. \A e \in Call : Unstaged(e) => Unstaged(e)'
            BY <3>2, <3>7 DEF Unstaged, Nowhere
        <3>11. ASSUME NEW e \in A \cup {c}, NEW d \in A \cup {c}, e # d PROVE Apart(e, d)'
            <4>1. CASE d = c
                BY <3>2, <3>6, <3>10, <4>1 DEF Apart
            <4>2. CASE e = c
                BY <3>6, <3>10, <4>2 DEF Apart
            <4>3. CASE e \in A /\ d \in A /\ d # c
                <5>1. Apart(e, d) /\ pc'[d] = pc[d] /\ e \in Call /\ d \in Call
                    BY <2>1, <3>2, <3>11, <4>3 DEF Alone
                <5> QED BY <3>10, <5>1 DEF Apart
            <4> QED BY <4>1, <4>2, <4>3
        <3>12. Alone(q)'
            BY <3>1, <3>11 DEF Alone
        <3> QED BY <3>5, <3>9, <3>12 DEF RequestInv
    <2> HIDE DEF f, b, A
    <2> QED BY <2>4, <2>5, <2>6, RequestMoves
<1> QED BY <1>2 DEF RequestsInv

FeedbackInv == TypeOK /\ FeedbackTypeOK /\ Orderly /\ Core /\ CloneInv /\ RequestsInv

LEMMA FeedbackAtFirst ==
    ASSUME FeedbackInit
    PROVE  FeedbackInv
<1>1. TypeOK /\ FeedbackTypeOK /\ Orderly
    BY FeedbackTypedAtFirst
<1>2. Init
    BY DEF FeedbackInit
<1>3. Core
    BY <1>1, <1>2, CoreAtFirst
<1>4. Quiet
    BY <1>2 DEF Init, Quiet, Event
<1>5. tracking = remote /\ local = remote /\ index = TreeOf(remote) /\ tree = index /\ \A c \in Call : pc[c] = "idle"
    BY <1>2 DEF Init
<1>6. Len(remote) \in Nat
    BY <1>1, BranchesTyped
<1>7. Extends(remote, tracking) /\ Known /\ Fetched /\ UpToDate /\ LocalIsOurs
    BY <1>5, <1>6 DEF Extends, Known, Fetched, UpToDate, Current, LocalIsOurs
<1>8. Kept
    BY <1>5 DEF Kept, Clean
<1>9. SeededRetired
    <2>1. remote = <<[f \in Seeded |-> Written(0, "active")]>>
        BY <1>2 DEF Init
    <2>2. \A i \in 1..Len(remote) : \A f \in DOMAIN remote[i] : remote[i][f].by = 0
        BY <2>1 DEF Written
    <2>3. \A f \in Seeded : RetiredIn(f, remote)
        BY <2>2, GitAssumption DEF RetiredIn, Retired
    <2>4. \A f \in Seeded : Retired(TreeOf(remote)[f])
        BY <1>6, <2>3, TipRetired, GitAssumption
    <2> QED BY <1>5, <2>3, <2>4 DEF SeededRetired, RetiredIn, Branches
<1>10. NewIsFresh
    BY <1>2 DEF Init, NewIsFresh, WantNothing
<1>11. CloneInv
    BY <1>4, <1>7, <1>8, <1>9, <1>10 DEF CloneInv
<1>12. \A r \in Request : request[r].state = "none" /\ request[r].attempts = {}
    BY DEF FeedbackInit, NoRequest
<1>13. RequestsInv
    BY <1>12 DEF RequestsInv, RequestInv, AttemptsFit, Superseded, Alone
<1> QED BY <1>1, <1>3, <1>11, <1>13 DEF FeedbackInv

LEMMA FeedbackKeeps ==
    ASSUME FeedbackInv, [FeedbackNext]_allVars
    PROVE  FeedbackInv' /\ FeedbackMoves /\ [Next]_vars
<1>1. [Next]_vars
    BY FeedbackStepsWrite DEF FeedbackInv
<1>2. FeedbackMoves
    BY FeedbackShape DEF FeedbackInv
<1>3. TypeOK' /\ FeedbackTypeOK' /\ Orderly'
    BY FeedbackTyped DEF FeedbackInv
<1>4. CloneInv'
    BY <1>1, <1>2, <1>3, CloneStaysApart DEF FeedbackInv
<1>5. Core'
    <2>1. Inv
        BY DEF FeedbackInv, Inv
    <2>2. Inv' /\ Undisturbed'
        BY <1>1, <1>4, <2>1, NextKeeps DEF CloneInv, Quiet, Undisturbed
    <2> QED BY <2>2 DEF Inv
<1>6. RequestsInv'
    BY <1>1, <1>2, <1>3, <1>4, RequestsStay DEF FeedbackInv, CloneInv
<1> QED BY <1>1, <1>2, <1>3, <1>4, <1>5, <1>6 DEF FeedbackInv

LEMMA FeedbackHolds == FeedbackSpec => []FeedbackInv
<1>1. FeedbackInit => FeedbackInv
    BY FeedbackAtFirst
<1>2. FeedbackInv /\ [FeedbackNext]_allVars => FeedbackInv'
    BY FeedbackKeeps
<1> QED BY <1>1, <1>2, PTL DEF FeedbackSpec

\* However often feedback.py applies a request, main has one replacement for it.
THEOREM OneReplacement == FeedbackSpec => []AppliedOnce
<1>1. ASSUME FeedbackInv, NEW r \in Request PROVE Cardinality(CommitsFor(r)) <= 1
    <2>1. Whole /\ Alone(r) /\ request[r].attempts \subseteq Call
        BY <1>1 DEF FeedbackInv, Core, RequestsInv, RequestInv, FeedbackTypeOK, Record
    <2>2. \A c : CommitsOf(c) = By(c, remote)
        BY DEF CommitsOf, By
    <2>3. CASE \A c \in request[r].attempts : By(c, remote) = {}
        <3>1. CommitsFor(r) = {}
            BY <2>2, <2>3 DEF CommitsFor
        <3> QED BY <3>1, FS_EmptySet
    <2>4. ASSUME NEW c \in request[r].attempts, NEW i \in By(c, remote) PROVE CommitsFor(r) = {i}
        <3>1. By(c, remote) = {i}
            BY <2>1 DEF Whole, WholeOf, Branches
        <3>2. ASSUME NEW d \in request[r].attempts, d # c PROVE By(d, remote) = {}
            <4>1. ~Unstaged(c)
                BY DEF Unstaged, Nowhere, Branches
            <4>2. Unstaged(d)
                BY <2>1, <3>2, <4>1 DEF Alone, Apart
            <4> QED BY <4>2 DEF Unstaged, Nowhere, Branches
        <3> QED BY <2>2, <3>1, <3>2 DEF CommitsFor
    <2>5. ASSUME NEW i, CommitsFor(r) = {i} PROVE Cardinality(CommitsFor(r)) <= 1
        BY <2>5, FS_Singleton
    <2> QED BY <2>3, <2>4, <2>5
<1>2. FeedbackInv => AppliedOnce
    BY <1>1 DEF AppliedOnce
<1> QED BY <1>2, FeedbackHolds, PTL

-----------------------------------------------------------------------------
(* What is applied is on the remote                                        *)

\* A caller is answered when its call is done, and well only if the remote has its commit.
AnswerIsTrue(c) ==
    /\ answer[c] # "none" => pc[c] = "done"
    /\ answer[c] = "ok" /\ Files(c) # {} => By(c, remote) # {}

\* Until a crash, what is neither staged nor on the remote is in a thread's hands.
Pushing == {"push", "refetch", "rebase", "drop", "discard"}
InHand(c) ==
    /\ By(c, local) # {} /\ By(c, remote) = {} => pc[c] \in Pushing
    /\ Staged(c) => pc[c] = "commit"

\* A request is applied by one call at a time.
Earlier(r) ==
    \A c \in request[r].attempts :
        pc[c] = "done" \/ (request[r].state = "applying" /\ c = LastAttempt(r))

AnswerInv ==
    /\ \A c \in Call : AnswerIsTrue(c) /\ (used["crash"] = 0 => InHand(c))
    /\ \A r \in Request : Earlier(r)

\* How a call that goes on is answered.
LEMMA AnswerOf ==
    ASSUME NEW c \in Call, Proceed(c)
    PROVE  \/ UNCHANGED answer
           \/ \E a : Finish(c, a) /\ (a = "ok" => Files(c) = {} \/ (pc[c] = "push" /\ remote' = local))
<1>1. ASSUME NEW p, Return(c, p) \/ Then(c, p) PROVE UNCHANGED answer
    BY <1>1 DEF Return, Then
<1>2. CASE Acquire(c) \/ Fetch(c) \/ Forward(c)
    BY <1>1, <1>2 DEF Acquire, Fetch, Forward
<1>3. CASE Check(c)
    BY <1>1, <1>3 DEF Check
<1>4. CASE (\E f \in Fact : WriteFile(c, f)) \/ Add(c)
    BY <1>1, <1>4 DEF WriteFile, Add
<1>5. CASE CommitStaged(c)
    BY <1>1, <1>5, CommitStagedShape
<1>6. CASE Push(c)
    BY <1>6 DEF Push
<1>7. CASE OutOfTries(c) \/ Refetch(c) \/ Rebase(c) \/ Drop(c)
    BY <1>1, <1>7 DEF OutOfTries, Refetch, Rebase, Drop
<1>8. CASE Undo(c)
    <2>1. pc[c] \in DOMAIN Undoing /\ Finish(c, Undoing[pc[c]])
        BY <1>8 DEF Undo
    <2>2. Undoing[pc[c]] # "ok"
        BY <2>1 DEF Undoing
    <2> QED BY <2>1, <2>2
<1> QED BY <1>2, <1>3, <1>4, <1>5, <1>6, <1>7, <1>8 DEF Proceed

\* A call that is done stays done.
LEMMA DoneStays ==
    ASSUME TypeOK, [Next]_vars, NEW c \in Call, pc[c] = "done"
    PROVE  pc'[c] = "done"
<1>1. ASSUME NEW d \in Call, Proceed(d) PROVE pc'[c] = "done"
    <2>1. Undoing = [undo |-> "refused", abort |-> "error", discard |-> "conflict"]
        BY DEF Undoing
    <2>2. DOMAIN Undoing = {"undo", "abort", "discard"}
        BY <2>1
    <2>3. pc[d] # "done"
        BY <1>1, <2>2 DEF Proceed, Acquire, Fetch, Forward, Check, WriteFile, Add, CommitStaged, Push, OutOfTries, Refetch, Rebase, Drop, Undo
    <2> QED BY <1>1, <2>3, CallsGoOn DEF TypeOK
<1>2. ASSUME NEW d \in Call, NEW new, NEW old, NEW expect, Begin(d, new, old, expect) PROVE pc'[c] = "done"
    BY <1>2 DEF Begin, Goto, TypeOK
<1>3. ASSUME NEW d \in Call, Cancel(d) PROVE pc'[c] = "done"
    BY <1>3 DEF Cancel
<1>4. ASSUME Outside PROVE pc'[c] = "done"
    BY <1>4 DEF Outside, PushByOther, RewriteRemote, Crash, calls
<1>5. ASSUME UNCHANGED vars PROVE pc'[c] = "done"
    BY <1>5 DEF vars, calls
<1> QED BY <1>1, <1>2, <1>3, <1>4, <1>5 DEF Next

LEMMA AnswerStaysTrue ==
    ASSUME TypeOK, TypeOK', Core, CloneInv, Quiet', [Next]_vars, NEW c \in Call, AnswerIsTrue(c)
    PROVE  AnswerIsTrue(c)'
<1>1. Extends(remote', remote) /\ Len(remote) \in Nat /\ Len(remote') \in Nat
    BY WriterMoves, RemoteGoesOn, LenProperties DEF CloneInv, TypeOK
<1>2. By(c, remote) # {} => By(c, remote') # {}
    BY <1>1, ExtendsHas
<1>3. ASSUME answer'[c] = answer[c] PROVE AnswerIsTrue(c)'
    <2>1. CASE answer[c] = "none"
        BY <1>3, <2>1 DEF AnswerIsTrue
    <2>2. CASE answer[c] # "none"
        <3>1. pc[c] = "done" /\ pc'[c] = "done"
            BY <2>2, DoneStays DEF AnswerIsTrue
        <3>2. Files(c)' = Files(c)
            BY <3>1, WantStays DEF Files
        <3>3. (answer[c] = "ok" /\ Files(c) # {}) => By(c, remote') # {}
            BY <1>2 DEF AnswerIsTrue
        <3> QED BY <1>3, <3>1, <3>2, <3>3 DEF AnswerIsTrue, By
    <2> QED BY <2>1, <2>2
<1>4. ASSUME NEW d \in Call, Proceed(d) PROVE AnswerIsTrue(c)'
    <2>1. CASE UNCHANGED answer
        BY <1>3, <2>1
    <2>2. ASSUME NEW a, Finish(d, a), a = "ok" => Files(d) = {} \/ (pc[d] = "push" /\ remote' = local) PROVE AnswerIsTrue(c)'
        <3>1. CASE d # c \/ c \notin lock
            BY <1>3, <2>2, <3>1 DEF Finish, TypeOK
        <3>2. CASE d = c
            <4>1. pc'[c] = "done" /\ answer'[c] \in {a, answer[c]} /\ want' = want
                BY <2>2, <3>2 DEF Finish, Goto, TypeOK
            <4>2. pc[c] = "push" => By(c, local) # {}
                BY DEF Core, Progress, ProgressOf
            <4>3. CASE answer'[c] = a
                BY <2>2, <3>2, <4>1, <4>2, <4>3 DEF AnswerIsTrue, Files, By
            <4> QED BY <1>3, <4>1, <4>3
        <3> QED BY <3>1, <3>2
    <2> QED BY <1>4, <2>1, <2>2, AnswerOf
<1>5. ASSUME NEW d \in Call, NEW new, NEW old, NEW expect, Begin(d, new, old, expect) \/ Cancel(d) PROVE UNCHANGED answer
    BY <1>5 DEF Begin, Cancel
<1>6. ASSUME Outside \/ UNCHANGED vars PROVE UNCHANGED answer
    BY <1>6 DEF Outside, PushByOther, RewriteRemote, Crash, calls, vars
<1> QED BY <1>3, <1>4, <1>5, <1>6 DEF Next

\* A thread that has a commit to push goes on with it or gives it up.
LEMMA PushingGoesOn ==
    ASSUME TypeOK, Core, NEW c \in Call, pc[c] \in Pushing, Proceed(c), By(c, remote') = {}, By(c, tracking) = {}, By(c, local') # {}
    PROVE  pc'[c] \in Pushing
<1>1. pc \in [Call -> Stage] /\ c \in lock
    <2>1. pc[c] \in Busy
        BY DEF Pushing, Busy, InThread
    <2> QED BY <2>1 DEF TypeOK, Core, OneThread
<1>2. ASSUME NEW p \in Pushing, Return(c, p) \/ Then(c, p) \/ Goto(c, p) PROVE pc'[c] \in Pushing
    BY <1>1, <1>2 DEF Return, Then, Goto
<1>3. {"push", "refetch", "rebase", "drop", "discard"} \subseteq Pushing
    BY DEF Pushing
<1>4. CASE Push(c)
    <2>1. By(c, local) # {}
        BY <1>4 DEF Push, Core, Progress, ProgressOf
    <2>2. remote' # local
        BY <2>1
    <2> QED BY <1>2, <1>3, <1>4, <2>2 DEF Push
<1>5. CASE OutOfTries(c)
    BY <1>2, <1>3, <1>5 DEF OutOfTries
<1>6. CASE Refetch(c)
    BY <1>2, <1>3, <1>6 DEF Refetch
<1>7. CASE Rebase(c)
    BY <1>2, <1>3, <1>7 DEF Rebase
<1>8. ~Drop(c) /\ ~Undo(c)
    BY DEF Drop, Undo, ResetHard
<1>9. ~Acquire(c) /\ ~Fetch(c) /\ ~Forward(c) /\ ~Check(c) /\ (\A f \in Fact : ~WriteFile(c, f)) /\ ~Add(c) /\ ~CommitStaged(c)
    BY DEF Pushing, Acquire, Fetch, Forward, Check, WriteFile, Add, CommitStaged
<1> QED BY <1>4, <1>5, <1>6, <1>7, <1>8, <1>9 DEF Proceed

LEMMA CommittingIsCommit ==
    ASSUME NEW c \in Call, pc[c] = "commit", Proceed(c)
    PROVE  CommitStaged(c)
<1>1. Undoing = [undo |-> "refused", abort |-> "error", discard |-> "conflict"]
    BY DEF Undoing
<1>2. DOMAIN Undoing = {"undo", "abort", "discard"}
    BY <1>1
<1> QED BY <1>2 DEF Proceed, Acquire, Fetch, Forward, Check, WriteFile, Add, Push, OutOfTries, Refetch, Rebase, Drop, Undo

LEMMA InHandStays ==
    ASSUME TypeOK, TypeOK', Core, CloneInv, Quiet', [Next]_vars, ~Crash, NEW c \in Call, InHand(c)
    PROVE  InHand(c)'
<1>0. /\ Len(remote) \in Nat /\ Len(tracking) \in Nat /\ Len(local) \in Nat
      /\ Len(remote') \in Nat
    BY LenProperties DEF TypeOK
<1>1. Still \/ (\E d \in Call : Proceed(d) /\ MovesOf(d)) \/ Joins
    BY WriterMoves DEF CloneInv
<1>2. ASSUME pc[c] \in Busy PROVE Proceed(c) \/ pc'[c] = pc[c]
    BY <1>2, Uninterrupted DEF CloneInv
<1>3. ASSUME By(c, local') # {}, By(c, remote') = {} PROVE pc'[c] \in Pushing
    <2>1. By(c, remote) = {}
        BY <1>0, <1>1, <1>3, RemoteGoesOn, ExtendsHas DEF CloneInv
    <2>2. By(c, tracking) = {}
        BY <1>0, <2>1, ExtendsHas DEF CloneInv
    <2>3. CASE pc[c] \in Pushing
        <3>1. pc[c] \in Busy
            BY <2>3 DEF Pushing, Busy, InThread
        <3> QED BY <1>2, <1>3, <2>2, <2>3, <3>1, PushingGoesOn
    <2>4. CASE pc[c] \notin Pushing
        <3>1. By(c, local) = {}
            BY <2>1, <2>4 DEF InHand
        <3>2. local' # local /\ local' # tracking
            BY <1>3, <2>2, <3>1
        <3>3. local' # Replay
            <4>1. \A k : k \notin By(c, Replay)
                BY <2>2, <3>1, ReplayedCommits
            <4> QED BY <1>3, <4>1
        <3>4. PICK d \in Call : Proceed(d) /\ MovesOf(d)
            BY <1>1, <3>2, JoinsShape DEF Still, clone
        <3>5. pc[d] = "commit" /\ Commits
            BY <3>2, <3>3, <3>4 DEF MovesOf, Reads, Moves, MoveTo, Writes, Add, Lands, Resets, ResetHard
        <3>6. Staged(c)
            <4>1. local' = Append(local, NewCommit)
                BY <3>5 DEF Commits
            <4>2. By(c, local') = IF Staged(c) THEN By(c, local) \cup {Len(local) + 1} ELSE By(c, local)
                BY <4>1, CommitAdds
            <4> QED BY <1>3, <3>1, <4>2
        <3>7. c = d
            BY <3>5, <3>6 DEF InHand, Core, OneThread, Busy, InThread
        <3>8. CommitStaged(c)
            BY <3>4, <3>5, <3>7, CommittingIsCommit
        <3>9. Then(c, "push")
            BY <3>2, <3>8, CommitStagedShape
        <3> QED BY <3>9 DEF Then, Goto, TypeOK, Pushing
    <2> QED BY <2>3, <2>4
<1>4. ASSUME Staged(c)' PROVE pc'[c] = "commit"
    <2>1. PICK f \in Fact : index'[f].by = c /\ index'[f] # TreeOf(local')[f]
        BY <1>4 DEF Staged, Uncommitted, TreeOf
    <2>2. CASE Staged(c)
        <3>1. pc[c] = "commit" /\ pc[c] \in Busy
            BY <2>2 DEF InHand, Busy, InThread
        <3>2. ~Proceed(c)
            <4> SUFFICES ASSUME Proceed(c) PROVE FALSE
                OBVIOUS
            <4>1. CommitStaged(c)
                BY <3>1, CommittingIsCommit
            <4>2. Commits
                BY <2>2, <4>1, CommitStagedShape DEF Commits, Staged
            <4> QED BY <2>1, <4>2, TipAfterCommit DEF Commits
        <3> QED BY <1>2, <3>1, <3>2
    <2>3. CASE ~Staged(c)
        <3>1. ASSUME index'[f] = index[f], TreeOf(local')[f] = TreeOf(local)[f] PROVE FALSE
            BY <2>1, <2>3, <3>1 DEF Staged, Uncommitted
        <3>2. ASSUME NEW h, MoveTo(h) PROVE FALSE
            <4>1. /\ local' = h
                  /\ index'[f] = IF f \in Changed(local, h) THEN TreeOf(h)[f] ELSE index[f]
                BY <3>2 DEF MoveTo
            <4>2. f \notin Changed(local, h) => TreeOf(h)[f] = TreeOf(local)[f]
                BY DEF Changed
            <4> QED BY <2>1, <3>1, <4>1, <4>2
        <3>3. ~Commits
            BY <2>1, TipAfterCommit DEF Commits
        <3>4. ~Resets
            BY <2>1 DEF Resets, ResetHard
        <3>5. ~(UNCHANGED <<local, index>>)
            BY <3>1
        <3>6. PICK d \in Call : Proceed(d) /\ MovesOf(d)
            BY <1>1, <3>5, JoinsShape DEF Still, clone
        <3>7. Add(d)
            BY <3>2, <3>3, <3>4, <3>5, <3>6 DEF MovesOf, Reads, Moves, Writes, Lands
        <3>8. UNCHANGED local /\ index'[f] = IF f \in Files(d) THEN tree[f] ELSE index[f]
            BY <3>7 DEF Add, Added
        <3>9. f \in Files(d) /\ index'[f] = tree[f]
            BY <3>1, <3>8
        <3>10. c = d
            BY <2>1, <3>7, <3>9 DEF Add, Core, Progress, ProgressOf
        <3> QED BY <3>7, <3>10 DEF Add, Then, Goto, TypeOK
    <2> QED BY <2>2, <2>3
<1>5. Staged(c)' => pc'[c] = "commit"
    BY <1>4
<1> QED BY <1>3, <1>5 DEF InHand, By

LEMMA EarlierStays ==
    ASSUME FeedbackInv, FeedbackTypeOK', Orderly', [Next]_vars, FeedbackMoves, NEW q \in Request, Earlier(q),
           \A c \in Call : AnswerIsTrue(c)
    PROVE  Earlier(q)'
<1> DEFINE A == request[q].attempts
<1>1. TypeOK /\ A \subseteq Call /\ \A c \in A : pc[c] # "idle"
    BY DEF FeedbackInv, FeedbackTypeOK, Record, Orderly
<1>2. \A c \in A : pc[c] = "done" => pc'[c] = "done"
    BY <1>1, DoneStays
<1>3. ASSUME request'[q] = request[q] PROVE Earlier(q)'
    BY <1>2, <1>3 DEF Earlier, LastAttempt
<1>4. ASSUME request'[q].attempts = A, \A c \in A : pc[c] = "done" PROVE Earlier(q)'
    BY <1>2, <1>4 DEF Earlier
<1>5. ASSUME NEW r \in Request, NEW s \in State, Alters(r, s) PROVE Earlier(q)'
    <2>1. CASE r # q
        BY <1>3, <1>5, <2>1 DEF Alters, ChangesTo
    <2>2. CASE r = q
        <3>1. request'[q].attempts = A
            BY <1>5, <2>2 DEF Alters
        <3>2. request[q].state = "applying" => answer[LastAttempt(q)] # "none"
            BY <1>5, <2>2 DEF Alters
        <3>3. request[q].state = "applying" => pc[LastAttempt(q)] = "done"
            BY <3>2, LastIsAnAttempt DEF AnswerIsTrue, FeedbackInv
        <3>4. \A c \in A : pc[c] = "done"
            BY <3>3 DEF Earlier
        <3> QED BY <1>4, <3>1, <3>4
    <2> QED BY <2>1, <2>2
<1>6. ASSUME NEW r \in Request, NEW f \in Seeded, Makes(r, f) PROVE Earlier(q)'
    <2>1. CASE r # q
        BY <1>3, <1>6, <2>1 DEF Makes
    <2>2. CASE r = q
        BY <1>6, <2>2 DEF Makes, Earlier
    <2> QED BY <2>1, <2>2
<1>7. ASSUME NEW r \in Request, NEW c \in Call, NEW new \in FreshFact, Attempts(r, c, new) PROVE Earlier(q)'
    <2>1. CASE r # q
        BY <1>3, <1>7, <2>1 DEF Attempts, ChangesTo
    <2>2. CASE r = q
        <3>1. /\ request'[q].attempts = A \cup {c} /\ request'[q].state = "applying" /\ request[q].state = "proposed"
              /\ pc[c] = "idle" /\ pc'[c] = "wait"
            BY <1>1, <1>7, <2>2 DEF Attempts, ChangesTo, Begin, Goto, TypeOK
        <3>2. \A d \in A : pc[d] = "done"
            BY <3>1 DEF Earlier
        <3>3. LastAttempt(q)' \in A \cup {c} /\ \A d \in A \cup {c} : d <= LastAttempt(q)'
            <4>1. ASSUME FeedbackTypeOK', Orderly', request'[q].state = "applying"
                  PROVE  /\ LastAttempt(q)' \in request'[q].attempts
                         /\ \A d \in request'[q].attempts : d <= LastAttempt(q)'
                <5> DEFINE B == request'[q].attempts
                <5>1. B \subseteq Call
                    BY <4>1 DEF FeedbackTypeOK, Record
                <5>2. PICK e \in B : \A d \in B : d <= e
                    BY <4>1 DEF Orderly
                <5>3. LastAttempt(q)' = Max(B)
                    BY DEF LastAttempt
                <5> HIDE DEF B
                <5>4. Max(B) \in B /\ \A d \in B : Max(B) >= d
                    <6>1. e \in B /\ \A d \in B : e >= d
                        BY <5>1, <5>2, GitAssumption
                    <6> QED BY <6>1 DEF Max
                <5>5. \A d \in B : d <= Max(B)
                    BY <5>1, <5>4, GitAssumption
                <5> QED BY <5>3, <5>4, <5>5 DEF B
            <4> QED BY <3>1, <4>1
        <3>4. ASSUME NEW d \in A PROVE d # LastAttempt(q)'
            <4>1. ~(c < d)
                BY <1>1, <3>1 DEF FeedbackInv, Orderly
            <4>2. d # c
                BY <1>1, <3>1
            <4>3. c <= LastAttempt(q)' /\ d \in Call
                BY <1>1, <3>3
            <4> QED BY <4>1, <4>2, <4>3, GitAssumption
        <3>5. LastAttempt(q)' = c
            BY <3>3, <3>4
        <3> QED BY <1>2, <3>1, <3>2, <3>5 DEF Earlier
    <2> QED BY <2>1, <2>2
<1>8. ASSUME Resumes PROVE Earlier(q)'
    <2>1. request'[q].attempts = A /\ \A c \in A : pc'[c] = "done"
        BY <1>1, <1>8 DEF Resumes, Crash
    <2> QED BY <2>1 DEF Earlier
<1>9. ASSUME OtherCall \/ UNCHANGED allVars PROVE Earlier(q)'
    BY <1>3, <1>9 DEF OtherCall, feedback, allVars
<1> QED BY <1>5, <1>6, <1>7, <1>8, <1>9 DEF FeedbackMoves

LEMMA AnswersKeep ==
    ASSUME FeedbackInv, AnswerInv, [FeedbackNext]_allVars
    PROVE  AnswerInv'
<1>1. FeedbackInv' /\ FeedbackMoves /\ [Next]_vars
    BY FeedbackKeeps
<1>2. TypeOK /\ TypeOK' /\ Core /\ CloneInv /\ Quiet' /\ FeedbackTypeOK' /\ Orderly'
    BY <1>1 DEF FeedbackInv, CloneInv
<1>3. \A c \in Call : AnswerIsTrue(c)'
    BY <1>1, <1>2, AnswerStaysTrue DEF AnswerInv
<1>4. ASSUME NEW c \in Call, used'["crash"] = 0 PROVE InHand(c)'
    <2>1. used \in [Event -> Nat] /\ "crash" \in Event
        BY <1>2 DEF TypeOK, Event
    <2>2. Spent
        BY <1>1, <1>2, CallsBegin
    <2>3. used'["crash"] >= used["crash"]
        BY <1>2, <2>1, <2>2, TypesGrow
    <2>4. used["crash"] = 0
        BY <1>4, <2>1, <2>3
    <2>5. ~Crash
        BY <1>4, <2>1 DEF Crash, Spend
    <2> QED BY <1>1, <1>2, <2>4, <2>5, InHandStays DEF AnswerInv
<1>5. \A r \in Request : Earlier(r)'
    BY <1>1, <1>2, EarlierStays DEF AnswerInv
<1> QED BY <1>3, <1>4, <1>5 DEF AnswerInv

LEMMA AnswersAtFirst ==
    ASSUME FeedbackInit
    PROVE  AnswerInv
<1>1. /\ TypeOK /\ Core
      /\ \A c \in Call : pc[c] = "idle" /\ answer[c] = "none"
      /\ \A r \in Request : request[r].attempts = {}
    BY FeedbackAtFirst DEF FeedbackInv, FeedbackInit, Init, NoRequest
<1>2. \A c \in Call : Untouched(c)
    BY <1>1 DEF Core, Progress, ProgressOf
<1>3. \A c \in Call : InHand(c)
    BY <1>2 DEF InHand, Untouched, Unstaged, Nowhere, Branches, Staged
<1> QED BY <1>1, <1>3 DEF AnswerInv, AnswerIsTrue, Earlier

\* A request that feedback.py calls applied has its change on main, unless a crash
\* left the commit in the clone for a later push.
THEOREM AppliedMeansPublished == FeedbackSpec => AppliedIsPublished
<1> DEFINE Step == \A r \in Request : request[r].state # "applied" /\ request'[r].state = "applied" =>
        \/ CommitsFor(r)' # {}
        \/ used["crash"] > 0 /\ Marked(r)
<1>1. ASSUME FeedbackInv, AnswerInv, [FeedbackNext]_allVars PROVE Step
    <2>1. FeedbackMoves /\ TypeOK /\ RequestsInv
        BY <1>1, FeedbackKeeps DEF FeedbackInv
    <2>2. ASSUME NEW r \in Request, request[r].state # "applied", request'[r].state = "applied"
          PROVE  CommitsFor(r)' # {} \/ (used["crash"] > 0 /\ Marked(r))
        <3>1. Alters(r, "applied")
            <4>1. ASSUME NEW q \in Request, NEW s \in State, Alters(q, s) PROVE Alters(r, "applied")
                BY <2>2, <4>1 DEF Alters, ChangesTo
            <4>2. ASSUME NEW q \in Request, NEW f \in Seeded, Makes(q, f) PROVE FALSE
                BY <2>2, <4>2 DEF Makes
            <4>3. ASSUME NEW q \in Request, NEW c \in Call, NEW new \in FreshFact, Attempts(q, c, new) PROVE FALSE
                BY <2>2, <4>3 DEF Attempts, ChangesTo
            <4>4. ASSUME Resumes PROVE FALSE
                BY <2>2, <4>4 DEF Resumes, Resumed, Requeued
            <4>5. ASSUME OtherCall \/ UNCHANGED allVars PROVE FALSE
                BY <2>2, <4>5 DEF OtherCall, feedback, allVars
            <4> QED BY <2>1, <4>1, <4>2, <4>3, <4>4, <4>5 DEF FeedbackMoves
        <3>2. request'[r].attempts = request[r].attempts /\ remote' = remote /\ request[r].attempts \subseteq Call
            BY <1>1, <3>1 DEF Alters, vars, FeedbackInv, FeedbackTypeOK, Record
        <3>3. ASSUME NEW c \in request[r].attempts, By(c, remote) # {} PROVE CommitsFor(r)' # {}
            <4>1. CommitsOf(c)' = By(c, remote)
                BY <3>2 DEF CommitsOf, By
            <4>2. CommitsFor(r)' = UNION {CommitsOf(d)' : d \in request[r].attempts}
                BY <3>2 DEF CommitsFor
            <4> QED BY <3>3, <4>1, <4>2
        <3>4. CASE request[r].state = "proposed" /\ Marked(r)
            <4>1. PICK c \in request[r].attempts : By(c, local) # {}
                BY <3>4 DEF Marked, By
            <4>2. pc[c] = "done"
                BY <1>1, <3>4 DEF AnswerInv, Earlier
            <4>3. used["crash"] \in Nat
                BY <2>1 DEF TypeOK, Event
            <4>4. CASE used["crash"] = 0
                <5>1. By(c, remote) # {}
                    BY <1>1, <3>2, <4>1, <4>2, <4>4 DEF AnswerInv, InHand, Pushing
                <5> QED BY <3>3, <5>1
            <4> QED BY <3>4, <4>3, <4>4
        <3>5. CASE request[r].state = "applying" /\ answer[LastAttempt(r)] = "ok"
            <4>1. LastAttempt(r) \in request[r].attempts /\ LastAttempt(r) \in Call
                BY <1>1, <3>5, LastIsAnAttempt DEF FeedbackInv
            <4>2. want[LastAttempt(r)].old = {request[r].fact}
                BY <2>1, <4>1 DEF RequestsInv, RequestInv, AttemptsFit
            <4>3. By(LastAttempt(r), remote) # {}
                BY <1>1, <3>5, <4>1, <4>2 DEF AnswerInv, AnswerIsTrue, Files
            <4> QED BY <3>3, <4>1, <4>3
        <3> QED BY <3>1, <3>4, <3>5 DEF Alters
    <2> QED BY <2>2
<1>2. FeedbackInit => FeedbackInv /\ AnswerInv
    BY FeedbackAtFirst, AnswersAtFirst
<1>3. (FeedbackInv /\ AnswerInv) /\ [FeedbackNext]_allVars => (FeedbackInv /\ AnswerInv)' /\ Step
    BY <1>1, FeedbackKeeps, AnswersKeep
<1>4. FeedbackInv /\ AnswerInv /\ [FeedbackNext]_allVars => [Step]_allVars
    BY <1>3
<1> QED BY <1>2, <1>3, <1>4, PTL DEF FeedbackSpec, AppliedIsPublished

=============================================================================
