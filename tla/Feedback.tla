------------------------------ MODULE Feedback -------------------------------
(***************************************************************************)
(* AI feedback on facts of the Git backend (feedback.py, and the handlers  *)
(* ui_*_feedback of git_services.py), on top of GitWriter.                 *)
(*                                                                         *)
(* A person asks for a change to an active fact; a runner proposes a       *)
(* replacement; a person applies or rejects it.  To apply is a write of    *)
(* GitWriter that supersedes the fact if it is still what the request was  *)
(* made for, and its commit carries a marker by which a later attempt      *)
(* recognises it.  Requests live in a file that is replaced as a whole;    *)
(* tasks live in memory, and a restart makes new ones from the file.       *)
(*                                                                         *)
(* A step of this module is the code between two awaits that can give      *)
(* control away.  The other calls are MCP and UI writes, and syncs.        *)
(***************************************************************************)
EXTENDS GitWriter, FiniteSetsExt

CONSTANT Request    \* the requests made in a behaviour

ASSUME FeedbackAssumption == Request \subseteq Nat

VARIABLES
    request,    \* the file of requests
    task        \* the requests a task works on

feedback == <<request, task>>
allVars == <<vars, feedback>>

State == {"none", "queued", "running", "proposed", "applying",
          "applied", "rejected", "failed", "stale"}
Active == {"queued", "running", "proposed", "applying"}

\* The transitions feedback.py allows, "none" standing for a request to come.
Allowed(s) ==
    CASE s = "none" -> {"queued"}
      [] s = "queued" -> {"running", "failed"}
      [] s = "running" -> {"queued", "proposed", "failed"}
      [] s = "proposed" -> {"applying", "rejected"}
      [] s = "applying" -> {"proposed", "applied", "stale"}
      [] OTHER -> {}

\* base: the content the request is about (its hash); attempts: the writes made to
\* apply it, whose commits carry its marker.
RequestRecord ==
    [state : State, fact : Seeded, base : Content, attempts : SUBSET Call, replacement : AtMostOne(Fact)]

NoRequest(f) ==
    [state |-> "none", fact |-> f, base |-> Absent, attempts |-> {}, replacement |-> {}]

FeedbackInit ==
    /\ Init
    /\ request = [r \in Request |-> NoRequest(CHOOSE f \in Seeded : TRUE)]
    /\ task = {}

Set(r, s) == request' = [request EXCEPT ![r].state = s]

-----------------------------------------------------------------------------
(* Proposals                                                               *)

\* The content is read under the write lock and the request made after it; the
\* fetch of that read is left to the other calls.  Requests are numbered.
Submit(r, f) ==
    /\ request[r].state = "none" /\ \A q \in Request : q < r => request[q].state # "none"
    /\ lock = {}
    /\ tree[f].status = "active"
    /\ \A q \in Request : request[q].fact = f => request[q].state \notin Active
    /\ request' = [request EXCEPT ![r] =
            [state |-> "queued", fact |-> f, base |-> tree[f], attempts |-> {}, replacement |-> {}]]
    /\ task' = task \cup {r}
    /\ UNCHANGED vars

Run(r) ==
    /\ r \in task /\ request[r].state = "queued"
    /\ Set(r, "running")
    /\ UNCHANGED <<vars, task>>

\* The runner answers, fails or times out.
Answered(r) ==
    /\ r \in task /\ request[r].state = "running"
    /\ \E s \in {"proposed", "failed"} : Set(r, s)
    /\ task' = task \ {r}
    /\ UNCHANGED vars

\* Mutant of Reject: a proposal may be rejected while it is being applied.
RejectOpen(r) ==
    /\ request[r].state \in {"proposed", "applying"}
    /\ Set(r, "rejected")
    /\ UNCHANGED <<vars, task>>

Reject(r) ==
    /\ request[r].state = "proposed"
    /\ Set(r, "rejected")
    /\ UNCHANGED <<vars, task>>

-----------------------------------------------------------------------------
(* Applying a proposal                                                     *)

\* git log --grep finds the marker of r on HEAD, and the fact names a successor.
Marked(r) == \E i \in 1..Len(local) : \E f \in DOMAIN local[i] : local[i][f].by \in request[r].attempts
Successor(f) == IF tree[f].status = "invalidated" /\ tree[f].by \in Call THEN want[tree[f].by].new ELSE {}
Recognised(r) == Marked(r) /\ Successor(request[r].fact) # {}

Unchanged(r) == tree[request[r].fact] = request[r].base

FreshFact == {f \in Fact : f \notin Seeded /\ \A c \in Call : f \notin want[c].new}

\* The clone is read without its lock, whatever another call is doing to it.
Apply(r) ==
    /\ request[r].state = "proposed"
    /\ LET f == request[r].fact
       IN \/ /\ Recognised(r)
             /\ request' = [request EXCEPT ![r].state = "applied", ![r].replacement = Successor(f)]
             /\ UNCHANGED vars
          \/ /\ ~Recognised(r) /\ ~Unchanged(r)
             /\ Set(r, "stale")
             /\ UNCHANGED vars
          \/ /\ ~Recognised(r) /\ Unchanged(r)
             /\ \E c \in Call, new \in FreshFact :
                    /\ Begin(c, {new}, {f}, {request[r].base})
                    /\ request' = [request EXCEPT ![r].state = "applying", ![r].attempts = @ \cup {c}]
    /\ UNCHANGED task

LastAttempt(r) == Max(request[r].attempts)

\* Mutant of Verdict: a conflict counts as applied.
VerdictOptimistic(a) == IF a \in {"ok", "conflict"} THEN "applied" ELSE "stale"

\* What an answered write makes of its request: a refusal is for a changed fact.
Verdict(a) ==
    CASE a = "ok" -> "applied"
      [] a = "conflict" -> "proposed"
      [] a = "refused" -> "stale"

\* Any other exception leaves the request as it is.
Settle(r) ==
    /\ request[r].state = "applying"
    /\ answer[LastAttempt(r)] \in {"ok", "conflict", "refused"}
    /\ LET c == LastAttempt(r)
           s == Verdict(answer[c])
       IN request' = [request EXCEPT ![r].state = s,
                                     ![r].replacement = IF s = "applied" THEN want[c].new ELSE {}]
    /\ UNCHANGED <<vars, task>>

-----------------------------------------------------------------------------
(* The process and its surroundings                                        *)

\* Mutant of Requeued: only what waited is queued again.
RequeuedWaiting == {"queued"}

Requeued == {"queued", "running"}

Resumed(s) == IF s = "applying" THEN "proposed" ELSE IF s \in Requeued THEN "queued" ELSE s

\* The process dies and, before it serves anybody, resumes what it finds.
Restart ==
    /\ Crash
    /\ request' = [r \in Request |-> [request[r] EXCEPT !.state = Resumed(@)]]
    /\ task' = {r \in Request : request[r].state \in Requeued}

OtherCall ==
    /\ \/ \E c \in Call : Proceed(c)
       \/ \E c \in Call, new \in AtMostOne(FreshFact), old \in AtMostOne(Seeded) : Begin(c, new, old, {})
       \/ \E f \in Seeded, s \in {"active", "invalidated"} : PushByOther(f, s)
    /\ UNCHANGED feedback

Work(r) == Run(r) \/ Answered(r)

FeedbackNext ==
    \/ \E r \in Request : Work(r) \/ Reject(r) \/ Apply(r) \/ Settle(r) \/ \E f \in Seeded : Submit(r, f)
    \/ Restart
    \/ OtherCall

FeedbackSpec == FeedbackInit /\ [][FeedbackNext]_allVars

\* Tasks go on, and a runner ends by its timeout at the latest.
FeedbackLiveSpec == FeedbackSpec /\ \A r \in Request : WF_allVars(Work(r))

-----------------------------------------------------------------------------
(* Properties                                                              *)

CommitsFor(r) == UNION {CommitsOf(c) : c \in request[r].attempts}

\* However often an apply is interrupted, its answer lost and the request applied
\* again, main has one replacement for it at most.
AppliedOnce == \A r \in Request : Cardinality(CommitsFor(r)) <= 1

\* A request becomes applied when main has its change; after a crash it may be a
\* commit of the clone that is still to be pushed.
AppliedIsPublished ==
    [][\A r \in Request : request[r].state # "applied" /\ request'[r].state = "applied" =>
        \/ CommitsFor(r)' # {}
        \/ used["crash"] > 0 /\ Marked(r)]_allVars

\* Tasks, restarts and handlers, most of which write a state unchecked, keep to the
\* transitions the code declares; an interrupted task is queued again.
KeepsToAllowed ==
    [][\A r \in Request :
        LET s == request[r].state  t == request'[r].state
        IN s # t => \/ t \in Allowed(s)
                    \/ s = "proposed" /\ \E m \in Allowed(s) : t \in Allowed(m)]_allVars

\* Every request gets its proposal or is failed, restarts or not.
EveryRequestIsAnswered ==
    \A r \in Request : request[r].state = "queued" ~> request[r].state \notin {"queued", "running"}

=============================================================================
