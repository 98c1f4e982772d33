----------------------------- MODULE MCTelemetry -----------------------------
(***************************************************************************)
(* One trace of client a: an intent (and a second payload under its id,    *)
(* with a line separator in its text), two searches, two decisions that    *)
(* name them in opposite orders, an attempt and its completion.  A listing *)
(* may hold two hand-edited decisions on one search.                       *)
(***************************************************************************)
EXTENDS TelemetryBackends

CONSTANTS p1, p2

intent1 == [kind |-> "intent", id |-> "t1", client |-> "a", trace |-> "t1",
            effect |-> "read", need |-> "required", text |-> "plain"]
intent2 == [intent1 EXCEPT !.effect = "local_write", !.text = "odd"]
search1 == [kind |-> "search", id |-> "s1", client |-> "a", trace |-> "t1",
            facts |-> {"f"}, text |-> "plain"]
search2 == [search1 EXCEPT !.id = "s2"]
decision1 == [kind |-> "decision", id |-> "d1", client |-> "a", trace |-> "t1",
              searches |-> <<"s1", "s2">>, used |-> {"f"}, change |-> TRUE, text |-> "none"]
decision2 == [decision1 EXCEPT !.id = "d2", !.searches = <<"s2", "s1">>]
attempt == [kind |-> "action", id |-> "e1", client |-> "a", trace |-> "t1", action |-> "x",
            phase |-> "attempted", outcome |-> "pending", effect |-> "read",
            decision |-> None, text |-> "none"]
completion == [attempt EXCEPT !.id = "e2", !.phase = "completed", !.outcome = "failed",
                              !.decision = "d1", !.text = "plain"]

MCCommands == {intent1, intent2, search1, search2, decision1, decision2, attempt, completion}
MCEdited == {[decision1 EXCEPT !.id = id, !.searches = <<"s1">>] : id \in {"d4", "d5"}}
=============================================================================
