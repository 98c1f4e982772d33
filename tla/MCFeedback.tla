----------------------------- MODULE MCFeedback ------------------------------
(***************************************************************************)
(* Small instances of Feedback.                                            *)
(***************************************************************************)
EXTENDS Feedback

Allow(push, crash, cut, disk) ==
    [e \in Event |->
        CASE e = "push" -> push [] e = "crash" -> crash [] e = "cut" -> cut
          [] e = "disk" -> disk [] OTHER -> 0]

\* An edit by others, lost answers, crashes.
FeedbackBudgets == {Allow(1, 0, 0, 0), Allow(0, 0, 2, 0), Allow(0, 1, 1, 0)}
=============================================================================
