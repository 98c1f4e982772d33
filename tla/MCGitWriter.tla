----------------------------- MODULE MCGitWriter -----------------------------
(***************************************************************************)
(* Small instances of GitWriter.                                           *)
(***************************************************************************)
EXTENDS GitWriter

Allow(push, rewrite, crash, cut, cancel, disk) ==
    [e \in Event |->
        CASE e = "push" -> push [] e = "rewrite" -> rewrite [] e = "crash" -> crash
          [] e = "cut" -> cut [] e = "cancel" -> cancel [] e = "disk" -> disk]

\* A busy remote and lost pushes; a crash in every place; a full disk; a
\* rewritten remote; a cancelled call.
SafetyBudgets ==
    {Allow(2, 0, 0, 0, 0, 0), Allow(1, 0, 0, 1, 0, 0), Allow(1, 0, 1, 0, 0, 0), Allow(0, 0, 1, 1, 0, 0), Allow(0, 0, 1, 0, 0, 1),
     Allow(0, 1, 1, 0, 0, 0), Allow(1, 0, 0, 0, 1, 0), Allow(0, 0, 0, 4, 0, 0)}

CrashBudgets == {Allow(0, 0, 1, 0, 0, 0)}
CancelBudgets == {Allow(0, 0, 0, 0, 1, 0)}
=============================================================================
