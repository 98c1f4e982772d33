------------------------------ MODULE MCGitSync ------------------------------
(***************************************************************************)
(* Small instances of GitSync.                                             *)
(***************************************************************************)
EXTENDS GitSync

Allow(commit, restore, crash, fault, reindex) ==
    [e \in Event |->
        CASE e = "commit" -> commit [] e = "restore" -> restore
          [] e = "crash" -> crash [] e = "fault" -> fault [] e = "reindex" -> reindex]

SyncBudgets ==
    {Allow(3, 0, 1, 1, 0), Allow(2, 0, 1, 0, 1), Allow(2, 1, 1, 0, 0), Allow(2, 1, 0, 0, 1)}
=============================================================================
