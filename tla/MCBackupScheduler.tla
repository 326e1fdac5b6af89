------------------------- MODULE MCBackupScheduler -------------------------
(* Instances of BackupScheduler for TLC. *)
EXTENDS BackupScheduler, TLC

\* Two jobs, different work, different requesters.
Keys == (1 :> "a") @@ (2 :> "b")
Requesters == (1 :> "u") @@ (2 :> "v")
=============================================================================
