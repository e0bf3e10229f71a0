------------------------------ MODULE MCBackupJobs ------------------------------
(***************************************************************************)
(* TLC instance of BackupJobs: a job on two workers beside a desktop       *)
(* window or a command line on one, over the same photos.                  *)
(***************************************************************************)
EXTENDS BackupJobs

CONSTANT job

Workers == [t \in Task |-> IF t = job THEN 2 ELSE 1]
===============================================================================
