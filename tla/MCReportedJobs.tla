---------------------------- MODULE MCReportedJobs ----------------------------
(* Small instances of ReportedJobs for TLC. *)
EXTENDS ReportedJobs, TLC

(* Workers are alike to every definition. *)
WorkersAlike == Permutations(Workers)
=============================================================================
