---------------------------- MODULE MCTaskReports ----------------------------
(***************************************************************************)
(* Small instances of TaskReports for TLC.                                 *)
(***************************************************************************)
EXTENDS TaskReports

CONSTANTS t1

\* Every request names the same id.
OneId == [r \in Request |-> t1]
=============================================================================
