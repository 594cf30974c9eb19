---------------------------- MODULE MCBugReports ----------------------------
(***************************************************************************)
(* Small instances of BugReports for TLC.                                  *)
(***************************************************************************)
EXTENDS BugReports

CONSTANTS board, tool

(* An account that is rotated is worth a line the third time, a crash at   *)
(* once.                                                                   *)
MCRotation == {Rotation}
MCSites == {WorkerCrash, Rotation}
=============================================================================
