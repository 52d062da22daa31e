---------------------------- MODULE MCTaskBridge ----------------------------
(***************************************************************************)
(* TLC instances of TaskBridge.                                            *)
(***************************************************************************)
EXTENDS TaskBridge

\* A function that logs and returns no code, and the one that can fail and
\* throw.  One that logs nothing (GetConf) is the first with fewer lines.
KindsOfMethod == {"Convert", "Upload"}
=============================================================================
