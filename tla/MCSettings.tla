----------------------------- MODULE MCSettings ------------------------------
(***************************************************************************)
(* TLC instances of Settings: two values of the paths, so that an old one  *)
(* can be told from the user's last one.                                   *)
(***************************************************************************)
EXTENDS Settings
==============================================================================
