----------------------------- MODULE MCPugPause -----------------------------
(***************************************************************************)
(* The match with pauses, for TLC: the pause is a few seconds longer than  *)
(* the restarts that may cut it.                                           *)
(***************************************************************************)
EXTENDS PugPause
=============================================================================
