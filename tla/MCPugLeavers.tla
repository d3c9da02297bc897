---------------------------- MODULE MCPugLeavers ----------------------------
(***************************************************************************)
(* Leavers for TLC: an ordinary player with an address of his own, and     *)
(* others who share one: a player with a generic SteamID and, for safety,  *)
(* an admin.                                                               *)
(***************************************************************************)
EXTENDS PugLeavers

CONSTANT ann
MCAddress == [p \in Person |-> IF p = ann THEN "10.0.0.1" ELSE "10.0.0.2"]
=============================================================================
