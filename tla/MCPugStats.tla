----------------------------- MODULE MCPugStats -----------------------------
(***************************************************************************)
(* PugStats for TLC.  No entry of m_Player is read to write another one,   *)
(* so one player, who may be on either roster, come, go and be moved,      *)
(* shows what can happen to any; the rounds are as many as leave time for  *)
(* an overtime beside rounds won in the LO3, and an admin moves him until  *)
(* three are played.                                                       *)
(***************************************************************************)
EXTENDS PugStats
=============================================================================
