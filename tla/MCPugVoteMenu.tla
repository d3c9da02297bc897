--------------------------- MODULE MCPugVoteMenu ---------------------------
(***************************************************************************)
(* The vote menu for TLC: slots and connections without immunity can be    *)
(* exchanged for one another.                                              *)
(***************************************************************************)
EXTENDS PugVoteMenu, TLC

Alike == Permutations(Slot) \cup Permutations(Client \ Immune)
=============================================================================
