--------------------------- MODULE MCPugSpawnEdit ---------------------------
(***************************************************************************)
(* PugSpawnEdit for TLC: two admins, who are alike.                        *)
(***************************************************************************)
EXTENDS PugSpawnEdit, TLC

Alike == Permutations(Admin)
=============================================================================
