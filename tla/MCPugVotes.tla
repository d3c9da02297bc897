----------------------------- MODULE MCPugVotes -----------------------------
(***************************************************************************)
(* PugVotes for TLC: three slots for two players, a bot and a newcomer;    *)
(* the players and the newcomer are alike.  Who kills his own has a skill  *)
(* below 0.                                                                *)
(***************************************************************************)
EXTENDS PugVotes

CONSTANTS ann, bob, cyd, bot

FewSkills == -1..2

Alike == Permutations({ann, bob, cyd})
=============================================================================
