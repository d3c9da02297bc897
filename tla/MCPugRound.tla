----------------------------- MODULE MCPugRound -----------------------------
(***************************************************************************)
(* PugRound for TLC: two players against one, which a trade needs, who     *)
(* share two slots.  Teammates are alike, and so are the slots.            *)
(***************************************************************************)
EXTENDS PugRound, TLC

CONSTANTS ann, bob, cyd

MCSide == [p \in {ann, bob, cyd} |-> IF p = cyd THEN "CT" ELSE "TERRORIST"]

Alike == Permutations(Slot) \cup Permutations({ann, bob})
=============================================================================
