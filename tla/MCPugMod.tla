------------------------------ MODULE MCPugMod ------------------------------
(***************************************************************************)
(* The model TLC checks: PugMod and its refinement of MatchRules.  The     *)
(* configurations give the cvars of a small match as constants: seconds    *)
(* and rounds are small numbers, MaxRound ends a match that would go on in *)
(* overtime, and AdminStates and Churn say who disturbs it.                *)
(***************************************************************************)
EXTENDS PugModRules
=============================================================================
