---------------------------- MODULE MCPugReport ----------------------------
(***************************************************************************)
(* The match with its report and its rules, for TLC: a match that nobody   *)
(* disturbs, with halves of three rounds and overtimes.                    *)
(***************************************************************************)
EXTENDS PugReport, PugModRules
=============================================================================
