---------------------------- MODULE PugModRules ----------------------------
(***************************************************************************)
(* PugMod implements MatchRules.  The refinement mapping reads CPugMod's   *)
(* scores as the rosters' own: a roster has the score of the side it is on *)
(* at the time, so the swap of sides at halftime must move scores and      *)
(* players together to be invisible to the rules.  Everything before a     *)
(* first half (warm-up, votes, captain pick, knife round) is "none", and   *)
(* LO3 restarts, task slots and the clock are stuttering.                  *)
(***************************************************************************)
EXTENDS PugMod

SideOf(r) == IF r = roster THEN TERRORIST ELSE CT

HalfOfMatch ==
    CASE m_State = STATE_FIRST_HALF -> "first"
      [] m_State = STATE_HALFTIME -> "break"
      [] m_State = STATE_SECOND_HALF -> "second"
      [] m_State = STATE_OVERTIME -> "overtime"
      [] m_State = STATE_END -> "over"
      [] OTHER -> "none"

WonOf(r) == [h \in {"first", "second"} |->
                m_Score[SideOf(r)][IF h = "first" THEN STATE_FIRST_HALF
                                                  ELSE STATE_SECOND_HALF]]

Rules == INSTANCE MatchRules
            WITH half <- HalfOfMatch,
                 won <- [r \in Roster |-> WonOf(r)],
                 wonOT <- [r \in Roster |-> m_ScoreOT[SideOf(r)]]

\* Where ties go to overtime and nobody leaves, CPugMod plays by MatchRules.
KeepsTheRules == Rules!Spec
=============================================================================
