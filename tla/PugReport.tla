------------------------------ MODULE PugReport ------------------------------
(***************************************************************************)
(* The report of the match: m_Match of CPugStats, which is written to the  *)
(* file of the match and sent to the API when the match ends, beside the   *)
(* match of PugMod.  CPugStats keeps a score of its own.  It hears of      *)
(* every change of the state after CPugMod has made it, and of every round *)
(* that a side won; of restarts, of a surrender and of whether a round     *)
(* counts it hears nothing.                                                *)
(***************************************************************************)
EXTENDS PugMod

VARIABLE m_Match  \* CPugStats::m_Match: Score, Rounds and Winner

reportVars == <<vars, m_Match>>

NoMatch == [Score |-> [team \in Team |-> 0], Rounds |-> 0, Winner |-> 0]

\* The side that is ahead, 0 for none.
Ahead(score) == IF score[TERRORIST] = score[CT] THEN 0
                ELSE IF score[TERRORIST] > score[CT] THEN TERRORIST ELSE CT
-----------------------------------------------------------------------------
\* Faulty Report: the scores stay at the halftime of an overtime.
ReportSwapsInRules(next) ==
    CASE next = STATE_HALFTIME -> IF TeamsSwapInRules
                                  THEN [m_Match EXCEPT !.Score = SwapSides(@)]
                                  ELSE m_Match
      [] next \in {STATE_SECOND_HALF, STATE_OVERTIME, STATE_END} -> m_Match
      [] OTHER -> NoMatch

\* CPugStats::SetState.  CPugMod has swapped m_Score by then, or has not, for the
\* same reason.
Report(next) ==
    CASE next = STATE_HALFTIME -> IF TeamsSwap
                                  THEN [m_Match EXCEPT !.Score = SwapSides(@)]
                                  ELSE m_Match
      [] next \in {STATE_SECOND_HALF, STATE_OVERTIME, STATE_END} -> m_Match
      [] OTHER -> NoMatch

\* CPugStats::RoundEnd, for a round that a side won.
ReportRound(winner) ==
    IF m_State \in Half
    THEN LET score == [m_Match.Score EXCEPT ![winner] = @ + 1]
         IN  m_Match' = [Score |-> score, Rounds |-> m_Match.Rounds + 1,
                         Winner |-> Ahead(score)]
    ELSE UNCHANGED m_Match
-----------------------------------------------------------------------------
(***************************************************************************)
(* The callbacks of the match that CPugStats hears of.                     *)
(***************************************************************************)
StateChanges ==
    /\ SetStateFires \/ SpectatorDrops
    /\ m_Match' = Report(m_State')

SideWins(winner) == RoundEnd(winner) /\ ReportRound(winner)

\* CPugMod::ServerDeactivate ends a match that is on.
LevelEnds ==
    /\ ServerDeactivate
    /\ m_Match' = IF Live(m_State) THEN Report(STATE_END) ELSE m_Match

LevelStarts == ServerActivate /\ m_Match' = NoMatch

\* The others do not reach it, a surrender and the restarts of a round among them.
Unheard ==
    /\ \/ Tick \/ RestartRound \/ RoundDraw
       \/ MapChangeFires \/ LO3Fires \/ VoteSwapFires \/ VoteOvertimeFires
       \/ VoteStops \/ WaitEnds \/ Picks
       \/ PlayersAct /\ ~SpectatorDrops
       \/ \E next \in AdminStates : AdminSetState(next)
    /\ UNCHANGED m_Match

ReportInit == Init /\ m_Match = NoMatch
ReportNext == \/ StateChanges \/ LevelEnds \/ LevelStarts \/ Unheard
              \/ \E winner \in Team : SideWins(winner)

ReportSpec == ReportInit /\ [][ReportNext]_reportVars

\* The fairness of PugMod's FairSpec: CPugStats hinders no callback.
FairReportSpec ==
    /\ ReportSpec
    /\ WF_vars(Tick) /\ WF_vars(RestartRound)
    /\ WF_vars(TaskFires) /\ WF_vars(VoteStops) /\ WF_vars(WaitEnds)
    /\ WF_vars(Picks)
    /\ WF_vars(ServerDeactivate) /\ WF_vars(ServerActivate)
-----------------------------------------------------------------------------
\* "Winner of match": the report of a match that has ended names the side that has
\* more rounds in CPugMod's score, which is the one that the players are shown.
ReportNamesWinner ==
    m_State = STATE_END /\ Up
        => m_Match.Winner = Ahead([team \in Team |-> GetScore(m_Score, team)])

\* CPugStats and CPugMod count the same rounds for the same sides, through halves,
\* swaps of sides and overtimes, if all sides stay and no round is won in the LO3.
ReportFollowsScore ==
    m_State \in Half \cup {STATE_HALFTIME, STATE_END} /\ Up
        => /\ \A team \in Team : m_Match.Score[team] = GetScore(m_Score, team)
           /\ m_Match.Rounds = GetRound(m_Score)
           /\ ReportNamesWinner
=============================================================================
