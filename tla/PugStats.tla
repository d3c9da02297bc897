------------------------------ MODULE PugStats ------------------------------
(***************************************************************************)
(* The players' statistics: m_Player and m_Match of CPugStats beside the   *)
(* match that MatchRules describes, with players who leave and come back   *)
(* and with the LO3 before each half.  CPugStats hears of every round that *)
(* a side wins, whether it counts or not; what it counts in the LO3 goes   *)
(* with the complete resets, in the halves that the code names.  Players   *)
(* are known by their SteamID; of their counters the rounds are kept.      *)
(***************************************************************************)
EXTENDS MatchRules, FiniteSets

CONSTANTS Person,         \* the SteamIDs
          MaxRounds,      \* bound on the rounds of a match, counted or not
          TransferRounds  \* bound on the rounds after which an admin moves players

ASSUME StatsAssumption == MaxRounds \in Nat /\ TransferRounds \in Nat

TERRORIST == 1
CT == 2
Team == {TERRORIST, CT}
Halves == {"first", "second", "overtime"}

VARIABLES roster,   \* the roster that plays as TERRORIST
          where,    \* the roster each person plays for, or "away"
          lo3,      \* 2: restarts to come, 1: not live yet, 0: rounds count
          m_Player, \* CPugStats::m_Player: Team, Winner and Stats by SteamID
          m_Match,  \* CPugStats::m_Match: Score, Rounds and Winner
          since,    \* history: what has seen the person in this match without a
                    \* break, or how he got to his side
          stray     \* history: what has counted a round of the LO3

statsVars == <<rulesVars, roster, where, lo3, m_Player, m_Match, since, stray>>

Present == {p \in Person : where[p] \in Rosters}
SideOf(r) == IF r = roster THEN TERRORIST ELSE CT
Other(side) == IF side = TERRORIST THEN CT ELSE TERRORIST
InHalf == half \in Halves

NoMatch == [Score |-> [side \in Team |-> 0], Rounds |-> 0, Winner |-> 0]
NoStats == [h \in Halves |-> [Play |-> 0, Win |-> 0]]
NewPlayer(side) == [Team |-> side, Winner |-> 0, Stats |-> NoStats]

NoPlayers == [p \in {} |-> NewPlayer(0)]
Known == DOMAIN m_Player

\* m_Player[Auth], which makes an entry if there is none.
Entry(p) == IF p \in Known THEN m_Player[p] ELSE NewPlayer(0)

\* Where the code writes m_Player[Auth].Team.
WithTeam(table, p, side) ==
    [q \in DOMAIN table \cup {p} |->
        IF q # p THEN table[q]
        ELSE IF p \in DOMAIN table THEN [table[p] EXCEPT !.Team = side]
        ELSE NewPlayer(side)]

Ahead(score) == IF score[TERRORIST] = score[CT] THEN 0
                ELSE IF score[TERRORIST] > score[CT] THEN TERRORIST ELSE CT
-----------------------------------------------------------------------------
(***************************************************************************)
(* A player chooses a team, switches sides, gets into the game or leaves,  *)
(* and an admin or the engine moves him.                                   *)
(***************************************************************************)
ChooseTeam(p, r) ==
    /\ where[p] = "away" \/ (half = "none" /\ where[p] # r)
    /\ where' = [where EXCEPT ![p] = r]
    /\ m_Player' = WithTeam(m_Player, p, SideOf(r))
    /\ since' = [since EXCEPT ![p] = "nothing"]
    /\ UNCHANGED <<rulesVars, roster, lo3, m_Match, stray>>

\* Who leaves has an entry from then on, even if he only looked on.
DropClient(p) ==
    /\ where' = [where EXCEPT ![p] = "away"]
    /\ m_Player' = IF p \in Known THEN m_Player ELSE WithTeam(m_Player, p, 0)
    /\ since' = [since EXCEPT ![p] = "nothing"]
    /\ UNCHANGED <<rulesVars, roster, lo3, m_Match, stray>>

\* CPugAdminMenu::TeamHandle: an admin moves a player in any state, to the spectators
\* too.  CPugStats hears of it only if the player gets into the game by it.
TeamHandle(p, to) ==
    /\ where[p] # to /\ m_Match.Rounds <= TransferRounds
    /\ where' = [where EXCEPT ![p] = to]
    /\ \/ m_Player' = m_Player
       \/ to \in Rosters /\ m_Player' = WithTeam(m_Player, p, SideOf(to))
    /\ since' = [since EXCEPT ![p] = IF to \in Rosters /\ half # "none"
                                     THEN "moved" ELSE "nothing"]
    /\ UNCHANGED <<rulesVars, roster, lo3, m_Match, stray>>

\* CPugStats::SwitchTeam for each player whom the engine puts on the other side.
SwitchTeams(players) ==
    [p \in Known \cup players |->
        IF p \in players THEN [Entry(p) EXCEPT !.Team = Other(SideOf(where[p]))]
                         ELSE m_Player[p]]

\* CSGameRules()->BalanceTeams puts some of the players on the other side, and so on
\* the other roster.  How many depends on players that are not among Person.
Balanced(players) ==
    [p \in Person |-> IF p \in players THEN Rival(where[p]) ELSE where[p]]
-----------------------------------------------------------------------------
(***************************************************************************)
(* CPugStats::RoundEnd.                                                    *)
(***************************************************************************)
\* Faulty PlayRound: a win is credited to the side of the report's leader.
PlayRoundOfLeader(p, winner, match) ==
    [Entry(p).Stats EXCEPT ![half].Play = @ + 1,
                              ![half].Win = IF SideOf(where[p]) = match.Winner
                                            THEN @ + 1 ELSE @]

\* The counters of a player who is in a team when a round ends.
PlayRound(p, winner, match) ==
    [Entry(p).Stats EXCEPT ![half].Play = @ + 1,
                              ![half].Win = IF SideOf(where[p]) = winner
                                            THEN @ + 1 ELSE @]

ScoreRound(winner) ==
    LET score == [m_Match.Score EXCEPT ![winner] = @ + 1]
    IN  [Score |-> score, Rounds |-> m_Match.Rounds + 1, Winner |-> Ahead(score)]

RoundEnd(winner) ==
    LET match == ScoreRound(winner)
    IN  /\ m_Match.Rounds < MaxRounds
        /\ m_Match' = match
        /\ m_Player' = [p \in Known \cup Present |->
              [Team   |-> Entry(p).Team,
               Winner |-> IF p \in Known /\ Entry(p).Team = match.Winner THEN 1 ELSE 0,
               Stats  |-> IF p \in Present THEN PlayRound(p, winner, match)
                          ELSE m_Player[p].Stats]]
        /\ since' = [p \in Person |-> IF p \in Present /\ since[p] = "nothing"
                                      THEN "round" ELSE since[p]]

\* A round that counts, for CPugMod too.
CountedRound(r) ==
    /\ lo3 = 0
    /\ Win(r) /\ RoundEnd(SideOf(r))
    /\ UNCHANGED <<roster, where, lo3, stray>>

\* A round won in the LO3, which only CPugStats counts.
UncountedRound(r) ==
    /\ InHalf /\ lo3 > 0
    /\ RoundEnd(SideOf(r))
    /\ stray' = stray \cup {"score", half}
    /\ UNCHANGED <<rulesVars, roster, where, lo3>>
-----------------------------------------------------------------------------
(***************************************************************************)
(* The restarts of the LO3.                                                *)
(***************************************************************************)
Cleared(stats, h) == [stats EXCEPT ![h] = NoStats[h]]
WithoutHalf(table, h) ==
    [p \in DOMAIN table |-> [table[p] EXCEPT !.Stats = Cleared(@, h)]]

\* Faulty ResetHalf: only the players who are in a team are reset.
ResetHalfOfPresent ==
    /\ m_Player' = IF half = "overtime" THEN m_Player
                   ELSE [p \in Known |-> IF p \in Present THEN WithoutHalf(m_Player, half)[p]
                                         ELSE m_Player[p]]
    /\ stray' = IF half = "overtime" THEN stray ELSE stray \ {half}

\* CPugStats::RestartRound on a complete reset.
ResetHalf ==
    /\ m_Player' = IF half = "overtime" THEN m_Player ELSE WithoutHalf(m_Player, half)
    /\ stray' = IF half = "overtime" THEN stray ELSE stray \ {half}

\* The restarts go on, or the last one is done.
LO3Restart ==
    /\ InHalf /\ lo3 = 2
    /\ ResetHalf
    /\ lo3' \in {1, 2}
    /\ UNCHANGED <<rulesVars, roster, where, m_Match, since>>

\* CPugLO3::Init(0): live, without another restart.
LO3Live ==
    /\ InHalf /\ lo3 = 1 /\ lo3' = 0
    /\ UNCHANGED <<rulesVars, roster, where, m_Player, m_Match, since, stray>>
-----------------------------------------------------------------------------
(***************************************************************************)
(* CPugStats::SetState, after CPugMod has entered the state.               *)
(***************************************************************************)
\* The match starts with only the players who are in a team now.
PlayersOfMatch(place) == [p \in Present |-> NewPlayer(SideOf(place[p]))]

FirstHalfStarts ==
    /\ Start
    /\ lo3' = 2
    /\ m_Match' = NoMatch
    /\ \E moved \in SUBSET Present : where' = Balanced(moved)
    /\ m_Player' = PlayersOfMatch(where')
    /\ since' = [p \in Person |-> IF p \in Present THEN "start" ELSE "nothing"]
    /\ stray' = {}
    /\ UNCHANGED roster

\* CPugMod swaps the sides, and CPugStats the scores, unless the match is tied
\* once its regular rounds are played.
SidesSwap == ~(/\ Played("first") + Played("second") >= 2 * HalfRounds
               /\ Regular("A") + wonOT["A"] = Regular("B") + wonOT["B"])

SwapScores == [m_Match EXCEPT !.Score = [side \in Team |-> m_Match.Score[Other(side)]]]

\* Faulty SwapSides: the scores of the report stay.
SwapSidesOnly ==
    /\ roster' = Rival(roster)
    /\ m_Player' = SwitchTeams(Present)
    /\ UNCHANGED m_Match

SwapSides ==
    /\ roster' = Rival(roster)
    /\ m_Player' = SwitchTeams(Present)
    /\ m_Match' = SwapScores

HalftimeStarts ==
    /\ Break
    /\ IF SidesSwap THEN SwapSides ELSE UNCHANGED <<roster, m_Player, m_Match>>
    /\ UNCHANGED <<where, lo3, since, stray>>

\* The teams are balanced before the second half: who has been there from the start
\* and is moved has played for both rosters.
SecondHalfStarts ==
    \E moved \in SUBSET Present :
        /\ where' = Balanced(moved)
        /\ m_Player' = WithoutHalf(SwitchTeams(moved), "second")
        /\ since' = [p \in Person |->
              IF p \notin moved THEN since[p]
              ELSE IF since[p] = "start" THEN "switched"
              ELSE IF since[p] = "switched" THEN "round" ELSE since[p]]

NextHalfStarts ==
    /\ Resume
    /\ lo3' = 2
    /\ IF half' = "second" THEN SecondHalfStarts ELSE UNCHANGED <<where, m_Player, since>>
    /\ UNCHANGED <<roster, m_Match, stray>>

\* CPugStats::DumpData reports the rounds of all halves together.
RoundPlay(p) == LET stats == m_Player[p].Stats
                IN  stats["first"].Play + stats["second"].Play + stats["overtime"].Play

\* The report is written from m_Match and m_Player as they are.
MatchEnds ==
    Finish /\ UNCHANGED <<roster, where, lo3, m_Player, m_Match, since, stray>>

\* In STATE_DEAD, and when a level starts, nobody is in a team, and the players are
\* forgotten too.
MatchIsForgotten ==
    /\ Forget
    /\ m_Match' = NoMatch
    /\ \/ m_Player' = m_Player
       \/ Present = {} /\ m_Player' = NoPlayers
    /\ since' = [p \in Person |-> "nothing"] /\ stray' = {}
    /\ UNCHANGED <<roster, where, lo3>>
-----------------------------------------------------------------------------
StatsInit ==
    /\ Init
    /\ roster = "A" /\ where = [p \in Person |-> "away"] /\ lo3 = 0
    /\ m_Player = NoPlayers /\ m_Match = NoMatch
    /\ since = [p \in Person |-> "nothing"] /\ stray = {}

StatsNext ==
    \/ \E p \in Person :
          \/ DropClient(p)
          \/ \E r \in Rosters : ChooseTeam(p, r)
          \/ \E to \in Rosters \cup {"away"} : TeamHandle(p, to)
    \/ \E r \in Rosters : CountedRound(r) \/ UncountedRound(r)
    \/ LO3Restart \/ LO3Live
    \/ FirstHalfStarts \/ HalftimeStarts \/ NextHalfStarts
    \/ MatchEnds \/ MatchIsForgotten

StatsSpec == StatsInit /\ [][StatsNext]_statsVars
-----------------------------------------------------------------------------
StatsTypeOK ==
    /\ RulesTypeOK
    /\ roster \in Rosters /\ where \in [Person -> Rosters \cup {"away"}]
    /\ lo3 \in 0..2
    /\ Known \subseteq Person
    /\ m_Player \in [Known -> [Team: 0..2, Winner: 0..1,
                              Stats: [Halves -> [Play: Nat, Win: Nat]]]]
    /\ m_Match \in [Score: [Team -> Nat], Rounds: Nat, Winner: 0..2]
    /\ since \in [Person -> {"start", "switched", "round", "moved", "nothing"}]
    /\ stray \subseteq {"score"} \cup Halves

\* The roster that a player who stayed has played a half for.
RosterIn(p, h) == IF since[p] = "switched" /\ h = "first" THEN Rival(where[p])
                                                       ELSE where[p]

\* The report says of whoever stayed, and was moved by nobody but the engine, that he
\* played every round of a half and won those of the roster that he played it for,
\* although the rounds of the LO3 were counted too, the sides swapped and the teams
\* were balanced at halftime.
RoundsAreReported ==
    \A p \in Person : half # "none" /\ since[p] \in {"start", "switched"} =>
        \A h \in {"first", "second"} \ stray :
            /\ m_Player[p].Stats[h].Play = Played(h)
            /\ m_Player[p].Stats[h].Win = won[RosterIn(p, h)][h]

\* Nobody is reported with more rounds than were played, whenever he came and went:
\* not in a half, and not in the match.
NoRoundTooMany ==
    half # "none" => \A p \in Known :
        /\ RoundPlay(p) <= m_Match.Rounds
        /\ \A h \in {"first", "second"} \ stray :
              m_Player[p].Stats[h].Play <= Played(h)

\* At the end of the match the players of the roster that won it are the winners,
\* those who came back in time and those whom the balance moved among them.  Of a
\* player whom an admin has moved CPugStats may have the side that he was on before.
\* (The last round decides it, so rounds that were won in the LO3 must not have
\* counted.)
WinnersAreFlagged ==
    half = "over" /\ "score" \notin stray =>
        \A p \in Person : since[p] \in {"start", "switched", "round"} =>
            (m_Player[p].Winner = 1 <=>
                Regular(where[p]) + wonOT[where[p]]
                    > Regular(Rival(where[p])) + wonOT[Rival(where[p])])
=============================================================================
