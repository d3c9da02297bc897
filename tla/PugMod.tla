------------------------------- MODULE PugMod -------------------------------
(***************************************************************************)
(* The match of PugMod: CPugMod's state machine and scores, the LO3        *)
(* restarts, the waiting phase (CPugReady or CPugTimer), the six votes as  *)
(* far as they decide what the match does next, the task slots that carry  *)
(* every delayed transition, and the engine's round as the plugin sees it. *)
(*                                                                         *)
(* Everything runs on the server's only thread.  An action is one callback *)
(* of the engine run to its end: a task that came due in StartFrame, a     *)
(* vote that stopped, a round that ended, a client that dropped, a menu    *)
(* item somebody chose.  What is left to chance is the order of callbacks  *)
(* within a second (a step of the clock is Tick).                          *)
(***************************************************************************)
EXTENDS Integers, FiniteSets, PugTask

CONSTANTS
    Rounds,        \* pug_rounds
    RoundsOT,      \* pug_rounds_ot
    OvertimeType,  \* pug_ot_type: 0 vote, 1 play, 2 tie, 3 sudden death
    ReadyType,     \* pug_ready_type: 0 off, 1 CPugTimer, 2 CPugReady
    PlayersMin,    \* pug_players_min, per team
    PlayersMax,    \* pug_players_max, per team
    TeamType,      \* pug_team_type: 0 vote, else a VOTE_TEAM_* value
    KnifeRound,    \* pug_knife_round # 0
    VoteDelay,     \* pug_vote_delay, seconds
    RestartDelay,  \* mp_round_restart_delay, seconds; also RoundEnd's tmDelay
    KnifeDelay,    \* the same cvar in kniferound.cfg
    FreezeTime,    \* mp_freezetime of the match configs, seconds
    MapChoice,     \* whether the map list has a map to vote for
    AdminStates,   \* the states an admin may force from the pug menu
    Churn,         \* whether players join, leave and use the vote menu
    MaxRound       \* bound of the model: no round ends after this many

STATE_DEAD == 0
STATE_DEATHMATCH == 1
STATE_VOTEMAP == 2
STATE_VOTETEAM == 3
STATE_CAPTAIN == 4
STATE_KNIFE_ROUND == 5
STATE_FIRST_HALF == 6
STATE_HALFTIME == 7
STATE_SECOND_HALF == 8
STATE_OVERTIME == 9
STATE_END == 10
State == STATE_DEAD .. STATE_END

TERRORIST == 1
CT == 2
Team == {TERRORIST, CT}
Other(team) == IF team = TERRORIST THEN CT ELSE TERRORIST

\* The entries of m_Score that anything reads.  The code also counts knife
\* rounds in m_Score[...][STATE_KNIFE_ROUND]; nothing reads that entry.
Half == {STATE_FIRST_HALF, STATE_SECOND_HALF, STATE_OVERTIME}

\* E_TASK values that move the match.  ROUND_MESSAGE only prints, and
\* LEADER_MENU, PAUSE_MATCH and RAGE_BAN_CHECK belong to other components.
Slot == {"SET_STATE", "MAP_CHANGE", "VOTE_SWAP_TEAM", "LO3_RESTART",
         "VOTE_OVERTIME"}

\* The votes with a deadline: CPugVoteMap, CPugVoteTeam, CPugVoteSwapTeam,
\* CPugVoteOvertime and CPugVoteEnd.  The captain pick is m_Leader.
Vote == {"MAP", "TEAM", "SWAP", "OVERTIME", "END"}

VOTE_TEAM_CAPTAIN == 1
VOTE_TEAM_RANDOM == 2
VOTE_TEAM_UNSORTED == 3
VOTE_TEAM_SKILL_BALANCE == 4
VOTE_TEAM_SWAP_SIDES == 5
VOTE_TEAM_KNIFE_ROUND == 6

ASSUME ConfigAssumption ==
    /\ Rounds \in Nat /\ Rounds >= 2
    /\ RoundsOT \in Nat
    /\ OvertimeType \in 0..3
    /\ ReadyType \in 0..2
    /\ PlayersMin \in Nat /\ PlayersMin >= 1
    /\ PlayersMax \in Nat /\ PlayersMax >= PlayersMin
    /\ TeamType \in 0..6
    /\ KnifeRound \in BOOLEAN
    /\ VoteDelay \in Nat /\ FreezeTime \in Nat
    /\ RestartDelay \in Nat /\ KnifeDelay \in Nat
    /\ AdminStates \subseteq {STATE_DEAD, STATE_DEATHMATCH, STATE_VOTEMAP,
                              STATE_VOTETEAM, STATE_CAPTAIN,
                              STATE_KNIFE_ROUND, STATE_FIRST_HALF, STATE_END}
    /\ MapChoice \in BOOLEAN /\ Churn \in BOOLEAN
    /\ MaxRound \in Nat

VARIABLES
    m_State,          \* CPugMod::m_State
    m_Score,          \* CPugMod::m_Score, per side and half
    m_ScoreOT,        \* CPugMod::m_ScoreOT, per side
    m_Task,           \* CPugTask::m_Task, the slots of Slot
    m_Wait,           \* m_Run and m_NextState of CPugReady or CPugTimer
    m_Vote,           \* m_Run and the deadline of each vote
    m_Leader,         \* CPugLeader::m_Run, and how many wait to be picked
    m_VoteMap,        \* the cvar pug_vote_map, which the plugin writes
    m_bGameStarted,   \* CSGameRules()->m_bGameStarted
    m_bCompleteReset, \* CSGameRules()->m_bCompleteReset
    round,            \* the engine's round
    players,          \* players on each side, as GetPlayers counts them
    server,           \* "active", "changing" level or "down" between maps
    roster,           \* history: which roster plays on the Terrorist side
    won,              \* history: rounds each roster won, per half
    wonOT             \* history: rounds each roster won in this overtime

scoreVars == <<m_Score, m_ScoreOT, won, wonOT>>
voteVars == <<m_Vote, m_Leader>>
gameVars == <<m_bGameStarted, m_bCompleteReset, round>>
teamVars == <<players, roster>>
vars == <<m_State, scoreVars, m_Task, m_Wait, voteVars, m_VoteMap, gameVars,
          teamVars, server>>

Roster == {"A", "B"}
OtherRoster(r) == IF r = "A" THEN "B" ELSE "A"
\* The roster that plays on a side.
RosterOf(team) == IF team = TERRORIST THEN roster ELSE OtherRoster(roster)

Live(state) == STATE_FIRST_HALF <= state /\ state <= STATE_OVERTIME
Playing(state) == state = STATE_KNIFE_ROUND \/ state \in Half

Idle == [run |-> FALSE, next |-> STATE_VOTEMAP]
Waiting(next) == [run |-> TRUE, next |-> next]

NoRounds == [h \in Half |-> 0]
ZeroScore == [t \in Team |-> NoRounds]
ZeroOT == [t \in Team |-> 0]

GetScore(score, team) ==
    score[team][STATE_FIRST_HALF] + score[team][STATE_SECOND_HALF]
        + score[team][STATE_OVERTIME]
GetRound(score) == GetScore(score, TERRORIST) + GetScore(score, CT)

HalfRounds == Rounds \div 2
HalfRoundsOT == RoundsOT \div 2

PlayerCount == players[TERRORIST] + players[CT]

\* No callback reaches the plugin between ServerDeactivate and ServerActivate.
Up == server # "down"

\* Every way to have n players on the two sides.
Split(n) == {p \in [Team -> 0..PlayersMax] : p[TERRORIST] + p[CT] = n}
Abs(n) == IF n < 0 THEN -n ELSE n
Even(p) == Abs(p[TERRORIST] - p[CT]) <= 1

\* CHalfLifeMultiplay::BalanceTeams: half of the surplus changes side.
Balanced(p) ==
    LET big == IF p[TERRORIST] > p[CT] THEN TERRORIST ELSE CT
        move == (p[big] - p[Other(big)]) \div 2
    IN  [p EXCEPT ![big] = @ - move, ![Other(big)] = @ + move]

\* CHalfLifeMultiplay::SwapAllPlayers, and the history of who plays where.
SwapSides(f) == [t \in Team |-> f[Other(t)]]
SwapAllPlayers == /\ players' = SwapSides(players)
                  /\ roster' = OtherRoster(roster)
-----------------------------------------------------------------------------
(***************************************************************************)
(* CPugMod::SetState.  Each Enter operator is one case of its switch.  It  *)
(* takes the task map it starts from, because CPugTask::StartFrame has     *)
(* already switched the due slot off when Execute gets here.               *)
(***************************************************************************)
ClearScores == /\ m_Score' = ZeroScore /\ won' = [r \in Roster |-> NoRounds]
               /\ m_ScoreOT' = ZeroOT /\ wonOT' = [r \in Roster |-> 0]

\* CPugReady::Stop(true) and CPugTimer::Stop(true).
StopWaiting == m_Wait' = Idle

\* Faulty LO3Init, off by one: a fifth restart.
LO3InitOffByOne(restart, t) ==
    /\ m_bGameStarted' = (restart < 0) /\ m_bCompleteReset' = (restart >= 0)
    /\ round' = IF restart >= 0 THEN [phase |-> "restart", left |-> 1] ELSE round
    /\ m_Task' = IF restart >= 0 THEN Create(t, "LO3_RESTART", 3, FALSE, restart - 1)
                                 ELSE t

\* Faulty LO3Init: a match that is live when the restarts begin stays live.
LO3InitStaysLive(restart, t) ==
    /\ m_bGameStarted' = (restart <= 0 \/ m_bGameStarted)
    /\ m_bCompleteReset' = (restart > 0)
    /\ round' = IF restart > 0 THEN [phase |-> "restart", left |-> 1] ELSE round
    /\ m_Task' = IF restart > 0 THEN Create(t, "LO3_RESTART", 3, FALSE, restart - 1)
                                ELSE t

\* Faulty LO3Init: the last restart does not make the game live.
LO3InitNeverLive(restart, t) ==
    /\ m_bGameStarted' = FALSE /\ m_bCompleteReset' = (restart > 0)
    /\ round' = IF restart > 0 THEN [phase |-> "restart", left |-> 1] ELSE round
    /\ m_Task' = IF restart > 0 THEN Create(t, "LO3_RESTART", 3, FALSE, restart - 1)
                                ELSE t

\* CPugLO3::Init: four restarts three seconds apart, then the game is live.
LO3Init(restart, t) ==
    IF restart > 0
    THEN /\ m_bGameStarted' = FALSE
         /\ m_bCompleteReset' = TRUE
         /\ round' = [phase |-> "restart", left |-> 1]
         /\ m_Task' = Create(t, "LO3_RESTART", 3, FALSE, restart - 1)
    ELSE /\ m_bGameStarted' = TRUE
         /\ m_bCompleteReset' = FALSE
         /\ UNCHANGED round
         /\ m_Task' = t

EnterDead(t) ==
    /\ ClearScores /\ StopWaiting
    /\ m_Task' = t
    /\ UNCHANGED <<voteVars, m_VoteMap, gameVars, teamVars>>

EnterDeathmatch(t) ==
    /\ ClearScores
    /\ m_Wait' = IF ReadyType = 0 THEN Idle
                 ELSE Waiting(IF m_VoteMap THEN STATE_VOTEMAP ELSE STATE_VOTETEAM)
    /\ m_Task' = t
    /\ UNCHANGED <<voteVars, m_VoteMap, gameVars, teamVars>>

\* A vote that opens remembers whether anybody is there to vote.
Voters == IF PlayerCount = 0 THEN 0 ELSE 1

\* CPugVoteMap::Init and CPugVoteTeam::Init restart the round at once.
OpenRoundVote(v) ==
    /\ m_Vote' = Create(m_Vote, v, VoteDelay, FALSE, Voters)
    /\ round' = [phase |-> "restart", left |-> 0]
    /\ m_bCompleteReset' = TRUE
    /\ UNCHANGED <<m_Leader, m_bGameStarted>>

EnterVoteMap(t) ==
    /\ ClearScores /\ StopWaiting
    /\ m_VoteMap' = FALSE
    /\ IF MapChoice
       THEN OpenRoundVote("MAP") /\ m_Task' = t
       ELSE /\ m_Task' = Create(t, "SET_STATE", 1, FALSE, STATE_VOTETEAM)
            /\ UNCHANGED <<voteVars, gameVars>>
    /\ UNCHANGED teamVars

\* CPugVoteTeam::ChangeTeam.  A shuffle makes new rosters; the history keeps
\* the names and lets either of them be the one on the Terrorist side.
ChangeTeam(type, t) ==
    /\ m_Task' = Create(t, "SET_STATE", 2, FALSE,
                        CASE type = VOTE_TEAM_CAPTAIN -> STATE_CAPTAIN
                          [] type = VOTE_TEAM_KNIFE_ROUND -> STATE_KNIFE_ROUND
                          [] OTHER -> IF KnifeRound THEN STATE_KNIFE_ROUND
                                                    ELSE STATE_FIRST_HALF)
    /\ \/ /\ type = VOTE_TEAM_RANDOM
          /\ players' \in {p \in Split(PlayerCount) : Even(p)}
          /\ roster' \in Roster
       \/ /\ type = VOTE_TEAM_SKILL_BALANCE
          /\ players' \in Split(PlayerCount)
          /\ roster' \in Roster
       \/ type = VOTE_TEAM_SWAP_SIDES /\ SwapAllPlayers
       \/ /\ type \in {VOTE_TEAM_CAPTAIN, VOTE_TEAM_UNSORTED, VOTE_TEAM_KNIFE_ROUND}
          /\ UNCHANGED teamVars

EnterVoteTeam(t) ==
    /\ ClearScores /\ StopWaiting
    /\ m_VoteMap' = TRUE
    /\ IF TeamType > 0
       THEN ChangeTeam(TeamType, t) /\ UNCHANGED <<voteVars, gameVars>>
       ELSE OpenRoundVote("TEAM") /\ m_Task' = t /\ UNCHANGED teamVars

\* CPugLeader::Init sends everybody but one captain per side to the
\* spectators, from where the captains pick.
EnterCaptain(t) ==
    /\ ClearScores /\ StopWaiting
    /\ IF \A team \in Team : players[team] >= 2
       THEN /\ m_Leader' = [run |-> TRUE, pool |-> PlayerCount - 2]
            /\ players' = [team \in Team |-> 1]
            /\ roster' \in Roster
            /\ m_Task' = t
       ELSE /\ m_Task' = Create(t, "SET_STATE", 2, FALSE, STATE_DEATHMATCH)
            /\ players' = Balanced(players)
            /\ UNCHANGED <<m_Leader, roster>>
    /\ UNCHANGED <<m_Vote, m_VoteMap, gameVars>>

EnterKnifeRound(t) ==
    /\ ClearScores /\ StopWaiting
    /\ players' = Balanced(players)
    /\ LO3Init(4, t)
    /\ UNCHANGED <<voteVars, m_VoteMap, roster>>

EnterFirstHalf(t) == EnterKnifeRound(t)

\* Faulty TeamsSwap: no swap once the rules' rounds are over, tied or not.
TeamsSwapInRules == GetRound(m_Score) < Rounds

\* The sides stay as they are when the rules' rounds are over and tied.
TeamsSwap == GetRound(m_Score) < Rounds
             \/ GetScore(m_Score, TERRORIST) # GetScore(m_Score, CT)
\* Faulty SwapTeams: the overtime scores stay on their sides.
SwapTeamsKeepsOT ==
    IF TeamsSwap
    THEN /\ SwapAllPlayers
         /\ m_bCompleteReset' = FALSE
         /\ round' = [phase |-> "play", left |-> FreezeTime]
         /\ m_Score' = SwapSides(m_Score)
         /\ UNCHANGED <<m_bGameStarted, m_ScoreOT, won, wonOT>>
    ELSE UNCHANGED <<teamVars, gameVars, scoreVars>>

\* CPugMod::SwapTeams.  It restarts the round before the scores change hands, and
\* the state being STATE_HALFTIME already, CPugMod::RestartRound clears none.
SwapTeams ==
    IF TeamsSwap
    THEN /\ SwapAllPlayers
         /\ m_bCompleteReset' = FALSE
         /\ round' = [phase |-> "play", left |-> FreezeTime]
         /\ m_Score' = SwapSides(m_Score)
         /\ m_ScoreOT' = SwapSides(m_ScoreOT)
         /\ UNCHANGED <<m_bGameStarted, won, wonOT>>
    ELSE UNCHANGED <<teamVars, gameVars, scoreVars>>

\* What the faulty variants of EnterHalftime have in common.
HalftimeTo(t, next, few, wait) ==
    /\ SwapTeams
    /\ m_Wait' = IF wait THEN Waiting(next) ELSE m_Wait
    /\ m_Task' = IF few THEN t ELSE Create(t, "SET_STATE", 3, FALSE, next)
    /\ UNCHANGED <<voteVars, m_VoteMap>>

EnterHalftime(t) ==
    LET next == IF GetRound(m_Score) < Rounds THEN STATE_SECOND_HALF
                                              ELSE STATE_OVERTIME
        few == PlayerCount < 2 * PlayersMin
    IN  /\ SwapTeams
        /\ m_Wait' = IF few /\ ReadyType # 0 THEN Waiting(next) ELSE m_Wait
        /\ m_Task' = IF few THEN t ELSE Create(t, "SET_STATE", 3, FALSE, next)
        /\ UNCHANGED <<voteVars, m_VoteMap>>

\* CPugMod::SetScore(team, half, 0) for both teams.
ZeroHalf(half) ==
    /\ m_Score' = [team \in Team |-> [m_Score[team] EXCEPT ![half] = 0]]
    /\ won' = [r \in Roster |-> [won[r] EXCEPT ![half] = 0]]
    /\ UNCHANGED <<m_ScoreOT, wonOT>>

EnterSecondHalf(t) ==
    /\ ZeroHalf(STATE_SECOND_HALF) /\ StopWaiting
    /\ players' = Balanced(players)
    /\ LO3Init(4, t)
    /\ UNCHANGED <<voteVars, m_VoteMap, roster>>

EnterOvertime(t) ==
    /\ StopWaiting
    /\ IF m_ScoreOT[TERRORIST] + m_ScoreOT[CT] >= 2 * HalfRoundsOT
       THEN m_ScoreOT' = ZeroOT /\ wonOT' = [r \in Roster |-> 0]
       ELSE UNCHANGED <<m_ScoreOT, wonOT>>
    /\ LO3Init(4, t)
    /\ UNCHANGED <<m_Score, won, voteVars, m_VoteMap, teamVars>>

EnterEnd(t) ==
    /\ m_VoteMap' = TRUE
    /\ m_Task' = Create(t, "SET_STATE", RestartDelay + 1, FALSE,
                        IF PlayerCount >= PlayersMin THEN STATE_VOTEMAP
                                                     ELSE STATE_DEATHMATCH)
    /\ UNCHANGED <<scoreVars, m_Wait, voteVars, gameVars, teamVars>>

SetState(s, t) ==
    /\ m_State' = s
    /\ \/ s = STATE_DEAD /\ EnterDead(t)
       \/ s = STATE_DEATHMATCH /\ EnterDeathmatch(t)
       \/ s = STATE_VOTEMAP /\ EnterVoteMap(t)
       \/ s = STATE_VOTETEAM /\ EnterVoteTeam(t)
       \/ s = STATE_CAPTAIN /\ EnterCaptain(t)
       \/ s = STATE_KNIFE_ROUND /\ EnterKnifeRound(t)
       \/ s = STATE_FIRST_HALF /\ EnterFirstHalf(t)
       \/ s = STATE_HALFTIME /\ EnterHalftime(t)
       \/ s = STATE_SECOND_HALF /\ EnterSecondHalf(t)
       \/ s = STATE_OVERTIME /\ EnterOvertime(t)
       \/ s = STATE_END /\ EnterEnd(t)
-----------------------------------------------------------------------------
(***************************************************************************)
(* Rounds, as the hooks on the engine's RoundEnd and RestartRound see them. *)
(***************************************************************************)
\* The engine restarts the round: after a round's end, after sv_restart, or
\* because a vote set m_flRestartRoundTime.  The hook runs CPugMod's handler,
\* the engine clears m_bCompleteReset, and the handler runs again.  The round
\* that begins is frozen for a while.
RestartRoundFrozen(seconds) ==
    /\ Up /\ round.phase # "play" /\ round.left = 0
    /\ IF m_bCompleteReset /\ m_State \in {STATE_FIRST_HALF, STATE_SECOND_HALF}
       THEN ZeroHalf(m_State)
       ELSE UNCHANGED scoreVars
    /\ m_bCompleteReset' = FALSE
    /\ round' = [phase |-> "play", left |-> seconds]
    /\ UNCHANGED <<m_State, m_Task, m_Wait, voteVars, m_VoteMap, m_bGameStarted,
                   teamVars, server>>

RestartRound == RestartRoundFrozen(FreezeTime)

\* Faulty AfterFirstHalf: the transition comes after the next freeze time, or a
\* round late.
AfterFirstHalfLate(score, t) ==
    IF score[TERRORIST][STATE_FIRST_HALF] + score[CT][STATE_FIRST_HALF] = HalfRounds
    THEN Create(t, "SET_STATE", RestartDelay + FreezeTime + 1, FALSE, STATE_HALFTIME)
    ELSE t
AfterFirstHalfOffByOne(score, t) ==
    IF score[TERRORIST][STATE_FIRST_HALF] + score[CT][STATE_FIRST_HALF] > HalfRounds
    THEN Create(t, "SET_STATE", RestartDelay + 1, FALSE, STATE_HALFTIME)
    ELSE t

\* The transition that a won round causes, given the scores that include it.
\* RestartDelay is the tmDelay the engine passes.
AfterFirstHalf(score, t) ==
    IF score[TERRORIST][STATE_FIRST_HALF] + score[CT][STATE_FIRST_HALF] = HalfRounds
    THEN Create(t, "SET_STATE", RestartDelay + 1, FALSE, STATE_HALFTIME)
    ELSE t

RegularScore(score, team) ==
    score[team][STATE_FIRST_HALF] + score[team][STATE_SECOND_HALF]

\* Faulty AfterSecondHalf: only one side can win; or an overtime of an odd number of
\* rounds is played.
AfterSecondHalfOneSide(score, t) ==
    IF RegularScore(score, CT) > HalfRounds
    THEN Create(t, "SET_STATE", RestartDelay + 1, FALSE, STATE_END)
    ELSE t
AfterSecondHalfAnyOT(score, t) ==
    IF \E team \in Team : RegularScore(score, team) > HalfRounds
    THEN Create(t, "SET_STATE", RestartDelay + 1, FALSE, STATE_END)
    ELSE IF \A team \in Team : RegularScore(score, team) = HalfRounds
    THEN Create(t, "SET_STATE", RestartDelay + 1, FALSE, STATE_HALFTIME)
    ELSE t

AfterSecondHalf(score, t) ==
    IF \E team \in Team : RegularScore(score, team) > HalfRounds
    THEN Create(t, "SET_STATE", RestartDelay + 1, FALSE, STATE_END)
    ELSE IF /\ \A team \in Team : RegularScore(score, team) = HalfRounds
            /\ RoundsOT > 1 /\ RoundsOT % 2 = 0
    THEN CASE OvertimeType = 0 ->
                Create(t, "VOTE_OVERTIME", RestartDelay + 1, FALSE, 0)
           [] OvertimeType = 1 ->
                Create(t, "SET_STATE", RestartDelay + 1, FALSE, STATE_HALFTIME)
           [] OvertimeType = 2 ->
                Create(t, "SET_STATE", RestartDelay + 1, FALSE, STATE_END)
           [] OvertimeType = 3 -> t
    ELSE t

\* Faulty AfterOvertime: half of the rounds wins an overtime.
AfterOvertimeAtLeast(scoreOT, t) ==
    IF scoreOT[TERRORIST] + scoreOT[CT] = HalfRoundsOT
    THEN Create(t, "SET_STATE", RestartDelay + 1, FALSE, STATE_HALFTIME)
    ELSE IF \E team \in Team : scoreOT[team] >= HalfRoundsOT
    THEN Create(t, "SET_STATE", RestartDelay + 1, FALSE, STATE_END)
    ELSE t

AfterOvertime(scoreOT, t) ==
    IF scoreOT[TERRORIST] + scoreOT[CT] = HalfRoundsOT
    THEN Create(t, "SET_STATE", RestartDelay + 1, FALSE, STATE_HALFTIME)
    ELSE IF \E team \in Team : scoreOT[team] > HalfRoundsOT
    THEN Create(t, "SET_STATE", RestartDelay + 1, FALSE, STATE_END)
    ELSE IF \A team \in Team : scoreOT[team] = HalfRoundsOT
    THEN IF OvertimeType = 0
         THEN Create(t, "VOTE_OVERTIME", RestartDelay + 1, FALSE, 0)
         ELSE Create(t, "SET_STATE", RestartDelay + 1, FALSE, STATE_HALFTIME)
    ELSE t

\* A knife round only starts the winners' vote; its score is never read.
CountKnife(winner) ==
    /\ m_Task' = Create(m_Task, "VOTE_SWAP_TEAM", 1, FALSE, winner)
    /\ UNCHANGED scoreVars

CountRound(winner) ==
    LET r == RosterOf(winner)
        ot == m_State = STATE_OVERTIME
        score == [m_Score EXCEPT ![winner][m_State] = @ + 1]
        scoreOT == IF ot THEN [m_ScoreOT EXCEPT ![winner] = @ + 1] ELSE m_ScoreOT
    IN  /\ m_Score' = score /\ won' = [won EXCEPT ![r][m_State] = @ + 1]
        /\ m_ScoreOT' = scoreOT
        /\ wonOT' = IF ot THEN [wonOT EXCEPT ![r] = @ + 1] ELSE wonOT
        /\ m_Task' = CASE m_State = STATE_FIRST_HALF -> AfterFirstHalf(score, m_Task)
                       [] m_State = STATE_SECOND_HALF -> AfterSecondHalf(score, m_Task)
                       [] m_State = STATE_OVERTIME -> AfterOvertime(scoreOT, m_Task)

\* The round is over until the engine restarts it.
RoundOver ==
    round' = [phase |-> "over",
              left |-> IF m_State = STATE_KNIFE_ROUND THEN KnifeDelay
                                                      ELSE RestartDelay]

\* CPugMod::RoundEnd.  A draw, and a round of the LO3 restarts, count nothing.
Counts == m_bGameStarted /\ ~m_bCompleteReset

RoundEnd(winner) ==
    /\ Up /\ Playing(m_State)
    /\ round = [phase |-> "play", left |-> 0]
    /\ GetRound(m_Score) < MaxRound
    /\ \/ Counts /\ m_State = STATE_KNIFE_ROUND /\ CountKnife(winner)
       \/ Counts /\ m_State # STATE_KNIFE_ROUND /\ CountRound(winner)
       \/ ~Counts /\ UNCHANGED <<scoreVars, m_Task>>
    /\ RoundOver
    /\ UNCHANGED <<m_State, m_Wait, voteVars, m_VoteMap, m_bGameStarted,
                   m_bCompleteReset, teamVars, server>>

RoundDraw ==
    /\ Up /\ Playing(m_State)
    /\ round = [phase |-> "play", left |-> 0]
    /\ RoundOver
    /\ UNCHANGED <<m_State, scoreVars, m_Task, m_Wait, voteVars, m_VoteMap,
                   m_bGameStarted, m_bCompleteReset, teamVars, server>>
-----------------------------------------------------------------------------
(***************************************************************************)
(* CPugTask::StartFrame and Execute: one action per slot that moves the    *)
(* match.                                                                  *)
(***************************************************************************)
SetStateFires ==
    /\ Up /\ IsDue(m_Task, "SET_STATE")
    /\ SetState(m_Task["SET_STATE"].param, Rearm(m_Task, "SET_STATE"))
    /\ UNCHANGED server

\* CPugMapList::ChangeMap queues the engine's changelevel.
MapChangeFires ==
    /\ Up /\ IsDue(m_Task, "MAP_CHANGE")
    /\ m_Task' = Rearm(m_Task, "MAP_CHANGE")
    /\ m_VoteMap' = FALSE
    /\ server' = "changing"
    /\ UNCHANGED <<m_State, scoreVars, m_Wait, voteVars, gameVars, teamVars>>

LO3Fires ==
    /\ Up /\ IsDue(m_Task, "LO3_RESTART")
    /\ LO3Init(m_Task["LO3_RESTART"].param, Rearm(m_Task, "LO3_RESTART"))
    /\ UNCHANGED <<m_State, scoreVars, m_Wait, voteVars, m_VoteMap, teamVars, server>>

\* CPugVoteSwapTeam::Init.  A vote that already runs is left alone.
VoteSwapFires ==
    LET t == Rearm(m_Task, "VOTE_SWAP_TEAM")
        team == m_Task["VOTE_SWAP_TEAM"].param
    IN  /\ Up /\ IsDue(m_Task, "VOTE_SWAP_TEAM")
        /\ \/ /\ m_Vote["SWAP"].on
              /\ m_Task' = t /\ UNCHANGED m_Vote
           \/ /\ ~m_Vote["SWAP"].on /\ players[team] > 0
              /\ m_Vote' = Create(m_Vote, "SWAP", VoteDelay, FALSE, team)
              /\ m_Task' = t
           \/ /\ ~m_Vote["SWAP"].on /\ players[team] = 0
              /\ m_Task' = Create(t, "SET_STATE", 2, FALSE, STATE_FIRST_HALF)
              /\ UNCHANGED m_Vote
        /\ UNCHANGED <<m_State, scoreVars, m_Wait, m_Leader, m_VoteMap, gameVars,
                       teamVars, server>>

\* CPugVoteOvertime::Init.  While a round is over its restart is put off until
\* the vote's deadline.  Bots do not vote: with no human there is no vote.
VoteOvertimeFires ==
    LET t == Rearm(m_Task, "VOTE_OVERTIME")
    IN  /\ Up /\ IsDue(m_Task, "VOTE_OVERTIME")
        /\ \/ /\ m_Vote["OVERTIME"].on
              /\ m_Task' = t /\ UNCHANGED <<m_Vote, round>>
           \/ /\ ~m_Vote["OVERTIME"].on /\ PlayerCount > 0
              /\ m_Vote' = Create(m_Vote, "OVERTIME", VoteDelay, FALSE, 0)
              /\ round' = IF round.phase = "over" THEN [round EXCEPT !.left = VoteDelay]
                                                  ELSE round
              /\ m_Task' = t
           \/ /\ ~m_Vote["OVERTIME"].on
              /\ m_Task' = Create(t, "SET_STATE", 2, FALSE, STATE_END)
              /\ UNCHANGED <<m_Vote, round>>
        /\ UNCHANGED <<m_State, scoreVars, m_Wait, m_Leader, m_VoteMap,
                       m_bGameStarted, m_bCompleteReset, teamVars, server>>
-----------------------------------------------------------------------------
(***************************************************************************)
(* The votes end when the last voter has voted or at the deadline, and     *)
(* only the deadline can find no votes.  GetWinner may return any option   *)
(* somebody voted for; which one is left to chance here.                   *)
(***************************************************************************)
AtDeadline(v) == m_Vote[v].on /\ m_Vote[v].left = 0
Closes(v, voted) == /\ Up /\ m_Vote[v].on
                    /\ voted \/ AtDeadline(v)
                    /\ m_Vote' = Remove(m_Vote, v)

\* CPugVoteMap::Stop.  Without votes, enough humans get another map vote and
\* otherwise a random map is next.
VoteMapStops(voted) ==
    /\ Closes("MAP", voted)
    /\ voted => m_Vote["MAP"].param = 1
    /\ \/ m_Task' = Create(m_Task, "MAP_CHANGE", 5, FALSE, 0)
       \/ /\ ~voted /\ PlayerCount >= PlayersMin
          /\ m_Task' = Create(m_Task, "SET_STATE", 1, FALSE, STATE_VOTEMAP)
    /\ UNCHANGED <<m_State, scoreVars, m_Wait, m_Leader, m_VoteMap, gameVars,
                   teamVars, server>>

\* CPugVoteTeam::Stop.  Without votes the teams are shuffled; a vote that found nobody
\* to ask goes by the votes of the one before.
VoteTeamStops(type) ==
    /\ Closes("TEAM", m_Vote["TEAM"].param = 1)
    /\ ChangeTeam(type, m_Task)
    /\ UNCHANGED <<m_State, scoreVars, m_Wait, m_Leader, m_VoteMap, gameVars, server>>

\* CPugVoteSwapTeam::Stop.  The knife winners stay or swap; then the match starts.
VoteSwapStops(choice) ==
    /\ Closes("SWAP", choice # 0)
    /\ IF choice \in {0, m_Vote["SWAP"].param} THEN UNCHANGED teamVars
                                              ELSE SwapAllPlayers
    /\ m_Task' = Create(m_Task, "SET_STATE", 2, FALSE, STATE_FIRST_HALF)
    /\ UNCHANGED <<m_State, scoreVars, m_Wait, m_Leader, m_VoteMap, gameVars, server>>

\* CPugVoteOvertime::Stop: 1 sudden death, 2 overtime, 3 or no votes the end.
VoteOvertimeStops(choice) ==
    /\ Closes("OVERTIME", choice # 0)
    /\ IF choice = 1 THEN m_bGameStarted' = TRUE ELSE UNCHANGED m_bGameStarted
    /\ m_Task' = IF choice = 1 THEN m_Task
                 ELSE Create(m_Task, "SET_STATE", 1, FALSE,
                             IF choice = 2 THEN STATE_OVERTIME ELSE STATE_END)
    /\ UNCHANGED <<m_State, scoreVars, m_Wait, m_Leader, m_VoteMap,
                   m_bCompleteReset, round, teamVars, server>>

\* CPugVoteEnd::Init: somebody left, and nobody asks pug_vote_end.  A restart is
\* offered in the first half.
VoteEndInit ==
    m_Vote' = IF m_Vote["END"].on THEN m_Vote
              ELSE Create(m_Vote, "END", VoteDelay, FALSE,
                          IF m_State = STATE_FIRST_HALF THEN 1 ELSE 0)

\* CPugVoteEnd::Stop: 1 or no votes continue, 2 cancels, 3 restarts the match.
VoteEndStops(choice) ==
    /\ Closes("END", choice # 0)
    /\ choice = 3 => m_Vote["END"].param = 1
    /\ m_Task' = CASE choice = 2 ->
                        Create(m_Task, "SET_STATE", 1, FALSE, STATE_DEATHMATCH)
                   [] choice = 3 ->
                        Create(m_Task, "SET_STATE", 1, FALSE, STATE_FIRST_HALF)
                   [] OTHER -> m_Task
    /\ UNCHANGED <<m_State, scoreVars, m_Wait, m_Leader, m_VoteMap, gameVars,
                   teamVars, server>>

\* CPugReady::StartFrame and CPugTimer::StartFrame: enough players are on the
\* teams, and ready or there for long enough.
WaitEnds ==
    /\ Up /\ m_Wait.run /\ PlayerCount >= 2 * PlayersMin
    /\ m_Wait' = Idle
    /\ m_Task' = Create(m_Task, "SET_STATE", 2, FALSE, m_Wait.next)
    /\ UNCHANGED <<m_State, scoreVars, voteVars, m_VoteMap, gameVars, teamVars, server>>

\* Faulty LeaderStop: incomplete teams are put back and nothing follows.
LeaderStopSilent(counted, p, n) ==
    /\ m_Leader' = [run |-> FALSE, pool |-> 0]
    /\ IF \A team \in Team : counted[team] >= PlayersMin
       THEN /\ players' = p
            /\ m_Task' = Create(m_Task, "SET_STATE", 2, FALSE,
                                IF KnifeRound THEN STATE_KNIFE_ROUND
                                              ELSE STATE_FIRST_HALF)
       ELSE /\ players' \in Split(p[TERRORIST] + p[CT] + n)
            /\ UNCHANGED m_Task

\* CPugLeader::Stop: full teams play, incomplete ones get their old sides back.
\* It counts a captain who is just leaving; p players stay on the sides, and n
\* still wait to be picked.
LeaderStop(counted, p, n) ==
    /\ m_Leader' = [run |-> FALSE, pool |-> 0]
    /\ IF \A team \in Team : counted[team] >= PlayersMin
       THEN /\ players' = p
            /\ m_Task' = Create(m_Task, "SET_STATE", 2, FALSE,
                                IF KnifeRound THEN STATE_KNIFE_ROUND
                                              ELSE STATE_FIRST_HALF)
       ELSE /\ players' \in Split(p[TERRORIST] + p[CT] + n)
            /\ m_Task' = Create(m_Task, "SET_STATE", 2, FALSE, STATE_DEATHMATCH)

\* CPugLeader::GetPlayer and Next: a captain picks from the spectators, until
\* nobody is left or both sides are full.
LeaderPicks(team) ==
    LET p == [players EXCEPT ![team] = @ + 1]
        n == m_Leader.pool - 1
    IN  /\ Up /\ m_Leader.run /\ m_Leader.pool > 0
        /\ players[team] < PlayersMin \/ \A t \in Team : players[t] >= PlayersMin
        /\ p[team] <= PlayersMax
        /\ IF n = 0 \/ \A t \in Team : p[t] >= PlayersMin
           THEN LeaderStop(p, p, n)
           ELSE /\ m_Leader' = [m_Leader EXCEPT !.pool = n]
                /\ players' = p
                /\ UNCHANGED m_Task
        /\ UNCHANGED <<m_State, scoreVars, m_Wait, m_Vote, m_VoteMap, gameVars,
                       roster, server>>

\* CPugLeader::Menu or GetPlayer finds no spectator left to pick.
LeaderRunsOut ==
    /\ Up /\ m_Leader.run /\ m_Leader.pool = 0
    /\ LeaderStop(players, players, 0)
    /\ UNCHANGED <<m_State, scoreVars, m_Wait, m_Vote, m_VoteMap, gameVars,
                   roster, server>>
-----------------------------------------------------------------------------
(***************************************************************************)
(* Players and admins.                                                     *)
(***************************************************************************)
\* CPugTeamManager::ChooseTeam lets somebody in while the side is not full.
\* During the captain pick a new player is a spectator.
PlayerJoins(team) ==
    /\ Up
    /\ Churn \/ m_State \in {STATE_DEAD, STATE_DEATHMATCH}
    /\ PlayerCount + m_Leader.pool < 2 * PlayersMax
    /\ \/ /\ ~m_Leader.run /\ players[team] < PlayersMax
          /\ players' = [players EXCEPT ![team] = @ + 1]
          /\ UNCHANGED m_Leader
       \/ /\ m_Leader.run /\ team = TERRORIST
          /\ m_Leader' = [m_Leader EXCEPT !.pool = @ + 1]
          /\ UNCHANGED players
    /\ UNCHANGED <<m_State, scoreVars, m_Task, m_Wait, m_Vote, m_VoteMap, gameVars,
                   roster, server>>

\* CPugTeamManager::ChooseTeam lets a player out to the spectators, where
\* allow_spectators is on, while no match is on.
PlayerLeavesTeam(team) ==
    /\ Up /\ Churn /\ players[team] > 0
    /\ m_State < STATE_VOTEMAP \/ m_State > STATE_OVERTIME
    /\ players' = [players EXCEPT ![team] = @ - 1]
    /\ UNCHANGED <<m_State, scoreVars, m_Task, m_Wait, voteVars, m_VoteMap, gameVars,
                   roster, server>>

\* SV_DropClient calls CPugMod::DropClient before the client is gone: the
\* leaver is still counted by GetPlayers.
ModDropClient ==
    IF /\ STATE_KNIFE_ROUND <= m_State /\ m_State <= STATE_OVERTIME
       /\ \E team \in Team : players[team] < PlayersMin - 1
    THEN VoteEndInit ELSE UNCHANGED m_Vote

PlayerDrops(team) ==
    /\ Up /\ Churn /\ ~m_Leader.run /\ players[team] > 0
    /\ ModDropClient
    /\ players' = [players EXCEPT ![team] = @ - 1]
    /\ UNCHANGED <<m_State, scoreVars, m_Task, m_Wait, m_Leader, m_VoteMap, gameVars,
                   roster, server>>

\* CPugLeader::DropClient, in the captain pick: a spectator takes the place of
\* a captain who leaves.  The pick is over if there is none, or if it was the last
\* and the captain was about to pick.  A player who was picked leaves a hole.
CaptainDrops(team) ==
    /\ Up /\ Churn /\ m_Leader.run /\ players[team] > 0
    /\ ModDropClient
    /\ \/ /\ m_Leader.pool > 0
          /\ m_Leader' = [m_Leader EXCEPT !.pool = @ - 1]
          /\ UNCHANGED <<players, m_Task>>
       \/ /\ m_Leader.pool = 1
          /\ LeaderStop([players EXCEPT ![team] = @ + 1], players, 0)
       \/ /\ m_Leader.pool = 0
          /\ LeaderStop(players, [players EXCEPT ![team] = @ - 1], 0)
       \/ /\ players[team] > 1
          /\ players' = [players EXCEPT ![team] = @ - 1]
          /\ UNCHANGED <<m_Leader, m_Task>>
    /\ UNCHANGED <<m_State, scoreVars, m_Wait, m_VoteMap, gameVars, roster, server>>

\* A spectator who waits to be picked drops.
PickableDrops ==
    /\ Up /\ Churn /\ m_Leader.pool > 0
    /\ m_Leader' = [m_Leader EXCEPT !.pool = @ - 1]
    /\ UNCHANGED <<m_State, scoreVars, m_Task, m_Wait, m_Vote, m_VoteMap, gameVars,
                   teamVars, server>>

\* A spectator drops.  With nobody on the teams the match is over.
SpectatorDrops ==
    /\ Up /\ Churn
    /\ STATE_KNIFE_ROUND <= m_State /\ m_State <= STATE_OVERTIME
    /\ PlayerCount = 0
    /\ SetState(STATE_END, m_Task)
    /\ UNCHANGED server

\* CPugVoteMenu: enough players of the first half vote to restart or cancel,
\* CPugVoteMenu::VoteRestart and VoteCancel.
PlayersVote(next) ==
    /\ Up /\ Churn /\ m_State = STATE_FIRST_HALF
    /\ PlayerCount > 0 /\ PlayerCount >= PlayersMin
    /\ m_Task' = Create(m_Task, "SET_STATE", 1, FALSE, next)
    /\ UNCHANGED <<m_State, scoreVars, m_Wait, voteVars, m_VoteMap, gameVars,
                   teamVars, server>>

\* CPugVoteMenu::VoteMapHandle.
PlayersVoteMap ==
    /\ Up /\ Churn /\ m_State # STATE_END /\ PlayerCount >= 2
    /\ m_Task' = Create(m_Task, "MAP_CHANGE", 5, FALSE, 0)
    /\ UNCHANGED <<m_State, scoreVars, m_Wait, voteVars, m_VoteMap, gameVars,
                   teamVars, server>>

\* CPugVoteMenu::VoteSurrender and CPugMod::Surrender: an incomplete team gives
\* up, and its opponents are given every regular round.
Surrender(team) ==
    LET awarded == [h \in Half |-> IF h = STATE_OVERTIME THEN 0 ELSE HalfRounds]
    IN  /\ Up /\ Churn /\ m_State \in {STATE_FIRST_HALF, STATE_SECOND_HALF}
        /\ 0 < players[team] /\ players[team] < PlayersMin
        /\ m_Score' = [ZeroScore EXCEPT ![Other(team)] = awarded]
        /\ won' = [r \in Roster |-> IF r = RosterOf(team) THEN NoRounds ELSE awarded]
        /\ m_ScoreOT' = ZeroOT /\ wonOT' = [r \in Roster |-> 0]
        /\ m_Task' = Create(m_Task, "SET_STATE", 1, FALSE, STATE_END)
        /\ UNCHANGED <<m_State, m_Wait, voteVars, m_VoteMap, gameVars, teamVars, server>>

\* CPugAdminMenu::PugHandle.  The menu's items depend on the state it was opened
\* in and the choice is not checked again, so any of them may come at any time.
AdminSetState(next) ==
    /\ Up
    /\ m_Task' = Create(m_Task, "SET_STATE", 1, FALSE, next)
    /\ UNCHANGED <<m_State, scoreVars, m_Wait, voteVars, m_VoteMap, gameVars,
                   teamVars, server>>
-----------------------------------------------------------------------------
(***************************************************************************)
(* The level changes, and the clock.                                       *)
(***************************************************************************)
NoVotes == Cleared(Vote)
NoLeader == [run |-> FALSE, pool |-> 0]

\* CPugTask::ServerDeactivate comes first, so the task that CPugMod's handler
\* makes when it ends a live match is the only one left.
ServerDeactivate ==
    /\ server = "changing"
    /\ server' = "down"
    /\ IF Live(m_State)
       THEN /\ m_State' = STATE_END
            /\ m_VoteMap' = TRUE
            /\ m_Task' = Create(Cleared(Slot), "SET_STATE", RestartDelay + 1, FALSE,
                                IF PlayerCount >= PlayersMin THEN STATE_VOTEMAP
                                                             ELSE STATE_DEATHMATCH)
       ELSE /\ m_Task' = Cleared(Slot)
            /\ UNCHANGED <<m_State, m_VoteMap>>
    /\ m_Wait' = Idle /\ m_Vote' = NoVotes /\ m_Leader' = NoLeader
    /\ UNCHANGED <<scoreVars, gameVars, teamVars>>

\* A new level has new game rules and nobody on it.
ServerActivate ==
    /\ server = "down"
    /\ server' = "active"
    /\ m_State' = STATE_DEAD
    /\ ClearScores
    /\ m_Task' = Create(Cleared(Slot), "SET_STATE", 5, FALSE, STATE_DEATHMATCH)
    /\ m_Wait' = Idle /\ m_Vote' = NoVotes /\ m_Leader' = NoLeader
    /\ m_bGameStarted' = FALSE /\ m_bCompleteReset' = FALSE
    /\ round' = [phase |-> "play", left |-> FreezeTime]
    /\ players' = [team \in Team |-> 0] /\ roster' = "A"
    /\ UNCHANGED m_VoteMap

\* Nothing that is due is put off: time passes when all of it is done.
Tick ==
    /\ server = "active"
    /\ NoneDue(m_Task) /\ NoneDue(m_Vote)
    /\ round.phase # "play" => round.left > 0
    /\ m_Task' = Elapse(m_Task)
    /\ m_Vote' = Elapse(m_Vote)
    /\ round' = [round EXCEPT !.left = IF @ > 0 THEN @ - 1 ELSE 0]
    /\ UNCHANGED <<m_State, scoreVars, m_Wait, m_Leader, m_VoteMap, m_bGameStarted,
                   m_bCompleteReset, teamVars, server>>
-----------------------------------------------------------------------------
Init ==
    /\ m_State = STATE_DEAD
    /\ m_Score = ZeroScore /\ won = [r \in Roster |-> NoRounds]
    /\ m_ScoreOT = ZeroOT /\ wonOT = [r \in Roster |-> 0]
    /\ m_Task = Create(Cleared(Slot), "SET_STATE", 5, FALSE, STATE_DEATHMATCH)
    /\ m_Wait = Idle /\ m_Vote = NoVotes /\ m_Leader = NoLeader
    /\ m_VoteMap = TRUE
    /\ m_bGameStarted = FALSE /\ m_bCompleteReset = FALSE
    /\ round = [phase |-> "play", left |-> FreezeTime]
    /\ players = [team \in Team |-> 0] /\ roster = "A"
    /\ server = "active"

TaskFires == \/ SetStateFires \/ MapChangeFires \/ LO3Fires
             \/ VoteSwapFires \/ VoteOvertimeFires

VoteStops == \/ \E voted \in BOOLEAN : VoteMapStops(voted)
             \/ \E type \in 1..6 : VoteTeamStops(type)
             \/ \E choice \in 0..2 : VoteSwapStops(choice)
             \/ \E choice \in 0..3 : VoteOvertimeStops(choice)
             \/ \E choice \in 0..3 : VoteEndStops(choice)

Picks == LeaderRunsOut \/ \E team \in Team : LeaderPicks(team)

PlayersAct == \/ \E team \in Team : \/ PlayerJoins(team) \/ PlayerLeavesTeam(team)
                                    \/ PlayerDrops(team) \/ CaptainDrops(team)
                                    \/ Surrender(team)
              \/ PickableDrops \/ SpectatorDrops \/ PlayersVoteMap
              \/ \E next \in {STATE_FIRST_HALF, STATE_DEATHMATCH} : PlayersVote(next)

Next == \/ Tick \/ RestartRound \/ RoundDraw
        \/ \E winner \in Team : RoundEnd(winner)
        \/ TaskFires \/ VoteStops \/ WaitEnds \/ Picks \/ PlayersAct
        \/ \E next \in AdminStates : AdminSetState(next)
        \/ ServerDeactivate \/ ServerActivate

Spec == Init /\ [][Next]_vars

\* The frame handlers run every frame and the engine restarts a round that is
\* over, so whatever stays due is done, and time passes when nothing is due.
\* Nothing makes players win rounds, join or vote before a deadline.
FairSpec == /\ Spec
            /\ WF_vars(Tick) /\ WF_vars(RestartRound)
            /\ WF_vars(TaskFires) /\ WF_vars(VoteStops) /\ WF_vars(WaitEnds)
            /\ WF_vars(Picks)
            /\ WF_vars(ServerDeactivate) /\ WF_vars(ServerActivate)
-----------------------------------------------------------------------------
(***************************************************************************)
(* Properties.                                                             *)
(***************************************************************************)
\* Every variable keeps its type.
TypeOK ==
    /\ m_State \in State
    /\ m_Score \in [Team -> [Half -> Nat]]
    /\ m_ScoreOT \in [Team -> Nat]
    /\ m_Task \in [Slot -> Task(State)]
    /\ m_Wait \in [run: BOOLEAN, next: State]
    /\ m_Vote \in [Vote -> Task(State)]
    /\ m_Leader \in [run: BOOLEAN, pool: Nat]
    /\ m_VoteMap \in BOOLEAN
    /\ m_bGameStarted \in BOOLEAN /\ m_bCompleteReset \in BOOLEAN
    /\ round \in [phase: {"play", "over", "restart"}, left: Nat]
    /\ players \in [Team -> 0..PlayersMax]
    /\ server \in {"active", "changing", "down"}
    /\ roster \in Roster
    /\ won \in [Roster -> [Half -> Nat]]
    /\ wonOT \in [Roster -> Nat]

\* The scores follow the players: whatever side a roster is on, the score of
\* that side is the rounds the roster won.  The sides swap at halftime, in the
\* team vote and after the knife round, and only the first carries a score.
ScoreFollowsRoster ==
    \A team \in Team : /\ m_Score[team] = won[RosterOf(team)]
                       /\ m_ScoreOT[team] = wonOT[RosterOf(team)]

\* In a knife round or a half, once the LO3 restarts are over the rounds count:
\* no order of restarts, votes and state changes leaves a match uncounted.
LO3EndsLive ==
    Up /\ Playing(m_State) /\ ~m_Task["LO3_RESTART"].on => Counts

\* "LIVE IN THREE RESTARTS", the players are told (PugLO3.h): none of the rounds between
\* the restarts counts.  So it is where ties are not put to a vote; the sudden death of an
\* overtime vote that a restart of the match has overtaken makes them count.
Warmup == Up /\ Playing(m_State) /\ m_Task["LO3_RESTART"].on
WarmupUncounted == Warmup => ~Counts

\* Nothing else does: whatever the state, the slots and the other votes were before, and
\* whoever forces or votes for what while the restarts run, the match is live between
\* them only if an overtime vote that is left from before has just ended.
LiveStep ==
    Warmup' /\ m_bGameStarted' => \/ Warmup /\ m_bGameStarted
                                  \/ m_Vote["OVERTIME"].on /\ ~m_Vote'["OVERTIME"].on
LiveAfterLO3 == [][LiveStep]_vars

\* A half that is complete, and a match that is decided, has its way out in the
\* SET_STATE slot, whatever else wrote to the slot in the meantime.
HalfComplete ==
    \/ /\ m_State = STATE_FIRST_HALF
       /\ m_Score[TERRORIST][STATE_FIRST_HALF] + m_Score[CT][STATE_FIRST_HALF]
              >= HalfRounds
    \/ /\ m_State = STATE_SECOND_HALF
       /\ m_Score[TERRORIST][STATE_SECOND_HALF] + m_Score[CT][STATE_SECOND_HALF] > 0
       /\ \E team \in Team : RegularScore(m_Score, team) > HalfRounds
    \/ /\ m_State = STATE_OVERTIME
       /\ \E team \in Team : m_ScoreOT[team] > HalfRoundsOT
CompleteHasExit ==
    HalfComplete /\ server = "active" => m_Task["SET_STATE"].on

\* No phase that waits for something waits for nothing: a task, a vote, the
\* captains' pick or the waiting phase will move it on.
Pending == m_Task["SET_STATE"].on
PhaseHasDriver ==
    server = "active" =>
    /\ m_State \in {STATE_DEAD, STATE_END} => Pending
    /\ m_State = STATE_DEATHMATCH => m_Wait.run \/ Pending
    /\ m_State = STATE_VOTEMAP =>
          m_Vote["MAP"].on \/ Pending \/ m_Task["MAP_CHANGE"].on
    /\ m_State = STATE_VOTETEAM => m_Vote["TEAM"].on \/ Pending
    /\ m_State = STATE_CAPTAIN => m_Leader.run \/ Pending
    /\ m_State = STATE_HALFTIME => m_Wait.run \/ Pending

\* Overtime starts from a tie, and goes on at its own halftime.
Tied == GetScore(m_Score, TERRORIST) = GetScore(m_Score, CT)
OvertimeFromTie ==
    [][m_State # STATE_OVERTIME /\ m_State' = STATE_OVERTIME
          => \/ Tied
             \/ m_ScoreOT[TERRORIST] + m_ScoreOT[CT] = HalfRoundsOT]_vars

\* Nothing is won between the round that completes a half or decides the match
\* and the state change it caused: the change comes a second after the restart
\* of the round, which the freeze time keeps from ending before.
NoExtraRound ==
    [][HalfComplete /\ m_State' = m_State /\ m_Task["SET_STATE"].on
          => GetRound(m_Score') <= GetRound(m_Score)]_vars

\* The sides swap at the halftime of an overtime and stay as they are at the one
\* before it.  (The code tells the two apart by the tied score, which an overtime
\* with halves of an even number of rounds can also have at its halftime.)
OvertimeHalfSwaps ==
    [][m_State # STATE_HALFTIME /\ m_State' = STATE_HALFTIME
          => (roster' = roster <=>
                /\ m_State # STATE_FIRST_HALF
                /\ m_ScoreOT[TERRORIST] + m_ScoreOT[CT] # HalfRoundsOT)]_vars

\* pug_rounds_ot that is odd or less than two means sudden death: no overtime.
OvertimeNeedsEvenRounds ==
    m_State = STATE_OVERTIME => RoundsOT > 1 /\ RoundsOT % 2 = 0

\* A match that a team has won in the second half comes to its end.
DecidedMatchEnds ==
    (m_State = STATE_SECOND_HALF /\ HalfComplete) ~> m_State = STATE_END

\* The team vote leads to a game that counts, or back to the warm-up.
TeamVoteSettles ==
    m_State = STATE_VOTETEAM ~> \/ Playing(m_State) /\ Counts
                              \/ m_State = STATE_DEATHMATCH
=============================================================================
