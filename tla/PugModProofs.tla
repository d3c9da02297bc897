---------------------------- MODULE PugModProofs ----------------------------
(***************************************************************************)
(* Proofs about PugMod, and about PugPause beside it, for every value of   *)
(* their constants that satisfies ConfigAssumption and PauseAssumption.    *)
(***************************************************************************)
EXTENDS PugPause, TLAPS

SlotTasks == [Slot -> Task(State)]
VoteTasks == [Vote -> Task(State)]
Sides == [Team -> 0..PlayersMax]
Phase == [phase: {"play", "over", "restart"}, left: Nat]
-----------------------------------------------------------------------------
(***************************************************************************)
(* The operators on task slots keep the type of the slots, whatever the    *)
(* slots and the arguments of the tasks are.                               *)
(***************************************************************************)
\* CPugTask::Create stores what it is given.
LEMMA CreateType ==
    ASSUME NEW S, NEW P, NEW tasks \in [S -> Task(P)], NEW i \in S,
           NEW delay \in Nat, NEW loop \in BOOLEAN, NEW param \in P
    PROVE  Create(tasks, i, delay, loop, param) \in [S -> Task(P)]
<1>1. [on |-> TRUE, left |-> delay, delay |-> delay, loop |-> loop,
       param |-> param] \in Task(P)
  BY DEF Task
<1> QED BY <1>1 DEF Create

\* CPugTask::Remove leaves an unused slot.
LEMMA RemoveType ==
    ASSUME NEW S, NEW P, 0 \in P, NEW tasks \in [S -> Task(P)], NEW i \in S
    PROVE  Remove(tasks, i) \in [S -> Task(P)]
<1>1. NoTask \in Task(P)
  BY DEF NoTask, Task
<1> QED BY <1>1 DEF Remove

\* Clearing the map leaves unused slots.
LEMMA ClearedType ==
    ASSUME NEW S, NEW P, 0 \in P
    PROVE  Cleared(S) \in [S -> Task(P)]
<1>1. NoTask \in Task(P)
  BY DEF NoTask, Task
<1> QED BY <1>1 DEF Cleared

\* What CPugTask::StartFrame writes before it calls Execute is a slot.
LEMMA RearmType ==
    ASSUME NEW S, NEW P, 0 \in P, NEW tasks \in [S -> Task(P)], NEW i \in S
    PROVE  Rearm(tasks, i) \in [S -> Task(P)]
<1>1. tasks[i] \in Task(P)
  OBVIOUS
<1>2. [tasks[i] EXCEPT !.left = tasks[i].delay] \in Task(P)
  BY <1>1 DEF Task
<1>3. [tasks EXCEPT ![i].left = tasks[i].delay]
        = [tasks EXCEPT ![i] = [tasks[i] EXCEPT !.left = tasks[i].delay]]
  OBVIOUS
<1> QED BY <1>2, <1>3, RemoveType DEF Rearm

\* A second passes in every slot.
LEMMA ElapseType ==
    ASSUME NEW S, NEW P, NEW tasks \in [S -> Task(P)]
    PROVE  Elapse(tasks) \in [S -> Task(P)]
<1>1. ASSUME NEW i \in S, tasks[i].left > 0
      PROVE  [tasks[i] EXCEPT !.left = tasks[i].left - 1] \in Task(P)
  <2>1. tasks[i] \in Task(P)
    OBVIOUS
  <2>2. tasks[i].left - 1 \in Nat
    BY <1>1, <2>1 DEF Task
  <2> QED BY <2>1, <2>2 DEF Task
<1> QED BY <1>1 DEF Elapse
-----------------------------------------------------------------------------
(***************************************************************************)
(* What changes sides or scores keeps their types.                         *)
(***************************************************************************)
\* BalanceTeams moves players to the smaller side: no side outgrows the larger.
LEMMA BalancedType ==
    ASSUME NEW p \in Sides PROVE Balanced(p) \in Sides
<1> USE ConfigAssumption
<1>1. ASSUME NEW a \in 0..PlayersMax, NEW b \in 0..PlayersMax, a >= b
      PROVE  /\ a - ((a - b) \div 2) \in 0..PlayersMax
             /\ b + ((a - b) \div 2) \in 0..PlayersMax
  <2>1. (a - b) \div 2 \in Nat /\ (a - b) \div 2 <= a - b
    BY <1>1
  <2> QED BY <1>1, <2>1
<1>2. CASE p[TERRORIST] > p[CT]
  <2>1. /\ p[TERRORIST] - ((p[TERRORIST] - p[CT]) \div 2) \in 0..PlayersMax
        /\ p[CT] + ((p[TERRORIST] - p[CT]) \div 2) \in 0..PlayersMax
    BY <1>1, <1>2 DEF Sides, Team
  <2> QED BY <1>2, <2>1 DEF Balanced, Sides, Team, Other, TERRORIST, CT
<1>3. CASE ~(p[TERRORIST] > p[CT])
  <2>1. /\ p[CT] - ((p[CT] - p[TERRORIST]) \div 2) \in 0..PlayersMax
        /\ p[TERRORIST] + ((p[CT] - p[TERRORIST]) \div 2) \in 0..PlayersMax
    BY <1>1, <1>3 DEF Sides, Team
  <2> QED BY <1>3, <2>1 DEF Balanced, Sides, Team, Other, TERRORIST, CT
<1> QED BY <1>2, <1>3

\* Swapping sides keeps a function of the sides one.
LEMMA SwapType ==
    ASSUME NEW R, NEW f \in [Team -> R] PROVE SwapSides(f) \in [Team -> R]
BY DEF SwapSides, Team, Other, TERRORIST, CT
-----------------------------------------------------------------------------
(***************************************************************************)
(* Type correctness, one lemma per group of callbacks.                     *)
(***************************************************************************)
\* The task slots a callback leaves behind hold states.
LEMMA CreateTask ==
    ASSUME NEW t \in SlotTasks, NEW i \in Slot, NEW delay \in Nat,
           NEW param \in State
    PROVE  Create(t, i, delay, FALSE, param) \in SlotTasks
BY CreateType DEF SlotTasks

LEMMA CreateVote ==
    ASSUME NEW t \in VoteTasks, NEW i \in Vote, NEW param \in State
    PROVE  Create(t, i, VoteDelay, FALSE, param) \in VoteTasks
BY CreateType, ConfigAssumption DEF VoteTasks

LEMMA StateNames ==
    /\ STATE_DEAD \in State /\ STATE_DEATHMATCH \in State /\ STATE_VOTEMAP \in State
    /\ STATE_VOTETEAM \in State /\ STATE_CAPTAIN \in State
    /\ STATE_KNIFE_ROUND \in State /\ STATE_FIRST_HALF \in State
    /\ STATE_HALFTIME \in State /\ STATE_SECOND_HALF \in State
    /\ STATE_OVERTIME \in State /\ STATE_END \in State
    /\ State \subseteq Nat /\ 0 \in State
BY DEF State, STATE_DEAD, STATE_DEATHMATCH, STATE_VOTEMAP, STATE_VOTETEAM,
       STATE_CAPTAIN, STATE_KNIFE_ROUND, STATE_FIRST_HALF, STATE_HALFTIME,
       STATE_SECOND_HALF, STATE_OVERTIME, STATE_END

\* The scores are zero, or stay what they are.
ScoreTypes == /\ m_Score \in [Team -> [Half -> Nat]]
              /\ m_ScoreOT \in [Team -> Nat]
              /\ won \in [Roster -> [Half -> Nat]]
              /\ wonOT \in [Roster -> Nat]

LEMMA ClearScoresType == ClearScores => ScoreTypes'
BY DEF ClearScores, ScoreTypes, ZeroScore, ZeroOT, NoRounds

LEMMA ZeroHalfType ==
    ASSUME ScoreTypes, NEW half \in Half, ZeroHalf(half) PROVE ScoreTypes'
<1>1. \A team \in Team : [m_Score[team] EXCEPT ![half] = 0] \in [Half -> Nat]
  BY DEF ScoreTypes
<1>2. \A r \in Roster : [won[r] EXCEPT ![half] = 0] \in [Half -> Nat]
  BY DEF ScoreTypes
<1> QED BY <1>1, <1>2 DEF ZeroHalf, ScoreTypes

\* CPugLO3::Init either starts a restart or makes the game live.
LEMMA LO3Type ==
    ASSUME round \in Phase, NEW restart \in State, NEW t \in SlotTasks,
           LO3Init(restart, t)
    PROVE  /\ m_bGameStarted' \in BOOLEAN /\ m_bCompleteReset' \in BOOLEAN
           /\ round' \in Phase /\ m_Task' \in SlotTasks
<1>1. CASE restart > 0
  <2>1. restart - 1 \in State
    BY <1>1 DEF State, STATE_DEAD, STATE_END
  <2>2. m_Task' \in SlotTasks
    BY <1>1, <2>1, CreateTask DEF LO3Init, Slot
  <2>3. /\ m_bGameStarted' = FALSE /\ m_bCompleteReset' = TRUE
        /\ round' = [phase |-> "restart", left |-> 1]
    BY <1>1 DEF LO3Init
  <2> QED BY <2>2, <2>3 DEF Phase
<1>2. CASE ~(restart > 0)
  BY <1>2 DEF LO3Init
<1> QED BY <1>1, <1>2

\* CPugMod::SetState, whatever the state it comes from.
LEMMA SetStateType ==
    ASSUME TypeOK, NEW s \in State, NEW t \in SlotTasks, SetState(s, t),
           UNCHANGED server
    PROVE  TypeOK'
<1> USE ConfigAssumption, StateNames
<1> DEFINE Kept == /\ m_Vote' = m_Vote /\ m_Leader' = m_Leader
                   /\ m_VoteMap' = m_VoteMap
           Players == players' \in Sides /\ roster' \in Roster
           Game == /\ m_bGameStarted' \in BOOLEAN /\ m_bCompleteReset' \in BOOLEAN
                   /\ round' \in Phase
           Votes == /\ m_Vote' \in VoteTasks /\ m_Leader' \in [run: BOOLEAN, pool: Nat]
                    /\ m_VoteMap' \in BOOLEAN
           Wait == m_Wait' \in [run: BOOLEAN, next: State]
<1>1. SUFFICES ScoreTypes' /\ m_Task' \in SlotTasks /\ Wait /\ Votes /\ Game /\ Players
  <2>1. m_State' \in State /\ server' \in {"active", "changing", "down"}
    BY DEF SetState, TypeOK
  <2> QED BY <2>1 DEF TypeOK, ScoreTypes, SlotTasks, VoteTasks, Sides, Phase
<1>2. /\ ScoreTypes /\ round \in Phase /\ players \in Sides /\ roster \in Roster
      /\ m_Task \in SlotTasks /\ m_Vote \in VoteTasks
      /\ m_Leader \in [run: BOOLEAN, pool: Nat]
      /\ m_Wait \in [run: BOOLEAN, next: State]
      /\ m_VoteMap \in BOOLEAN /\ m_bGameStarted \in BOOLEAN
      /\ m_bCompleteReset \in BOOLEAN
  BY DEF TypeOK, ScoreTypes, SlotTasks, VoteTasks, Sides, Phase
<1>3. Idle \in [run: BOOLEAN, next: State]
      /\ \A n \in State : Waiting(n) \in [run: BOOLEAN, next: State]
  BY DEF Idle, Waiting
<1>4. Balanced(players) \in Sides
  BY <1>2, BalancedType
<1>5. SwapSides(players) \in Sides
  BY <1>2, SwapType DEF Sides
<1>6. Voters \in State /\ OtherRoster(roster) \in Roster
  BY DEF Voters, OtherRoster, Roster, State, STATE_DEAD, STATE_END
<1>7. /\ "SET_STATE" \in Slot /\ "LO3_RESTART" \in Slot
      /\ "MAP" \in Vote /\ "TEAM" \in Vote
  BY DEF Slot, Vote
<1>8. CASE EnterDead(t)
  BY <1>2, <1>3, <1>8, ClearScoresType
     DEF EnterDead, StopWaiting, voteVars, gameVars, teamVars
<1>9. CASE EnterDeathmatch(t)
  BY <1>2, <1>3, <1>9, ClearScoresType
     DEF EnterDeathmatch, voteVars, gameVars, teamVars
<1>10. ASSUME NEW v \in {"MAP", "TEAM"}, OpenRoundVote(v)
       PROVE  /\ m_Vote' \in VoteTasks /\ m_Leader' \in [run: BOOLEAN, pool: Nat]
              /\ Game
  <2>1. m_Vote' \in VoteTasks
    BY <1>2, <1>6, <1>7, <1>10, CreateVote DEF OpenRoundVote
  <2> QED BY <1>2, <1>10, <2>1 DEF OpenRoundVote, Phase
<1>11. CASE EnterVoteMap(t)
  <2>1. CASE MapChoice
    BY <1>2, <1>3, <1>10, <1>11, <2>1, ClearScoresType
       DEF EnterVoteMap, StopWaiting, teamVars
  <2>2. CASE ~MapChoice
    <3>1. m_Task' \in SlotTasks
      <4>1. m_Task' = Create(t, "SET_STATE", 1, FALSE, STATE_VOTETEAM)
        BY <1>11, <2>2 DEF EnterVoteMap
      <4> QED BY <1>7, <4>1, CreateTask
    <3> QED BY <1>2, <1>3, <1>11, <2>2, <3>1, ClearScoresType
               DEF EnterVoteMap, StopWaiting, teamVars, voteVars, gameVars
  <2> QED BY <2>1, <2>2
<1>12. ASSUME NEW type, ChangeTeam(type, t)
       PROVE  m_Task' \in SlotTasks /\ Players
  <2>1. m_Task' \in SlotTasks
    BY <1>7, <1>12, CreateTask DEF ChangeTeam
  <2>2. Players
    BY <1>2, <1>5, <1>6, <1>12
       DEF ChangeTeam, Split, Sides, SwapAllPlayers, teamVars
  <2> QED BY <2>1, <2>2
<1>13. CASE EnterVoteTeam(t)
  <2>1. CASE TeamType > 0
    BY <1>2, <1>3, <1>12, <1>13, <2>1, ClearScoresType
       DEF EnterVoteTeam, StopWaiting, voteVars, gameVars
  <2>2. CASE ~(TeamType > 0)
    BY <1>2, <1>3, <1>10, <1>13, <2>2, ClearScoresType
       DEF EnterVoteTeam, StopWaiting, teamVars
  <2> QED BY <2>1, <2>2
<1>14. CASE EnterCaptain(t)
  <2>1. CASE \A team \in Team : players[team] >= 2
    <3>1. PlayerCount - 2 \in Nat
      BY <1>2, <2>1 DEF PlayerCount, Sides, Team
    <3>2. m_Leader' \in [run: BOOLEAN, pool: Nat]
      <4>1. m_Leader' = [run |-> TRUE, pool |-> PlayerCount - 2]
        BY <1>14, <2>1 DEF EnterCaptain
      <4> QED BY <3>1, <4>1
    <3>3. players' \in Sides
      <4>1. players' = [team \in Team |-> 1]
        BY <1>14, <2>1 DEF EnterCaptain
      <4>2. 1 \in 0..PlayersMax
        OBVIOUS
      <4> QED BY <4>1, <4>2 DEF Sides
    <3> QED BY <1>2, <1>3, <1>14, <2>1, <3>2, <3>3, ClearScoresType
               DEF EnterCaptain, StopWaiting, gameVars
  <2>2. CASE ~(\A team \in Team : players[team] >= 2)
    <3>1. m_Task' \in SlotTasks
      <4>1. m_Task' = Create(t, "SET_STATE", 2, FALSE, STATE_DEATHMATCH)
        BY <1>14, <2>2 DEF EnterCaptain
      <4> QED BY <1>7, <4>1, CreateTask
    <3> QED BY <1>2, <1>3, <1>4, <1>14, <2>2, <3>1, ClearScoresType
               DEF EnterCaptain, StopWaiting, gameVars
  <2> QED BY <2>1, <2>2
<1>15. 4 \in State
  BY DEF State, STATE_DEAD, STATE_END
<1>16. CASE EnterKnifeRound(t)
  BY <1>2, <1>3, <1>4, <1>15, <1>16, ClearScoresType, LO3Type
     DEF EnterKnifeRound, StopWaiting, voteVars
<1>17. CASE EnterFirstHalf(t)
  BY <1>16, <1>17 DEF EnterFirstHalf
<1>18. CASE EnterHalftime(t)
  <2> DEFINE next == IF GetRound(m_Score) < Rounds THEN STATE_SECOND_HALF
                                                   ELSE STATE_OVERTIME
  <2>1. next \in State
    OBVIOUS
  <2>2. m_Task' \in SlotTasks
    BY <1>7, <1>18, <2>1, CreateTask DEF EnterHalftime
  <2>3. Wait
    BY <1>2, <1>3, <1>18, <2>1 DEF EnterHalftime
  <2>4. Votes
    BY <1>2, <1>18 DEF EnterHalftime, voteVars
  <2>5. ScoreTypes' /\ Game /\ Players
    <3>1. CASE TeamsSwap
      <4>1. SwapTeams
        BY <1>18 DEF EnterHalftime
      <4>2. Players
        BY <1>5, <1>6, <3>1, <4>1 DEF SwapTeams, SwapAllPlayers
      <4>3. Game
        <5>1. /\ m_bCompleteReset' = FALSE /\ m_bGameStarted' = m_bGameStarted
              /\ round' = [phase |-> "play", left |-> FreezeTime]
          BY <3>1, <4>1 DEF SwapTeams
        <5> QED BY <1>2, <5>1 DEF Phase
      <4>4. ScoreTypes'
        <5>1. /\ m_Score' = SwapSides(m_Score) /\ m_ScoreOT' = SwapSides(m_ScoreOT)
              /\ won' = won /\ wonOT' = wonOT
          BY <3>1, <4>1 DEF SwapTeams
        <5>2. SwapSides(m_Score) \in [Team -> [Half -> Nat]]
          BY <1>2, SwapType DEF ScoreTypes
        <5>3. SwapSides(m_ScoreOT) \in [Team -> Nat]
          BY <1>2, SwapType DEF ScoreTypes
        <5> QED BY <1>2, <5>1, <5>2, <5>3 DEF ScoreTypes
      <4> QED BY <4>2, <4>3, <4>4
    <3>2. CASE ~TeamsSwap
      BY <1>2, <1>18, <3>2
         DEF EnterHalftime, SwapTeams, teamVars, gameVars, scoreVars, ScoreTypes
    <3> QED BY <3>1, <3>2
  <2> QED BY <2>2, <2>3, <2>4, <2>5
<1>19. CASE EnterSecondHalf(t)
  <2>1. STATE_SECOND_HALF \in Half
    BY DEF Half
  <2> QED BY <1>2, <1>3, <1>4, <1>15, <1>19, <2>1, ZeroHalfType, LO3Type
             DEF EnterSecondHalf, StopWaiting, voteVars
<1>20. CASE EnterOvertime(t)
  <2>1. ScoreTypes'
    BY <1>2, <1>20 DEF EnterOvertime, ScoreTypes, ZeroOT
  <2> QED BY <1>2, <1>3, <1>15, <1>20, <2>1, LO3Type
             DEF EnterOvertime, StopWaiting, voteVars, teamVars
<1>21. CASE EnterEnd(t)
  <2>1. m_Task' \in SlotTasks
    <3> DEFINE next == IF PlayerCount >= PlayersMin THEN STATE_VOTEMAP
                                                    ELSE STATE_DEATHMATCH
    <3>1. m_Task' = Create(t, "SET_STATE", RestartDelay + 1, FALSE, next)
      BY <1>21 DEF EnterEnd
    <3>2. next \in State /\ RestartDelay + 1 \in Nat
      OBVIOUS
    <3> HIDE DEF next
    <3> QED BY <1>7, <3>1, <3>2, CreateTask
  <2> QED BY <1>2, <1>21, <2>1
             DEF EnterEnd, scoreVars, voteVars, gameVars, teamVars, ScoreTypes
<1> QED BY <1>8, <1>9, <1>11, <1>13, <1>14, <1>16, <1>17, <1>18, <1>19, <1>20,
           <1>21 DEF SetState

\* A won round is counted and may arm a transition.
LEMMA CountRoundType ==
    ASSUME TypeOK, NEW winner \in Team, CountRound(winner),
           m_State \in Half
    PROVE  ScoreTypes' /\ m_Task' \in SlotTasks
<1> USE ConfigAssumption, StateNames
<1> DEFINE r == RosterOf(winner)
           score == [m_Score EXCEPT ![winner][m_State] = @ + 1]
           scoreOT == IF m_State = STATE_OVERTIME
                      THEN [m_ScoreOT EXCEPT ![winner] = @ + 1] ELSE m_ScoreOT
<1>1. ScoreTypes /\ roster \in Roster /\ m_Task \in SlotTasks
  BY DEF TypeOK, ScoreTypes, SlotTasks
<1>2. r \in Roster
  BY <1>1 DEF RosterOf, OtherRoster, Roster
<1>3. /\ "SET_STATE" \in Slot /\ "VOTE_OVERTIME" \in Slot /\ RestartDelay + 1 \in Nat
  BY DEF Slot
<1>4. ScoreTypes'
  <2>1. /\ m_Score' = score
        /\ won' = [won EXCEPT ![r][m_State] = @ + 1]
        /\ m_ScoreOT' = scoreOT
        /\ wonOT' = IF m_State = STATE_OVERTIME
                    THEN [wonOT EXCEPT ![r] = @ + 1] ELSE wonOT
    BY DEF CountRound
  <2>2. score \in [Team -> [Half -> Nat]]
    BY <1>1 DEF ScoreTypes
  <2>3. [won EXCEPT ![r][m_State] = @ + 1] \in [Roster -> [Half -> Nat]]
    <3> HIDE DEF r
    <3> QED BY <1>1, <1>2 DEF ScoreTypes
  <2>4. scoreOT \in [Team -> Nat]
    BY <1>1 DEF ScoreTypes
  <2>5. wonOT' \in [Roster -> Nat]
    <3> HIDE DEF r
    <3> QED BY <1>1, <1>2, <2>1 DEF ScoreTypes
  <2> QED BY <2>1, <2>2, <2>3, <2>4, <2>5 DEF ScoreTypes
<1>5. ASSUME NEW n \in State
      PROVE  Create(m_Task, "SET_STATE", RestartDelay + 1, FALSE, n) \in SlotTasks
  BY <1>1, <1>3, CreateTask
<1>6. Create(m_Task, "VOTE_OVERTIME", RestartDelay + 1, FALSE, 0) \in SlotTasks
  BY <1>1, <1>3, CreateTask
<1>7. m_Task' \in {AfterFirstHalf(score, m_Task), AfterSecondHalf(score, m_Task),
                   AfterOvertime(scoreOT, m_Task)}
  <2>1. m_Task' = CASE m_State = STATE_FIRST_HALF -> AfterFirstHalf(score, m_Task)
                    [] m_State = STATE_SECOND_HALF -> AfterSecondHalf(score, m_Task)
                    [] m_State = STATE_OVERTIME -> AfterOvertime(scoreOT, m_Task)
    BY DEF CountRound
  <2> HIDE DEF score, scoreOT
  <2> QED BY <2>1 DEF Half, STATE_FIRST_HALF, STATE_SECOND_HALF, STATE_OVERTIME
<1> HIDE DEF score, scoreOT
<1>8. AfterFirstHalf(score, m_Task) \in SlotTasks
  BY <1>1, <1>5 DEF AfterFirstHalf
<1>9. AfterSecondHalf(score, m_Task) \in SlotTasks
  <2>1. CASE \/ \E team \in Team : RegularScore(score, team) > HalfRounds
             \/ ~(/\ \A team \in Team : RegularScore(score, team) = HalfRounds
                  /\ RoundsOT > 1 /\ RoundsOT % 2 = 0)
    BY <1>1, <1>5, <2>1 DEF AfterSecondHalf
  <2>2. CASE /\ ~(\E team \in Team : RegularScore(score, team) > HalfRounds)
             /\ \A team \in Team : RegularScore(score, team) = HalfRounds
             /\ RoundsOT > 1 /\ RoundsOT % 2 = 0
    <3> DEFINE played ==
          CASE OvertimeType = 0 ->
                Create(m_Task, "VOTE_OVERTIME", RestartDelay + 1, FALSE, 0)
            [] OvertimeType = 1 ->
                Create(m_Task, "SET_STATE", RestartDelay + 1, FALSE, STATE_HALFTIME)
            [] OvertimeType = 2 ->
                Create(m_Task, "SET_STATE", RestartDelay + 1, FALSE, STATE_END)
            [] OvertimeType = 3 -> m_Task
    <3>1. AfterSecondHalf(score, m_Task) = played
      BY <2>2 DEF AfterSecondHalf
    <3>2. OvertimeType \in {0, 1, 2, 3}
      OBVIOUS
    <3>3. played \in SlotTasks
      BY <1>1, <1>5, <1>6, <3>2
    <3> QED BY <3>1, <3>3
  <2> QED BY <2>1, <2>2
<1>10. AfterOvertime(scoreOT, m_Task) \in SlotTasks
  BY <1>1, <1>5, <1>6 DEF AfterOvertime
<1> QED BY <1>4, <1>7, <1>8, <1>9, <1>10

\* What CPugLeader::Stop leaves behind.
LEMMA LeaderStopType ==
    ASSUME TypeOK, NEW counted, NEW p \in Sides, NEW n \in Nat,
           LeaderStop(counted, p, n)
    PROVE  /\ m_Leader' \in [run: BOOLEAN, pool: Nat] /\ players' \in Sides
           /\ m_Task' \in SlotTasks
<1> USE StateNames
<1>1. m_Task \in SlotTasks /\ "SET_STATE" \in Slot
  BY DEF TypeOK, SlotTasks, Slot
<1>2. m_Leader' \in [run: BOOLEAN, pool: Nat]
  BY DEF LeaderStop
<1>3. players' \in Sides
  BY DEF LeaderStop, Split, Sides
<1>4. \E next \in State : m_Task' = Create(m_Task, "SET_STATE", 2, FALSE, next)
  <2>1. CASE \A team \in Team : counted[team] >= PlayersMin
    <3> DEFINE next == IF KnifeRound THEN STATE_KNIFE_ROUND ELSE STATE_FIRST_HALF
    <3>1. m_Task' = Create(m_Task, "SET_STATE", 2, FALSE, next)
      BY <2>1 DEF LeaderStop
    <3>2. next \in State
      OBVIOUS
    <3> HIDE DEF next
    <3> QED BY <3>1, <3>2
  <2>2. CASE ~(\A team \in Team : counted[team] >= PlayersMin)
    <3>1. m_Task' = Create(m_Task, "SET_STATE", 2, FALSE, STATE_DEATHMATCH)
      BY <2>2 DEF LeaderStop
    <3> QED BY <3>1
  <2> QED BY <2>1, <2>2
<1>5. m_Task' \in SlotTasks
  <2>1. PICK next \in State : m_Task' = Create(m_Task, "SET_STATE", 2, FALSE, next)
    BY <1>4
  <2> QED BY <1>1, <2>1, CreateTask
<1> QED BY <1>2, <1>3, <1>5

\* A second passes.
LEMMA TickType == ASSUME TypeOK, Tick PROVE TypeOK'
<1> USE StateNames
<1>1. m_Task' \in [Slot -> Task(State)]
  BY ElapseType DEF TypeOK, Tick
<1>2. m_Vote' \in [Vote -> Task(State)]
  BY ElapseType DEF TypeOK, Tick
<1>3. round' \in [phase: {"play", "over", "restart"}, left: Nat]
  <2>1. IF round.left > 0 THEN round.left - 1 \in Nat ELSE 0 \in Nat
    BY DEF TypeOK
  <2>2. round' = [round EXCEPT !.left = IF round.left > 0 THEN round.left - 1 ELSE 0]
    BY DEF Tick
  <2> DEFINE n == IF round.left > 0 THEN round.left - 1 ELSE 0
  <2>3. n \in Nat
    BY <2>1
  <2> HIDE DEF n
  <2>4. round' = [round EXCEPT !.left = n]
    BY <2>2 DEF n
  <2> QED BY <2>3, <2>4 DEF TypeOK
<1> QED BY <1>1, <1>2, <1>3 DEF TypeOK, Tick, scoreVars, teamVars

\* A round ends or restarts, counted or not.
LEMMA RoundsType ==
    ASSUME TypeOK, \/ RestartRound \/ RoundDraw \/ \E winner \in Team : RoundEnd(winner)
    PROVE  TypeOK'
<1> USE ConfigAssumption, StateNames
<1>1. ScoreTypes /\ m_Task \in SlotTasks
  BY DEF TypeOK, ScoreTypes, SlotTasks
<1>2. ASSUME ScoreTypes', m_Task' \in SlotTasks, round' \in Phase,
             m_bCompleteReset' \in BOOLEAN,
             UNCHANGED <<m_State, m_Wait, voteVars, m_VoteMap, m_bGameStarted,
                         teamVars, server>>
      PROVE  TypeOK'
  BY <1>2 DEF TypeOK, ScoreTypes, SlotTasks, Phase, voteVars, teamVars
<1>3. CASE RestartRound
  <2>1. ScoreTypes'
    <3>1. CASE m_bCompleteReset /\ m_State \in {STATE_FIRST_HALF, STATE_SECOND_HALF}
      BY <1>1, <1>3, <3>1, ZeroHalfType DEF RestartRound, RestartRoundFrozen, Half
    <3>2. CASE ~(m_bCompleteReset /\ m_State \in {STATE_FIRST_HALF, STATE_SECOND_HALF})
      BY <1>1, <1>3, <3>2 DEF RestartRound, RestartRoundFrozen, scoreVars, ScoreTypes
    <3> QED BY <3>1, <3>2
  <2>2. round' \in Phase /\ m_bCompleteReset' \in BOOLEAN
    BY <1>3 DEF RestartRound, RestartRoundFrozen, Phase
  <2> QED BY <1>1, <1>2, <1>3, <2>1, <2>2 DEF RestartRound, RestartRoundFrozen
<1>4. RoundOver => round' \in Phase
  BY DEF RoundOver, Phase
<1>5. CASE RoundDraw
  <2>1. ScoreTypes' /\ m_bCompleteReset' \in BOOLEAN
    BY <1>1, <1>5 DEF RoundDraw, scoreVars, ScoreTypes, TypeOK
  <2> QED BY <1>1, <1>2, <1>4, <1>5, <2>1 DEF RoundDraw
<1>6. ASSUME NEW winner \in Team, RoundEnd(winner) PROVE TypeOK'
  <2>1. ScoreTypes' /\ m_Task' \in SlotTasks
    <3>1. CASE Counts /\ m_State = STATE_KNIFE_ROUND /\ CountKnife(winner)
      <4>1. m_Task' = Create(m_Task, "VOTE_SWAP_TEAM", 1, FALSE, winner)
        BY <3>1 DEF CountKnife
      <4>2. winner \in State /\ "VOTE_SWAP_TEAM" \in Slot
        BY DEF Team, TERRORIST, CT, State, STATE_DEAD, STATE_END, Slot
      <4>3. m_Task' \in SlotTasks
        BY <1>1, <4>1, <4>2, CreateTask
      <4> QED BY <1>1, <3>1, <4>3 DEF CountKnife, scoreVars, ScoreTypes
    <3>2. CASE Counts /\ m_State # STATE_KNIFE_ROUND /\ CountRound(winner)
      <4>1. m_State \in Half
        BY <1>6, <3>2 DEF RoundEnd, Playing
      <4> QED BY <3>2, <4>1, CountRoundType
    <3>3. CASE ~Counts /\ UNCHANGED <<scoreVars, m_Task>>
      BY <1>1, <3>3 DEF scoreVars, ScoreTypes
    <3> QED BY <1>6, <3>1, <3>2, <3>3 DEF RoundEnd
  <2>2. m_bCompleteReset' \in BOOLEAN
    BY <1>6 DEF RoundEnd, TypeOK
  <2> QED BY <1>2, <1>4, <1>6, <2>1, <2>2 DEF RoundEnd
<1> QED BY <1>3, <1>5, <1>6

\* The slots a callback starts from, by their names.
LEMMA SlotTypes ==
    ASSUME TypeOK
    PROVE  /\ m_Task \in SlotTasks /\ m_Vote \in VoteTasks
           /\ \A i \in Slot : /\ Rearm(m_Task, i) \in SlotTasks
                              /\ m_Task[i].param \in State
           /\ \A v \in Vote : /\ Remove(m_Vote, v) \in VoteTasks
                              /\ m_Vote[v].param \in State
<1>1. m_Task \in [Slot -> Task(State)] /\ m_Vote \in [Vote -> Task(State)]
  BY DEF TypeOK
<1>2. \A i \in Slot : Rearm(m_Task, i) \in SlotTasks
  BY <1>1, RearmType, StateNames DEF SlotTasks
<1>3. \A v \in Vote : Remove(m_Vote, v) \in VoteTasks
  BY <1>1, RemoveType, StateNames DEF VoteTasks
<1>4. \A i \in Slot : m_Task[i].param \in State
  BY <1>1 DEF Task
<1>5. \A v \in Vote : m_Vote[v].param \in State
  BY <1>1 DEF Task
<1> QED BY <1>1, <1>2, <1>3, <1>4, <1>5 DEF SlotTasks, VoteTasks

\* A callback that writes only slots, votes and teams keeps the types.
LEMMA TypeKept ==
    ASSUME TypeOK, m_Task' \in SlotTasks, m_Vote' \in VoteTasks,
           m_Leader' \in [run: BOOLEAN, pool: Nat],
           players' \in Sides, roster' \in Roster,
           UNCHANGED <<m_State, scoreVars, m_Wait, m_VoteMap, gameVars, server>>
    PROVE  TypeOK'
BY DEF TypeOK, SlotTasks, VoteTasks, Sides, scoreVars, gameVars

\* A task that is due is executed.
LEMMA TaskFiresType == ASSUME TypeOK, TaskFires PROVE TypeOK'
<1> USE ConfigAssumption, StateNames
<1>1. /\ m_Task \in SlotTasks /\ m_Vote \in VoteTasks /\ round \in Phase
      /\ \A i \in Slot : /\ Rearm(m_Task, i) \in SlotTasks
                         /\ m_Task[i].param \in State
  BY SlotTypes DEF TypeOK, Phase
<1>2. Slot = {"SET_STATE", "MAP_CHANGE", "VOTE_SWAP_TEAM", "LO3_RESTART",
              "VOTE_OVERTIME"}
  BY DEF Slot
<1>3. CASE SetStateFires
  <2>1. /\ SetState(m_Task["SET_STATE"].param, Rearm(m_Task, "SET_STATE"))
        /\ UNCHANGED server
    BY <1>3 DEF SetStateFires
  <2> QED BY <1>1, <1>2, <2>1, SetStateType
<1>4. CASE MapChangeFires
  BY <1>1, <1>2, <1>4
     DEF MapChangeFires, TypeOK, SlotTasks, scoreVars, voteVars, gameVars, teamVars
<1>5. CASE LO3Fires
  <2>1. LO3Init(m_Task["LO3_RESTART"].param, Rearm(m_Task, "LO3_RESTART"))
    BY <1>5 DEF LO3Fires
  <2>2. /\ m_bGameStarted' \in BOOLEAN /\ m_bCompleteReset' \in BOOLEAN
        /\ round' \in Phase /\ m_Task' \in SlotTasks
    BY <1>1, <1>2, <2>1, LO3Type
  <2>3. UNCHANGED <<m_State, scoreVars, m_Wait, voteVars, m_VoteMap, teamVars, server>>
    BY <1>5 DEF LO3Fires
  <2> QED BY <2>2, <2>3 DEF TypeOK, SlotTasks, Phase, scoreVars, voteVars, teamVars
<1>6. CASE VoteSwapFires
  <2> DEFINE t == Rearm(m_Task, "VOTE_SWAP_TEAM")
             team == m_Task["VOTE_SWAP_TEAM"].param
  <2>1. UNCHANGED <<m_State, scoreVars, m_Wait, m_Leader, m_VoteMap, gameVars,
                    teamVars, server>>
    BY <1>6 DEF VoteSwapFires
  <2>2. m_Task' \in SlotTasks
    <3>1. m_Task' = t \/ m_Task' = Create(t, "SET_STATE", 2, FALSE, STATE_FIRST_HALF)
      BY <1>6 DEF VoteSwapFires
    <3>2. t \in SlotTasks /\ "SET_STATE" \in Slot
      BY <1>1, <1>2
    <3> HIDE DEF t
    <3>3. Create(t, "SET_STATE", 2, FALSE, STATE_FIRST_HALF) \in SlotTasks
      BY <3>2, CreateTask
    <3> QED BY <3>1, <3>2, <3>3
  <2>3. m_Vote' \in VoteTasks
    <3>1. \/ m_Vote' = m_Vote
          \/ m_Vote' = Create(m_Vote, "SWAP", VoteDelay, FALSE, team)
      BY <1>6 DEF VoteSwapFires
    <3>2. "SWAP" \in Vote /\ team \in State
      BY <1>1, <1>2 DEF Vote
    <3> HIDE DEF team
    <3> QED BY <1>1, <3>1, <3>2, CreateVote
  <2> QED BY <2>1, <2>2, <2>3, TypeKept DEF TypeOK, teamVars, Sides
<1>7. CASE VoteOvertimeFires
  <2> DEFINE t == Rearm(m_Task, "VOTE_OVERTIME")
  <2>1. m_Task' \in SlotTasks
    <3>1. m_Task' = t \/ m_Task' = Create(t, "SET_STATE", 2, FALSE, STATE_END)
      BY <1>7 DEF VoteOvertimeFires
    <3>2. t \in SlotTasks /\ "SET_STATE" \in Slot
      BY <1>1, <1>2
    <3> HIDE DEF t
    <3>3. Create(t, "SET_STATE", 2, FALSE, STATE_END) \in SlotTasks
      BY <3>2, CreateTask
    <3> QED BY <3>1, <3>2, <3>3
  <2>2. m_Vote' \in VoteTasks
    <3>1. \/ m_Vote' = m_Vote
          \/ m_Vote' = Create(m_Vote, "OVERTIME", VoteDelay, FALSE, 0)
      BY <1>7 DEF VoteOvertimeFires
    <3>2. "OVERTIME" \in Vote
      BY DEF Vote
    <3> QED BY <1>1, <3>1, <3>2, CreateVote
  <2>3. round' \in Phase
    <3>1. round' = round \/ round' = [round EXCEPT !.left = VoteDelay]
      BY <1>7 DEF VoteOvertimeFires
    <3> QED BY <1>1, <3>1 DEF Phase
  <2>4. UNCHANGED <<m_State, scoreVars, m_Wait, m_Leader, m_VoteMap,
                    m_bGameStarted, m_bCompleteReset, teamVars, server>>
    BY <1>7 DEF VoteOvertimeFires
  <2> QED BY <2>1, <2>2, <2>3, <2>4
             DEF TypeOK, SlotTasks, VoteTasks, Phase, scoreVars, teamVars
<1> QED BY <1>3, <1>4, <1>5, <1>6, <1>7 DEF TaskFires

\* A vote stops and acts on its winner.
LEMMA VoteStopsType == ASSUME TypeOK, VoteStops PROVE TypeOK'
<1> USE ConfigAssumption, StateNames
<1>1. /\ m_Task \in SlotTasks /\ m_Vote \in VoteTasks
      /\ \A v \in Vote : Remove(m_Vote, v) \in VoteTasks
      /\ m_Leader \in [run: BOOLEAN, pool: Nat]
      /\ players \in Sides /\ roster \in Roster
  BY SlotTypes DEF TypeOK, Sides
<1>2. Vote = {"MAP", "TEAM", "SWAP", "OVERTIME", "END"}
      /\ "SET_STATE" \in Slot /\ "MAP_CHANGE" \in Slot
  BY DEF Vote, Slot
<1>3. ASSUME NEW v \in Vote, NEW voted, Closes(v, voted) PROVE m_Vote' \in VoteTasks
  BY <1>1, <1>3 DEF Closes
<1>4. SwapSides(players) \in Sides /\ OtherRoster(roster) \in Roster
  BY <1>1, SwapType DEF Sides, OtherRoster, Roster
<1>5. ASSUME NEW voted \in BOOLEAN, VoteMapStops(voted) PROVE TypeOK'
  <2>1. \/ m_Task' = Create(m_Task, "MAP_CHANGE", 5, FALSE, 0)
        \/ m_Task' = Create(m_Task, "SET_STATE", 1, FALSE, STATE_VOTEMAP)
    BY <1>5 DEF VoteMapStops
  <2>2. m_Task' \in SlotTasks
    <3>1. Create(m_Task, "MAP_CHANGE", 5, FALSE, 0) \in SlotTasks
      BY <1>1, <1>2, CreateTask
    <3>2. Create(m_Task, "SET_STATE", 1, FALSE, STATE_VOTEMAP) \in SlotTasks
      BY <1>1, <1>2, CreateTask
    <3> QED BY <2>1, <3>1, <3>2
  <2>3. m_Vote' \in VoteTasks
    BY <1>2, <1>3, <1>5 DEF VoteMapStops
  <2> QED BY <1>1, <1>5, <2>2, <2>3, TypeKept DEF VoteMapStops, teamVars
<1>6. ASSUME NEW type \in 1..6, VoteTeamStops(type) PROVE TypeOK'
  <2>1. ChangeTeam(type, m_Task)
    BY <1>6 DEF VoteTeamStops
  <2>2. m_Task' \in SlotTasks
    <3> DEFINE next == CASE type = VOTE_TEAM_CAPTAIN -> STATE_CAPTAIN
                         [] type = VOTE_TEAM_KNIFE_ROUND -> STATE_KNIFE_ROUND
                         [] OTHER -> IF KnifeRound THEN STATE_KNIFE_ROUND
                                                   ELSE STATE_FIRST_HALF
    <3>1. m_Task' = Create(m_Task, "SET_STATE", 2, FALSE, next)
      BY <2>1 DEF ChangeTeam
    <3>2. next \in State
      OBVIOUS
    <3> HIDE DEF next
    <3> QED BY <1>1, <1>2, <3>1, <3>2, CreateTask
  <2>3. players' \in Sides /\ roster' \in Roster
    BY <1>1, <1>4, <2>1 DEF ChangeTeam, Split, Sides, SwapAllPlayers, teamVars
  <2>4. m_Vote' \in VoteTasks
    BY <1>2, <1>3, <1>6 DEF VoteTeamStops
  <2> QED BY <1>1, <1>6, <2>2, <2>3, <2>4, TypeKept DEF VoteTeamStops
<1>7. ASSUME NEW choice \in 0..2, VoteSwapStops(choice) PROVE TypeOK'
  <2>1. m_Task' = Create(m_Task, "SET_STATE", 2, FALSE, STATE_FIRST_HALF)
    BY <1>7 DEF VoteSwapStops
  <2>2. m_Task' \in SlotTasks
    BY <1>1, <1>2, <2>1, CreateTask
  <2>3. players' \in Sides /\ roster' \in Roster
    BY <1>1, <1>4, <1>7 DEF VoteSwapStops, SwapAllPlayers, teamVars
  <2>4. m_Vote' \in VoteTasks
    BY <1>2, <1>3, <1>7 DEF VoteSwapStops
  <2> QED BY <1>1, <1>7, <2>2, <2>3, <2>4, TypeKept DEF VoteSwapStops
<1>8. ASSUME NEW choice \in 0..3, VoteOvertimeStops(choice) PROVE TypeOK'
  <2> DEFINE next == IF choice = 2 THEN STATE_OVERTIME ELSE STATE_END
  <2>1. \/ m_Task' = m_Task
        \/ m_Task' = Create(m_Task, "SET_STATE", 1, FALSE, next)
    BY <1>8 DEF VoteOvertimeStops
  <2>2. next \in State
    OBVIOUS
  <2>3. m_Task' \in SlotTasks
    <3> HIDE DEF next
    <3>1. Create(m_Task, "SET_STATE", 1, FALSE, next) \in SlotTasks
      BY <1>1, <1>2, <2>2, CreateTask
    <3> QED BY <1>1, <2>1, <3>1
  <2>4. m_Vote' \in VoteTasks
    BY <1>2, <1>3, <1>8 DEF VoteOvertimeStops
  <2>5. m_bGameStarted' \in BOOLEAN
    BY <1>8 DEF VoteOvertimeStops, TypeOK
  <2>6. UNCHANGED <<m_State, scoreVars, m_Wait, m_Leader, m_VoteMap,
                    m_bCompleteReset, round, teamVars, server>>
    BY <1>8 DEF VoteOvertimeStops
  <2> QED BY <2>3, <2>4, <2>5, <2>6 DEF TypeOK, SlotTasks, VoteTasks, scoreVars, teamVars
<1>9. ASSUME NEW choice \in 0..3, VoteEndStops(choice) PROVE TypeOK'
  <2>1. \/ m_Task' = m_Task
        \/ m_Task' = Create(m_Task, "SET_STATE", 1, FALSE, STATE_DEATHMATCH)
        \/ m_Task' = Create(m_Task, "SET_STATE", 1, FALSE, STATE_FIRST_HALF)
    <3>1. CASE choice = 2
      BY <1>9, <3>1 DEF VoteEndStops
    <3>2. CASE choice = 3
      BY <1>9, <3>2 DEF VoteEndStops
    <3>3. CASE choice # 2 /\ choice # 3
      BY <1>9, <3>3 DEF VoteEndStops
    <3> QED BY <3>1, <3>2, <3>3
  <2>2. m_Task' \in SlotTasks
    <3>1. Create(m_Task, "SET_STATE", 1, FALSE, STATE_DEATHMATCH) \in SlotTasks
      BY <1>1, <1>2, CreateTask
    <3>2. Create(m_Task, "SET_STATE", 1, FALSE, STATE_FIRST_HALF) \in SlotTasks
      BY <1>1, <1>2, CreateTask
    <3> QED BY <1>1, <2>1, <3>1, <3>2
  <2>3. m_Vote' \in VoteTasks
    BY <1>2, <1>3, <1>9 DEF VoteEndStops
  <2> QED BY <1>1, <1>9, <2>2, <2>3, TypeKept DEF VoteEndStops, teamVars
<1> QED BY <1>5, <1>6, <1>7, <1>8, <1>9 DEF VoteStops

\* The waiting phase ends, or a captain picks.
LEMMA WaitAndPicksType == ASSUME TypeOK, WaitEnds \/ Picks PROVE TypeOK'
<1> USE ConfigAssumption, StateNames
<1>1. /\ m_Task \in SlotTasks /\ m_Vote \in VoteTasks /\ "SET_STATE" \in Slot
      /\ m_Leader \in [run: BOOLEAN, pool: Nat]
      /\ players \in Sides /\ roster \in Roster
  BY SlotTypes DEF TypeOK, Sides, Slot
<1>2. CASE WaitEnds
  <2>1. m_Wait.next \in State
    BY DEF TypeOK
  <2>2. m_Task' = Create(m_Task, "SET_STATE", 2, FALSE, m_Wait.next)
    BY <1>2 DEF WaitEnds
  <2>3. m_Task' \in SlotTasks
    BY <1>1, <2>1, <2>2, CreateTask
  <2>4. m_Wait' \in [run: BOOLEAN, next: State]
    BY <1>2 DEF WaitEnds, Idle
  <2>5. UNCHANGED <<m_State, scoreVars, voteVars, m_VoteMap, gameVars, teamVars, server>>
    BY <1>2 DEF WaitEnds
  <2> QED BY <2>3, <2>4, <2>5
             DEF TypeOK, SlotTasks, scoreVars, voteVars, gameVars, teamVars
<1>3. CASE LeaderRunsOut
  <2>1. LeaderStop(players, players, 0)
    BY <1>3 DEF LeaderRunsOut
  <2>2. /\ m_Leader' \in [run: BOOLEAN, pool: Nat] /\ players' \in Sides
        /\ m_Task' \in SlotTasks
    BY <1>1, <2>1, LeaderStopType
  <2> QED BY <1>1, <1>3, <2>2, TypeKept DEF LeaderRunsOut
<1>4. ASSUME NEW team \in Team, LeaderPicks(team) PROVE TypeOK'
  <2> DEFINE p == [players EXCEPT ![team] = @ + 1]
             n == m_Leader.pool - 1
  <2>1. n \in Nat
    BY <1>1, <1>4 DEF LeaderPicks
  <2>2. p[team] <= PlayersMax
    BY <1>4 DEF LeaderPicks
  <2>3. p \in Sides
    <3>1. p[team] = players[team] + 1 /\ players[team] \in 0..PlayersMax
      BY <1>1 DEF Sides
    <3>2. players[team] + 1 \in 0..PlayersMax
      BY <2>2, <3>1
    <3> QED BY <1>1, <3>2 DEF Sides
  <2>4. \/ LeaderStop(p, p, n)
        \/ /\ m_Leader' = [m_Leader EXCEPT !.pool = n]
           /\ players' = p /\ m_Task' = m_Task
    BY <1>4 DEF LeaderPicks
  <2> HIDE DEF p, n
  <2>5. /\ m_Leader' \in [run: BOOLEAN, pool: Nat] /\ players' \in Sides
        /\ m_Task' \in SlotTasks
    BY <1>1, <2>1, <2>3, <2>4, LeaderStopType
  <2> QED BY <1>1, <1>4, <2>5, TypeKept DEF LeaderPicks
<1> QED BY <1>2, <1>3, <1>4 DEF Picks

\* Players join, leave, vote from their menu and give up.
LEMMA PlayersActType == ASSUME TypeOK, PlayersAct PROVE TypeOK'
<1> USE ConfigAssumption, StateNames
<1>1. /\ m_Task \in SlotTasks /\ m_Vote \in VoteTasks
      /\ "SET_STATE" \in Slot /\ "MAP_CHANGE" \in Slot /\ "END" \in Vote
      /\ m_Leader \in [run: BOOLEAN, pool: Nat]
      /\ players \in Sides /\ roster \in Roster
  BY SlotTypes DEF TypeOK, Sides, Slot, Vote
<1>2. ASSUME NEW team \in Team, players[team] > 0
      PROVE  [players EXCEPT ![team] = @ - 1] \in Sides
  <2>1. players[team] - 1 \in 0..PlayersMax
    BY <1>1, <1>2 DEF Sides
  <2> QED BY <1>1, <2>1 DEF Sides
<1>3. ModDropClient => m_Vote' \in VoteTasks
  <2>1. VoteEndInit => m_Vote' \in VoteTasks
    <3> DEFINE restart == IF m_State = STATE_FIRST_HALF THEN 1 ELSE 0
    <3>1. restart \in State
      BY DEF State, STATE_DEAD, STATE_END
    <3> HIDE DEF restart
    <3>2. Create(m_Vote, "END", VoteDelay, FALSE, restart) \in VoteTasks
      BY <1>1, <3>1, CreateVote
    <3> QED BY <1>1, <3>2 DEF VoteEndInit, restart
  <2> QED BY <1>1, <2>1 DEF ModDropClient
<1>4. ASSUME NEW team \in Team, PlayerJoins(team) PROVE TypeOK'
  <2>1. players' \in Sides
    <3>1. CASE players' = [players EXCEPT ![team] = @ + 1] /\ players[team] < PlayersMax
      <4>1. players[team] + 1 \in 0..PlayersMax
        BY <1>1, <3>1 DEF Sides
      <4> QED BY <1>1, <3>1, <4>1 DEF Sides
    <3> QED BY <1>1, <1>4, <3>1 DEF PlayerJoins
  <2>2. m_Leader' \in [run: BOOLEAN, pool: Nat]
    <3>1. m_Leader' = m_Leader \/ m_Leader' = [m_Leader EXCEPT !.pool = @ + 1]
      BY <1>4 DEF PlayerJoins
    <3>2. m_Leader.pool + 1 \in Nat
      BY <1>1
    <3> QED BY <1>1, <3>1, <3>2
  <2> QED BY <1>1, <1>4, <2>1, <2>2, TypeKept DEF PlayerJoins
<1>5. ASSUME NEW team \in Team, PlayerLeavesTeam(team) PROVE TypeOK'
  BY <1>1, <1>2, <1>5, TypeKept DEF PlayerLeavesTeam, voteVars
<1>6. ASSUME NEW team \in Team, PlayerDrops(team) PROVE TypeOK'
  BY <1>1, <1>2, <1>3, <1>6, TypeKept DEF PlayerDrops
<1>7. ASSUME NEW team \in Team, CaptainDrops(team) PROVE TypeOK'
  <2> DEFINE p == [players EXCEPT ![team] = @ - 1]
             counted == [players EXCEPT ![team] = @ + 1]
  <2>1. p \in Sides
    BY <1>2, <1>7 DEF CaptainDrops
  <2>2. \/ /\ m_Leader.pool > 0
           /\ m_Leader' = [m_Leader EXCEPT !.pool = @ - 1]
           /\ players' = players /\ m_Task' = m_Task
        \/ LeaderStop(counted, players, 0)
        \/ LeaderStop(players, p, 0)
        \/ players' = p /\ m_Leader' = m_Leader /\ m_Task' = m_Task
    BY <1>7 DEF CaptainDrops
  <2> HIDE DEF p, counted
  <2>3. /\ m_Leader' \in [run: BOOLEAN, pool: Nat] /\ players' \in Sides
        /\ m_Task' \in SlotTasks
    <3>1. CASE /\ m_Leader.pool > 0
               /\ m_Leader' = [m_Leader EXCEPT !.pool = @ - 1]
               /\ players' = players /\ m_Task' = m_Task
      <4>1. m_Leader.pool - 1 \in Nat
        BY <1>1, <3>1
      <4> QED BY <1>1, <3>1, <4>1
    <3>2. CASE LeaderStop(counted, players, 0) \/ LeaderStop(players, p, 0)
      BY <1>1, <2>1, <3>2, LeaderStopType
    <3>3. CASE players' = p /\ m_Leader' = m_Leader /\ m_Task' = m_Task
      BY <1>1, <2>1, <3>3
    <3> QED BY <2>2, <3>1, <3>2, <3>3
  <2>4. m_Vote' \in VoteTasks /\ roster' = roster
    BY <1>3, <1>7 DEF CaptainDrops
  <2> QED BY <1>1, <1>7, <2>3, <2>4, TypeKept DEF CaptainDrops
<1>8. CASE PickableDrops
  <2>1. m_Leader.pool - 1 \in Nat
    BY <1>1, <1>8 DEF PickableDrops
  <2>2. m_Leader' = [m_Leader EXCEPT !.pool = m_Leader.pool - 1]
    BY <1>8 DEF PickableDrops
  <2>3. m_Leader' \in [run: BOOLEAN, pool: Nat]
    BY <1>1, <2>1, <2>2
  <2> QED BY <1>1, <1>8, <2>3, TypeKept DEF PickableDrops, teamVars
<1>9. CASE SpectatorDrops
  BY <1>1, <1>9, SetStateType DEF SpectatorDrops
<1>10. CASE PlayersVoteMap
  <2>1. m_Task' = Create(m_Task, "MAP_CHANGE", 5, FALSE, 0)
    BY <1>10 DEF PlayersVoteMap
  <2>2. m_Task' \in SlotTasks
    BY <1>1, <2>1, CreateTask
  <2> QED BY <1>1, <1>10, <2>2, TypeKept DEF PlayersVoteMap, voteVars, teamVars
<1>11. ASSUME NEW next \in {STATE_FIRST_HALF, STATE_DEATHMATCH}, PlayersVote(next)
       PROVE  TypeOK'
  <2>1. m_Task' = Create(m_Task, "SET_STATE", 1, FALSE, next)
    BY <1>11 DEF PlayersVote
  <2>2. m_Task' \in SlotTasks
    BY <1>1, <1>11, <2>1, CreateTask
  <2> QED BY <1>1, <1>11, <2>2, TypeKept DEF PlayersVote, voteVars, teamVars
<1>12. ASSUME NEW team \in Team, Surrender(team) PROVE TypeOK'
  <2> DEFINE awarded == [h \in Half |-> IF h = STATE_OVERTIME THEN 0 ELSE HalfRounds]
  <2>1. HalfRounds \in Nat
    BY DEF HalfRounds
  <2>2. awarded \in [Half -> Nat] /\ NoRounds \in [Half -> Nat]
    BY <2>1 DEF NoRounds
  <2>3. /\ m_Score' = [ZeroScore EXCEPT ![Other(team)] = awarded]
        /\ won' = [r \in Roster |-> IF r = RosterOf(team) THEN NoRounds ELSE awarded]
        /\ m_ScoreOT' = ZeroOT /\ wonOT' = [r \in Roster |-> 0]
        /\ m_Task' = Create(m_Task, "SET_STATE", 1, FALSE, STATE_END)
    BY <1>12 DEF Surrender
  <2> HIDE DEF awarded
  <2>4. ScoreTypes'
    BY <2>2, <2>3 DEF ScoreTypes, ZeroScore, ZeroOT
  <2>5. m_Task' \in SlotTasks
    BY <1>1, <2>3, CreateTask
  <2>6. UNCHANGED <<m_State, m_Wait, voteVars, m_VoteMap, gameVars, teamVars, server>>
    BY <1>12 DEF Surrender
  <2> QED BY <2>4, <2>5, <2>6
             DEF TypeOK, ScoreTypes, SlotTasks, voteVars, gameVars, teamVars
<1> QED BY <1>4, <1>5, <1>6, <1>7, <1>8, <1>9, <1>10, <1>11, <1>12 DEF PlayersAct

\* An admin forces a state, or the level changes.
LEMMA AdminAndServerType ==
    ASSUME TypeOK, \/ \E next \in AdminStates : AdminSetState(next)
                   \/ ServerDeactivate \/ ServerActivate
    PROVE  TypeOK'
<1> USE ConfigAssumption, StateNames
<1>1. /\ m_Task \in SlotTasks /\ m_Vote \in VoteTasks /\ "SET_STATE" \in Slot
      /\ m_Leader \in [run: BOOLEAN, pool: Nat]
      /\ players \in Sides /\ roster \in Roster
  BY SlotTypes DEF TypeOK, Sides, Slot
<1>2. Cleared(Slot) \in SlotTasks /\ NoVotes \in VoteTasks
  BY ClearedType DEF SlotTasks, VoteTasks, NoVotes
<1>3. Idle \in [run: BOOLEAN, next: State] /\ NoLeader \in [run: BOOLEAN, pool: Nat]
  BY DEF Idle, NoLeader
<1>4. ASSUME NEW next \in AdminStates, AdminSetState(next) PROVE TypeOK'
  <2>1. next \in State
    OBVIOUS
  <2>2. m_Task' = Create(m_Task, "SET_STATE", 1, FALSE, next)
    BY <1>4 DEF AdminSetState
  <2>3. m_Task' \in SlotTasks
    BY <1>1, <2>1, <2>2, CreateTask
  <2> QED BY <1>1, <1>4, <2>3, TypeKept DEF AdminSetState, voteVars, teamVars
<1>5. CASE ServerDeactivate
  <2> DEFINE next == IF PlayerCount >= PlayersMin THEN STATE_VOTEMAP
                                                  ELSE STATE_DEATHMATCH
  <2>1. /\ server' = "down"
        /\ m_Wait' = Idle /\ m_Vote' = NoVotes /\ m_Leader' = NoLeader
        /\ UNCHANGED <<scoreVars, gameVars, teamVars>>
    BY <1>5 DEF ServerDeactivate
  <2>2. /\ m_State' \in {m_State, STATE_END} /\ m_VoteMap' \in {m_VoteMap, TRUE}
        /\ \/ m_Task' = Cleared(Slot)
           \/ m_Task' = Create(Cleared(Slot), "SET_STATE", RestartDelay + 1, FALSE, next)
    BY <1>5 DEF ServerDeactivate
  <2>3. next \in State /\ RestartDelay + 1 \in Nat
    OBVIOUS
  <2> HIDE DEF next
  <2>4. Create(Cleared(Slot), "SET_STATE", RestartDelay + 1, FALSE, next) \in SlotTasks
    BY <1>1, <1>2, <2>3, CreateTask
  <2>5. m_Task' \in SlotTasks
    BY <1>2, <2>2, <2>4
  <2> QED BY <1>2, <1>3, <2>1, <2>2, <2>5
             DEF TypeOK, SlotTasks, VoteTasks, scoreVars, gameVars, teamVars
<1>6. CASE ServerActivate
  <2>1. /\ server' = "active" /\ m_State' = STATE_DEAD /\ ClearScores
        /\ m_Task' = Create(Cleared(Slot), "SET_STATE", 5, FALSE, STATE_DEATHMATCH)
        /\ m_Wait' = Idle /\ m_Vote' = NoVotes /\ m_Leader' = NoLeader
        /\ m_bGameStarted' = FALSE /\ m_bCompleteReset' = FALSE
        /\ round' = [phase |-> "play", left |-> FreezeTime]
        /\ players' = [team \in Team |-> 0] /\ roster' = "A"
        /\ m_VoteMap' = m_VoteMap
    BY <1>6 DEF ServerActivate
  <2>2. m_Task' \in SlotTasks
    BY <1>1, <1>2, <2>1, CreateTask
  <2>3. players' \in Sides /\ roster' \in Roster
    BY <2>1 DEF Sides, Roster
  <2>4. round' \in Phase
    BY <2>1 DEF Phase
  <2> QED BY <1>2, <1>3, <2>1, <2>2, <2>3, <2>4, ClearScoresType
             DEF TypeOK, SlotTasks, VoteTasks, Sides, Phase, ScoreTypes
<1> QED BY <1>4, <1>5, <1>6

\* Every step keeps the types.
LEMMA NextType == TypeOK /\ [Next]_vars => TypeOK'
<1> SUFFICES ASSUME TypeOK, [Next]_vars PROVE TypeOK'
  OBVIOUS
<1>1. CASE Tick
  BY <1>1, TickType
<1>2. CASE \/ RestartRound \/ RoundDraw \/ \E winner \in Team : RoundEnd(winner)
  BY <1>2, RoundsType
<1>3. CASE TaskFires
  BY <1>3, TaskFiresType
<1>4. CASE VoteStops
  BY <1>4, VoteStopsType
<1>5. CASE WaitEnds \/ Picks
  BY <1>5, WaitAndPicksType
<1>6. CASE PlayersAct
  BY <1>6, PlayersActType
<1>7. CASE \/ \E next \in AdminStates : AdminSetState(next)
           \/ ServerDeactivate \/ ServerActivate
  BY <1>7, AdminAndServerType
<1>8. CASE UNCHANGED vars
  BY <1>8 DEF vars, TypeOK, scoreVars, voteVars, gameVars, teamVars
<1> QED BY <1>1, <1>2, <1>3, <1>4, <1>5, <1>6, <1>7, <1>8 DEF Next

LEMMA InitType == Init => TypeOK
<1> USE ConfigAssumption, StateNames
<1> SUFFICES ASSUME Init PROVE TypeOK
  OBVIOUS
<1>1. Cleared(Slot) \in SlotTasks /\ NoVotes \in VoteTasks
  BY ClearedType DEF SlotTasks, VoteTasks, NoVotes
<1>2. m_Task = Create(Cleared(Slot), "SET_STATE", 5, FALSE, STATE_DEATHMATCH)
  BY DEF Init
<1>3. m_Task \in SlotTasks
  BY <1>1, <1>2, CreateTask DEF Slot
<1>4. Idle \in [run: BOOLEAN, next: State] /\ NoLeader \in [run: BOOLEAN, pool: Nat]
  BY DEF Idle, NoLeader
<1>5. ScoreTypes
  BY DEF Init, ScoreTypes, ZeroScore, ZeroOT, NoRounds
<1>6. round \in Phase /\ players \in Sides /\ roster \in Roster
  BY DEF Init, Phase, Sides, Roster
<1> QED BY <1>1, <1>3, <1>4, <1>5, <1>6
           DEF Init, TypeOK, ScoreTypes, SlotTasks, VoteTasks, Phase, Sides

\* Every variable of the match keeps its type: no slot ever holds an argument
\* that SetState, LO3 or a vote would not understand, no score, round clock or
\* pick list goes below zero, and no side has more than pug_players_max players,
\* for every setting of the cvars, with players coming and going and with
\* admins forcing states.
THEOREM TypeCorrect == Spec => []TypeOK
BY InitType, NextType, PTL DEF Spec
-----------------------------------------------------------------------------
(***************************************************************************)
(* When rounds count.  CPugMod::RoundEnd counts a round if the game is     *)
(* live, which three components write: CPugLO3, the round votes and        *)
(* CPugVoteOvertime, next to the engine's own restart.  Whatever these do  *)
(* to one another, a half never goes on uncounted after its LO3 restarts,  *)
(* and without the overtime vote no round counts during them.              *)
(***************************************************************************)
\* During the LO3 restarts the game is not live, the restarts' slot holds a
\* one-shot task, and nobody is asked about sudden death.
Quiet ==
    /\ m_Task["LO3_RESTART"].on => ~m_bGameStarted
    /\ ~m_Task["LO3_RESTART"].loop
    /\ ~m_Task["VOTE_OVERTIME"].on /\ ~m_Vote["OVERTIME"].on

\* Each restart is a task of its own, whatever pug_ot_type is.
RestartsOnce == ~m_Task["LO3_RESTART"].loop

\* The inductive invariant, and what a step of it does beside keeping it.
CountInv == LO3EndsLive /\ RestartsOnce /\ (OvertimeType # 0 => Quiet)
CountStep == CountInv' /\ LiveStep

\* A callback that started from the slots t left those two alone.
KeepsWarmup(t) ==
    /\ m_Task'["LO3_RESTART"].on = t["LO3_RESTART"].on
    /\ m_Task'["LO3_RESTART"].loop = t["LO3_RESTART"].loop
    /\ OvertimeType # 0 => m_Task'["VOTE_OVERTIME"].on = t["VOTE_OVERTIME"].on
-----------------------------------------------------------------------------
\* A slot that is not written keeps its task.
LEMMA CreateKeeps ==
    ASSUME NEW t \in SlotTasks, NEW i \in Slot, NEW delay, NEW param,
           i \notin {"LO3_RESTART", "VOTE_OVERTIME"},
           m_Task' = Create(t, i, delay, FALSE, param)
    PROVE  KeepsWarmup(t)
BY DEF Create, KeepsWarmup, SlotTasks, Slot

\* Switching off a slot that came due keeps the others.
LEMMA RearmKeeps ==
    ASSUME NEW t \in SlotTasks, NEW i \in Slot, NEW j \in Slot, i # j
    PROVE  Rearm(t, i)[j] = t[j]
BY DEF Rearm, Remove, SlotTasks

\* Callbacks that write neither the slots nor the flags keep the invariant.
LEMMA CountKept ==
    ASSUME CountInv, KeepsWarmup(m_Task),
           UNCHANGED <<m_State, m_bGameStarted, m_bCompleteReset>>, Up' => Up,
           m_Vote'["OVERTIME"].on => m_Vote["OVERTIME"].on
    PROVE  CountStep
<1>1. LO3EndsLive'
  BY DEF CountInv, LO3EndsLive, KeepsWarmup, Counts, Playing
<1>2. RestartsOnce' /\ (OvertimeType # 0 => Quiet')
  BY DEF CountInv, RestartsOnce, Quiet, KeepsWarmup
<1>3. LiveStep
  BY DEF LiveStep, Warmup, KeepsWarmup, Playing
<1> QED BY <1>1, <1>2, <1>3 DEF CountInv, CountStep

\* CPugLO3::Init(4), the first of the restarts, establishes it.
LEMMA LO3StartCounts ==
    ASSUME NEW t \in SlotTasks, LO3Init(4, t), m_Vote' = m_Vote,
           OvertimeType # 0 => ~t["VOTE_OVERTIME"].on /\ ~m_Vote["OVERTIME"].on
    PROVE  CountStep
<1>1. /\ m_bGameStarted' = FALSE
      /\ m_Task' = Create(t, "LO3_RESTART", 3, FALSE, 3)
  BY DEF LO3Init
<1>2. /\ m_Task'["LO3_RESTART"].on /\ ~m_Task'["LO3_RESTART"].loop
      /\ m_Task'["VOTE_OVERTIME"] = t["VOTE_OVERTIME"]
  BY <1>1 DEF Create, SlotTasks, Slot
<1> QED BY <1>1, <1>2 DEF CountStep, LiveStep, CountInv, RestartsOnce, LO3EndsLive, Quiet

\* CPugMod::SetState: the four states that are played start the restarts, and in
\* the others nothing counts.
LEMMA SetStateCounts ==
    ASSUME TypeOK, CountInv, NEW s \in State, NEW t \in SlotTasks, SetState(s, t),
           t["LO3_RESTART"] = m_Task["LO3_RESTART"],
           t["VOTE_OVERTIME"] = m_Task["VOTE_OVERTIME"]
    PROVE  CountStep
<1>1. OvertimeType # 0 => ~t["VOTE_OVERTIME"].on /\ ~m_Vote["OVERTIME"].on
  BY DEF CountInv, Quiet
<1>2. m_Vote \in VoteTasks /\ "SET_STATE" \in Slot
  BY DEF TypeOK, VoteTasks, Slot
<1>3. ASSUME ~Playing(s), KeepsWarmup(t), m_bGameStarted' = m_bGameStarted,
             m_Vote'["OVERTIME"].on = m_Vote["OVERTIME"].on
      PROVE  CountStep
  <2>1. LO3EndsLive'
    BY <1>3 DEF SetState, LO3EndsLive, Playing
  <2>2. RestartsOnce' /\ (OvertimeType # 0 => Quiet')
    BY <1>3 DEF CountInv, RestartsOnce, Quiet, KeepsWarmup
  <2>3. LiveStep
    BY <1>3 DEF SetState, LiveStep, Warmup, Playing
  <2> QED BY <2>1, <2>2, <2>3 DEF CountInv, CountStep
<1>4. m_Task' = t => KeepsWarmup(t)
  BY DEF KeepsWarmup
<1>5. \A delay, param : m_Task' = Create(t, "SET_STATE", delay, FALSE, param)
                           => KeepsWarmup(t)
  BY <1>2, CreateKeeps
<1>6. ASSUME NEW v \in {"MAP", "TEAM"}, OpenRoundVote(v)
      PROVE  /\ m_bGameStarted' = m_bGameStarted
             /\ m_Vote'["OVERTIME"].on = m_Vote["OVERTIME"].on
  <2>1. /\ m_Vote' = Create(m_Vote, v, VoteDelay, FALSE, Voters)
        /\ m_bGameStarted' = m_bGameStarted
    BY <1>6 DEF OpenRoundVote
  <2> QED BY <1>2, <2>1 DEF Create, VoteTasks, Vote
<1>7. CASE s = STATE_DEAD /\ EnterDead(t)
  BY <1>3, <1>4, <1>7 DEF EnterDead, voteVars, gameVars, Playing, Half, STATE_DEAD,
     STATE_KNIFE_ROUND, STATE_FIRST_HALF, STATE_SECOND_HALF, STATE_OVERTIME
<1>8. CASE s = STATE_DEATHMATCH /\ EnterDeathmatch(t)
  BY <1>3, <1>4, <1>8 DEF EnterDeathmatch, voteVars, gameVars, Playing, Half,
     STATE_DEATHMATCH, STATE_KNIFE_ROUND, STATE_FIRST_HALF, STATE_SECOND_HALF,
     STATE_OVERTIME
<1>9. CASE s = STATE_VOTEMAP /\ EnterVoteMap(t)
  <2>1. ~Playing(s)
    BY <1>9 DEF Playing, Half, STATE_VOTEMAP, STATE_KNIFE_ROUND, STATE_FIRST_HALF,
       STATE_SECOND_HALF, STATE_OVERTIME
  <2>2. CASE MapChoice
    BY <1>3, <1>4, <1>6, <1>9, <2>1, <2>2 DEF EnterVoteMap
  <2>3. CASE ~MapChoice
    BY <1>3, <1>5, <1>9, <2>1, <2>3 DEF EnterVoteMap, voteVars, gameVars
  <2> QED BY <2>2, <2>3
<1>10. CASE s = STATE_VOTETEAM /\ EnterVoteTeam(t)
  <2>1. ~Playing(s)
    BY <1>10 DEF Playing, Half, STATE_VOTETEAM, STATE_KNIFE_ROUND, STATE_FIRST_HALF,
       STATE_SECOND_HALF, STATE_OVERTIME
  <2>2. CASE TeamType > 0
    BY <1>3, <1>5, <1>10, <2>1, <2>2 DEF EnterVoteTeam, ChangeTeam, voteVars, gameVars
  <2>3. CASE ~(TeamType > 0)
    BY <1>3, <1>4, <1>6, <1>10, <2>1, <2>3 DEF EnterVoteTeam
  <2> QED BY <2>2, <2>3
<1>11. CASE s = STATE_CAPTAIN /\ EnterCaptain(t)
  <2>1. m_Vote' = m_Vote /\ m_bGameStarted' = m_bGameStarted /\ KeepsWarmup(t)
    BY <1>4, <1>5, <1>11 DEF EnterCaptain, gameVars
  <2> QED BY <1>3, <1>11, <2>1 DEF Playing, Half, STATE_CAPTAIN, STATE_KNIFE_ROUND,
             STATE_FIRST_HALF, STATE_SECOND_HALF, STATE_OVERTIME
<1>12. CASE EnterKnifeRound(t)
  BY <1>1, <1>12, LO3StartCounts DEF EnterKnifeRound, voteVars
<1>13. CASE EnterFirstHalf(t)
  BY <1>12, <1>13 DEF EnterFirstHalf
<1>14. CASE s = STATE_HALFTIME /\ EnterHalftime(t)
  <2>1. m_bGameStarted' = m_bGameStarted
    BY <1>14 DEF EnterHalftime, SwapTeams, gameVars
  <2>2. m_Vote' = m_Vote /\ KeepsWarmup(t)
    BY <1>4, <1>5, <1>14 DEF EnterHalftime, voteVars
  <2> QED BY <1>3, <1>14, <2>1, <2>2 DEF Playing, Half, STATE_HALFTIME,
             STATE_KNIFE_ROUND, STATE_FIRST_HALF, STATE_SECOND_HALF, STATE_OVERTIME
<1>15. CASE EnterSecondHalf(t)
  BY <1>1, <1>15, LO3StartCounts DEF EnterSecondHalf, voteVars
<1>16. CASE EnterOvertime(t)
  BY <1>1, <1>16, LO3StartCounts DEF EnterOvertime, voteVars
<1>17. CASE s = STATE_END /\ EnterEnd(t)
  <2>1. /\ m_Vote' = m_Vote /\ m_bGameStarted' = m_bGameStarted /\ KeepsWarmup(t)
    BY <1>5, <1>17 DEF EnterEnd, voteVars, gameVars
  <2> QED BY <1>3, <1>17, <2>1 DEF Playing, Half, STATE_END, STATE_KNIFE_ROUND,
             STATE_FIRST_HALF, STATE_SECOND_HALF, STATE_OVERTIME
<1> QED BY <1>7, <1>8, <1>9, <1>10, <1>11, <1>12, <1>13, <1>14, <1>15, <1>16,
           <1>17 DEF SetState

\* CPugLO3::Init from its own task: another restart, or the game is live.
LEMMA LO3FiresCounts == ASSUME TypeOK, CountInv, LO3Fires PROVE CountStep
<1> DEFINE t == Rearm(m_Task, "LO3_RESTART")
           restart == m_Task["LO3_RESTART"].param
<1>1. /\ m_Task \in SlotTasks /\ t \in SlotTasks /\ restart \in State
      /\ "LO3_RESTART" \in Slot /\ "VOTE_OVERTIME" \in Slot
  BY SlotTypes DEF Slot
<1>2. t["VOTE_OVERTIME"] = m_Task["VOTE_OVERTIME"]
  BY <1>1, RearmKeeps
<1>3. LO3Init(restart, t) /\ m_Vote' = m_Vote
  BY DEF LO3Fires, voteVars
<1>4. ~m_Task["LO3_RESTART"].loop => ~t["LO3_RESTART"].on /\ ~t["LO3_RESTART"].loop
  BY <1>1 DEF Rearm, Remove, NoTask, SlotTasks
<1> HIDE DEF t, restart
<1>5. CASE restart > 0
  <2>1. /\ m_bGameStarted' = FALSE
        /\ m_Task' = Create(t, "LO3_RESTART", 3, FALSE, restart - 1)
    BY <1>3, <1>5 DEF LO3Init
  <2>2. /\ m_Task'["LO3_RESTART"].on /\ ~m_Task'["LO3_RESTART"].loop
        /\ m_Task'["VOTE_OVERTIME"] = t["VOTE_OVERTIME"]
    BY <1>1, <2>1 DEF Create, SlotTasks
  <2> QED BY <1>2, <1>3, <2>1, <2>2
          DEF CountStep, LiveStep, CountInv, RestartsOnce, LO3EndsLive, Quiet
<1>6. CASE ~(restart > 0)
  <2>1. m_bGameStarted' = TRUE /\ m_bCompleteReset' = FALSE /\ m_Task' = t
    BY <1>3, <1>6 DEF LO3Init
  <2>2. LO3EndsLive'
    BY <2>1 DEF LO3EndsLive, Counts
  <2>3. RestartsOnce' /\ ~m_Task'["LO3_RESTART"].on /\ (OvertimeType # 0 => Quiet')
    BY <1>2, <1>3, <1>4, <2>1 DEF CountInv, RestartsOnce, Quiet
  <2> QED BY <2>2, <2>3 DEF CountInv, CountStep, LiveStep, Warmup
<1> QED BY <1>5, <1>6

\* A second passes: slots keep what they hold.
LEMMA TickCounts == ASSUME TypeOK, CountInv, Tick PROVE CountStep
<1>1. m_Task \in SlotTasks /\ m_Vote \in VoteTasks
  BY SlotTypes
<1>2. \A i \in Slot : /\ Elapse(m_Task)[i].on = m_Task[i].on
                      /\ Elapse(m_Task)[i].loop = m_Task[i].loop
  BY <1>1 DEF Elapse, SlotTasks, Task
<1>3. Elapse(m_Vote)["OVERTIME"].on = m_Vote["OVERTIME"].on
  BY <1>1 DEF Elapse, VoteTasks, Vote, Task
<1>4. KeepsWarmup(m_Task)
  BY <1>2 DEF Tick, KeepsWarmup, Slot
<1> QED BY <1>3, <1>4, CountKept DEF Tick, Up

\* Rounds: only the end of a match's regular rounds or overtime writes another
\* slot than SET_STATE, and only where pug_ot_type asks for a vote.
LEMMA RoundsCount ==
    ASSUME TypeOK, CountInv,
           \/ RestartRound \/ RoundDraw \/ \E winner \in Team : RoundEnd(winner)
    PROVE  CountStep
<1>1. m_Task \in SlotTasks
  BY SlotTypes
<1>2. m_Task' = m_Task => KeepsWarmup(m_Task)
  BY DEF KeepsWarmup
<1>3. ASSUME NEW i \in {"SET_STATE", "VOTE_SWAP_TEAM", "VOTE_OVERTIME"},
             i = "VOTE_OVERTIME" => OvertimeType = 0,
             NEW delay, NEW param, m_Task' = Create(m_Task, i, delay, FALSE, param)
      PROVE  KeepsWarmup(m_Task)
  BY <1>1, <1>3 DEF KeepsWarmup, Create, SlotTasks, Slot
<1>4. CASE RestartRound
  <2>1. LO3EndsLive'
    BY <1>4 DEF RestartRound, RestartRoundFrozen, CountInv, LO3EndsLive, Up, Counts, Playing
  <2>2. RestartsOnce' /\ (OvertimeType # 0 => Quiet')
    BY <1>4 DEF RestartRound, RestartRoundFrozen, CountInv, RestartsOnce, Quiet, voteVars
  <2>3. LiveStep
    BY <1>4 DEF RestartRound, RestartRoundFrozen, LiveStep, Warmup, Up, Playing
  <2> QED BY <2>1, <2>2, <2>3 DEF CountInv, CountStep
<1>5. CASE RoundDraw
  BY <1>2, <1>5, CountKept DEF RoundDraw, voteVars, Up
<1>6. ASSUME NEW winner \in Team, RoundEnd(winner) PROVE CountStep
  <2>1. KeepsWarmup(m_Task)
    <3>1. CASE CountKnife(winner)
      BY <1>3, <3>1 DEF CountKnife
    <3>2. CASE m_State # STATE_KNIFE_ROUND /\ CountRound(winner)
      <4>1. m_State \in Half
        BY <1>6, <3>2 DEF RoundEnd, Playing
      <4>2. ASSUME NEW score, m_Task' = AfterFirstHalf(score, m_Task)
            PROVE  KeepsWarmup(m_Task)
        BY <1>2, <1>3, <4>2 DEF AfterFirstHalf
      <4>3. ASSUME NEW score, m_Task' = AfterSecondHalf(score, m_Task)
            PROVE  KeepsWarmup(m_Task)
        <5> DEFINE played ==
              CASE OvertimeType = 0 ->
                    Create(m_Task, "VOTE_OVERTIME", RestartDelay + 1, FALSE, 0)
                [] OvertimeType = 1 ->
                    Create(m_Task, "SET_STATE", RestartDelay + 1, FALSE, STATE_HALFTIME)
                [] OvertimeType = 2 ->
                    Create(m_Task, "SET_STATE", RestartDelay + 1, FALSE, STATE_END)
                [] OvertimeType = 3 -> m_Task
        <5>1. \/ m_Task' = Create(m_Task, "SET_STATE", RestartDelay + 1, FALSE, STATE_END)
              \/ m_Task' = played \/ m_Task' = m_Task
          BY <4>3 DEF AfterSecondHalf
        <5>2. OvertimeType \in {0, 1, 2, 3}
          BY ConfigAssumption
        <5>3. CASE m_Task' = played
          <6>1. CASE OvertimeType = 0
            <7>1. m_Task' = Create(m_Task, "VOTE_OVERTIME", RestartDelay + 1, FALSE, 0)
              BY <5>3, <6>1
            <7> QED BY <1>3, <6>1, <7>1
          <6>2. CASE OvertimeType = 1
            <7>1. m_Task' = Create(m_Task, "SET_STATE", RestartDelay + 1, FALSE,
                                   STATE_HALFTIME)
              BY <5>3, <6>2
            <7> QED BY <1>3, <7>1
          <6>3. CASE OvertimeType = 2
            <7>1. m_Task' = Create(m_Task, "SET_STATE", RestartDelay + 1, FALSE,
                                   STATE_END)
              BY <5>3, <6>3
            <7> QED BY <1>3, <7>1
          <6>4. CASE OvertimeType = 3
            <7>1. m_Task' = m_Task
              BY <5>3, <6>4
            <7> QED BY <1>2, <7>1
          <6> QED BY <5>2, <6>1, <6>2, <6>3, <6>4
        <5> HIDE DEF played
        <5> QED BY <1>2, <1>3, <5>1, <5>3
      <4>4. ASSUME NEW score, m_Task' = AfterOvertime(score, m_Task)
            PROVE  KeepsWarmup(m_Task)
        BY <1>2, <1>3, <4>4 DEF AfterOvertime
      <4>5. \E score : \/ m_Task' = AfterFirstHalf(score, m_Task)
                       \/ m_Task' = AfterSecondHalf(score, m_Task)
                       \/ m_Task' = AfterOvertime(score, m_Task)
        <5> DEFINE score == [m_Score EXCEPT ![winner][m_State] = @ + 1]
                   scoreOT == IF m_State = STATE_OVERTIME
                              THEN [m_ScoreOT EXCEPT ![winner] = @ + 1] ELSE m_ScoreOT
        <5>1. m_Task' = CASE m_State = STATE_FIRST_HALF -> AfterFirstHalf(score, m_Task)
                          [] m_State = STATE_SECOND_HALF -> AfterSecondHalf(score, m_Task)
                          [] m_State = STATE_OVERTIME -> AfterOvertime(scoreOT, m_Task)
          BY <3>2 DEF CountRound
        <5> HIDE DEF score, scoreOT
        <5>2. m_Task' \in {AfterFirstHalf(score, m_Task), AfterSecondHalf(score, m_Task),
                           AfterOvertime(scoreOT, m_Task)}
          BY <4>1, <5>1 DEF Half, STATE_FIRST_HALF, STATE_SECOND_HALF, STATE_OVERTIME
        <5> QED BY <5>2
      <4> QED BY <4>2, <4>3, <4>4, <4>5
    <3> QED BY <1>2, <1>6, <3>1, <3>2 DEF RoundEnd
  <2> QED BY <1>6, <2>1, CountKept DEF RoundEnd, voteVars, Up
<1> QED BY <1>4, <1>5, <1>6

\* Tasks that are executed.
LEMMA TaskFiresCounts == ASSUME TypeOK, CountInv, TaskFires PROVE CountStep
<1>1. /\ m_Task \in SlotTasks /\ m_Vote \in VoteTasks
      /\ \A i \in Slot : Rearm(m_Task, i) \in SlotTasks /\ m_Task[i].param \in State
  BY SlotTypes
<1>2. Slot = {"SET_STATE", "MAP_CHANGE", "VOTE_SWAP_TEAM", "LO3_RESTART",
              "VOTE_OVERTIME"}
  BY DEF Slot
<1>3. ASSUME NEW i \in Slot, i \notin {"LO3_RESTART", "VOTE_OVERTIME"}
      PROVE  /\ Rearm(m_Task, i)["LO3_RESTART"] = m_Task["LO3_RESTART"]
             /\ Rearm(m_Task, i)["VOTE_OVERTIME"] = m_Task["VOTE_OVERTIME"]
  BY <1>1, <1>2, <1>3, RearmKeeps
<1>4. ASSUME NEW i \in Slot, i \notin {"LO3_RESTART", "VOTE_OVERTIME"},
             KeepsWarmup(Rearm(m_Task, i))
      PROVE  KeepsWarmup(m_Task)
  BY <1>3, <1>4 DEF KeepsWarmup
<1>5. \A t : m_Task' = t => KeepsWarmup(t)
  BY DEF KeepsWarmup
<1>6. CASE SetStateFires
  <2>1. SetState(m_Task["SET_STATE"].param, Rearm(m_Task, "SET_STATE"))
    BY <1>6 DEF SetStateFires
  <2> QED BY <1>1, <1>2, <1>3, <2>1, SetStateCounts
<1>7. CASE MapChangeFires
  <2>1. KeepsWarmup(m_Task)
    BY <1>2, <1>4, <1>5, <1>7 DEF MapChangeFires
  <2> QED BY <1>7, <2>1, CountKept DEF MapChangeFires, voteVars, gameVars, Up
<1>8. CASE LO3Fires
  BY <1>8, LO3FiresCounts
<1>9. CASE VoteSwapFires
  <2> DEFINE t == Rearm(m_Task, "VOTE_SWAP_TEAM")
             team == m_Task["VOTE_SWAP_TEAM"].param
  <2>1. m_Task' = t \/ m_Task' = Create(t, "SET_STATE", 2, FALSE, STATE_FIRST_HALF)
    BY <1>9 DEF VoteSwapFires
  <2>2. \/ m_Vote' = m_Vote
        \/ m_Vote' = Create(m_Vote, "SWAP", VoteDelay, FALSE, team)
    BY <1>9 DEF VoteSwapFires
  <2>3. UNCHANGED <<m_State, gameVars, server>>
    BY <1>9 DEF VoteSwapFires
  <2>4. t \in SlotTasks
    BY <1>1, <1>2
  <2>5. KeepsWarmup(t)
    <3> HIDE DEF t
    <3> QED BY <1>2, <1>5, <2>1, <2>4, CreateKeeps
  <2>6. KeepsWarmup(m_Task)
    BY <1>2, <1>4, <2>5
  <2>7. m_Vote'["OVERTIME"].on = m_Vote["OVERTIME"].on
    <3> HIDE DEF team
    <3> QED BY <1>1, <2>2 DEF Create, VoteTasks, Vote
  <2> QED BY <2>3, <2>6, <2>7, CountKept DEF gameVars, Up
<1>10. CASE VoteOvertimeFires
  <2> DEFINE t == Rearm(m_Task, "VOTE_OVERTIME")
  <2>1. m_Task["VOTE_OVERTIME"].on
    BY <1>10 DEF VoteOvertimeFires, IsDue
  <2>2. OvertimeType = 0
    BY <2>1 DEF CountInv, Quiet
  <2>3. m_Task' = t \/ m_Task' = Create(t, "SET_STATE", 2, FALSE, STATE_END)
    BY <1>10 DEF VoteOvertimeFires
  <2>4. UNCHANGED <<m_State, m_bGameStarted, m_bCompleteReset, server>>
    BY <1>10 DEF VoteOvertimeFires
  <2>5. t \in SlotTasks /\ t["LO3_RESTART"] = m_Task["LO3_RESTART"]
    BY <1>1, <1>2, RearmKeeps
  <2>6. m_Task'["LO3_RESTART"] = m_Task["LO3_RESTART"]
    <3> HIDE DEF t
    <3> QED BY <1>2, <2>3, <2>5 DEF Create, SlotTasks
  <2> QED BY <2>2, <2>4, <2>6
          DEF CountStep, LiveStep, Warmup, CountInv, RestartsOnce, LO3EndsLive, Up, Counts, Playing
<1> QED BY <1>6, <1>7, <1>8, <1>9, <1>10 DEF TaskFires

\* Votes that stop: sudden death makes the game live, and nothing else here
\* touches it.
LEMMA VoteStopsCount == ASSUME TypeOK, CountInv, VoteStops PROVE CountStep
<1>1. /\ m_Task \in SlotTasks /\ m_Vote \in VoteTasks
      /\ "SET_STATE" \in Slot /\ "MAP_CHANGE" \in Slot
  BY SlotTypes DEF Slot
<1>2. m_Task' = m_Task => KeepsWarmup(m_Task)
  BY DEF KeepsWarmup
<1>3. ASSUME NEW v \in Vote, NEW voted, Closes(v, voted)
      PROVE  m_Vote'["OVERTIME"].on => m_Vote["OVERTIME"].on
  BY <1>1, <1>3 DEF Closes, Remove, NoTask, VoteTasks
<1>4. ASSUME NEW voted \in BOOLEAN, VoteMapStops(voted) PROVE CountStep
  <2>1. KeepsWarmup(m_Task)
    BY <1>1, <1>4, CreateKeeps DEF VoteMapStops
  <2> QED BY <1>3, <1>4, <2>1, CountKept DEF VoteMapStops, Vote, gameVars, Up
<1>5. ASSUME NEW type \in 1..6, VoteTeamStops(type) PROVE CountStep
  <2>1. KeepsWarmup(m_Task)
    BY <1>1, <1>5, CreateKeeps DEF VoteTeamStops, ChangeTeam
  <2> QED BY <1>3, <1>5, <2>1, CountKept DEF VoteTeamStops, Vote, gameVars, Up
<1>6. ASSUME NEW choice \in 0..2, VoteSwapStops(choice) PROVE CountStep
  <2>1. KeepsWarmup(m_Task)
    BY <1>1, <1>6, CreateKeeps DEF VoteSwapStops
  <2> QED BY <1>3, <1>6, <2>1, CountKept DEF VoteSwapStops, Vote, gameVars, Up
<1>7. ASSUME NEW choice \in 0..3, VoteOvertimeStops(choice) PROVE CountStep
  <2>1. m_Vote["OVERTIME"].on
    BY <1>7 DEF VoteOvertimeStops, Closes
  <2>2. OvertimeType = 0
    BY <2>1 DEF CountInv, Quiet
  <2>3. KeepsWarmup(m_Task)
    BY <1>1, <1>2, <1>7, CreateKeeps DEF VoteOvertimeStops
  <2>4. /\ UNCHANGED <<m_State, m_bCompleteReset, server>>
        /\ m_bGameStarted' = TRUE \/ m_bGameStarted' = m_bGameStarted
    BY <1>7 DEF VoteOvertimeStops
  <2>5. CountInv'
    BY <2>2, <2>3, <2>4
       DEF CountInv, RestartsOnce, LO3EndsLive, KeepsWarmup, Counts, Playing, Up
  <2>6. ~m_Vote'["OVERTIME"].on
    BY <1>1, <1>7 DEF VoteOvertimeStops, Closes, Remove, NoTask, VoteTasks, Vote
  <2> QED BY <2>1, <2>5, <2>6 DEF CountStep, LiveStep
<1>8. ASSUME NEW choice \in 0..3, VoteEndStops(choice) PROVE CountStep
  <2>1. KeepsWarmup(m_Task)
    <3>1. CASE choice = 2
      <4>1. m_Task' = Create(m_Task, "SET_STATE", 1, FALSE, STATE_DEATHMATCH)
        BY <1>8, <3>1 DEF VoteEndStops
      <4> QED BY <1>1, <4>1, CreateKeeps
    <3>2. CASE choice = 3
      <4>1. m_Task' = Create(m_Task, "SET_STATE", 1, FALSE, STATE_FIRST_HALF)
        BY <1>8, <3>2 DEF VoteEndStops
      <4> QED BY <1>1, <4>1, CreateKeeps
    <3>3. CASE choice \notin {2, 3}
      <4>1. m_Task' = m_Task
        BY <1>8, <3>3 DEF VoteEndStops
      <4> QED BY <1>2, <4>1
    <3> QED BY <3>1, <3>2, <3>3
  <2> QED BY <1>3, <1>8, <2>1, CountKept DEF VoteEndStops, Vote, gameVars, Up
<1> QED BY <1>4, <1>5, <1>6, <1>7, <1>8 DEF VoteStops

\* Waiting, the captains' pick, players and admins write only SET_STATE and
\* MAP_CHANGE, and of the votes only END; SpectatorDrops ends the match.
LEMMA PeopleCount ==
    ASSUME TypeOK, CountInv,
           \/ WaitEnds \/ Picks \/ PlayersAct
           \/ \E next \in AdminStates : AdminSetState(next)
    PROVE  CountStep
<1>1. /\ m_Task \in SlotTasks /\ m_Vote \in VoteTasks
      /\ "SET_STATE" \in Slot /\ "MAP_CHANGE" \in Slot
  BY SlotTypes DEF Slot
<1>2. m_Task' = m_Task => KeepsWarmup(m_Task)
  BY DEF KeepsWarmup
<1>3. \A i \in {"SET_STATE", "MAP_CHANGE"} : \A delay, param :
        m_Task' = Create(m_Task, i, delay, FALSE, param) => KeepsWarmup(m_Task)
  BY <1>1, CreateKeeps
<1>4. ASSUME KeepsWarmup(m_Task), UNCHANGED <<m_State, gameVars, server>>,
             m_Vote'["OVERTIME"].on = m_Vote["OVERTIME"].on
      PROVE  CountStep
  BY <1>4, CountKept DEF gameVars, Up
<1>5. ASSUME NEW c, NEW p, NEW n, LeaderStop(c, p, n) PROVE KeepsWarmup(m_Task)
  BY <1>3, <1>5 DEF LeaderStop
<1>6. ModDropClient => m_Vote'["OVERTIME"].on = m_Vote["OVERTIME"].on
  <2>1. VoteEndInit => m_Vote'["OVERTIME"].on = m_Vote["OVERTIME"].on
    <3> DEFINE rests == IF m_State = STATE_FIRST_HALF THEN 1 ELSE 0
    <3>1. VoteEndInit => \/ m_Vote' = m_Vote
                         \/ m_Vote' = Create(m_Vote, "END", VoteDelay, FALSE, rests)
      BY DEF VoteEndInit
    <3> HIDE DEF rests
    <3> QED BY <1>1, <3>1 DEF Create, VoteTasks, Vote
  <2> QED BY <2>1 DEF ModDropClient
<1>7. CASE WaitEnds
  <2>1. KeepsWarmup(m_Task)
    BY <1>3, <1>7 DEF WaitEnds
  <2> QED BY <1>4, <1>7, <2>1 DEF WaitEnds, voteVars
<1>8. CASE LeaderRunsOut
  <2>1. KeepsWarmup(m_Task)
    BY <1>5, <1>8 DEF LeaderRunsOut
  <2> QED BY <1>4, <1>8, <2>1 DEF LeaderRunsOut
<1>9. ASSUME NEW team \in Team, LeaderPicks(team) PROVE CountStep
  <2>1. KeepsWarmup(m_Task)
    BY <1>2, <1>5, <1>9 DEF LeaderPicks
  <2> QED BY <1>4, <1>9, <2>1 DEF LeaderPicks
<1>10. ASSUME NEW team \in Team, PlayerJoins(team) \/ PlayerLeavesTeam(team)
       PROVE  CountStep
  BY <1>2, <1>4, <1>10 DEF PlayerJoins, PlayerLeavesTeam, voteVars
<1>11. ASSUME NEW team \in Team, PlayerDrops(team) PROVE CountStep
  BY <1>2, <1>4, <1>6, <1>11 DEF PlayerDrops
<1>12. ASSUME NEW team \in Team, CaptainDrops(team) PROVE CountStep
  <2>1. KeepsWarmup(m_Task)
    BY <1>2, <1>5, <1>12 DEF CaptainDrops
  <2> QED BY <1>4, <1>6, <1>12, <2>1 DEF CaptainDrops
<1>13. ASSUME NEW team \in Team, Surrender(team) PROVE CountStep
  <2>1. KeepsWarmup(m_Task)
    BY <1>3, <1>13 DEF Surrender
  <2> QED BY <1>4, <1>13, <2>1 DEF Surrender, voteVars
<1>14. CASE PickableDrops
  BY <1>2, <1>4, <1>14 DEF PickableDrops
<1>15. CASE SpectatorDrops
  <2>1. SetState(STATE_END, m_Task)
    BY <1>15 DEF SpectatorDrops
  <2> QED BY <1>1, <2>1, StateNames, SetStateCounts
<1>16. CASE PlayersVoteMap
  <2>1. KeepsWarmup(m_Task)
    BY <1>3, <1>16 DEF PlayersVoteMap
  <2> QED BY <1>4, <1>16, <2>1 DEF PlayersVoteMap, voteVars
<1>17. ASSUME NEW next, PlayersVote(next) \/ AdminSetState(next) PROVE CountStep
  <2>1. KeepsWarmup(m_Task)
    BY <1>3, <1>17 DEF PlayersVote, AdminSetState
  <2> QED BY <1>4, <1>17, <2>1 DEF PlayersVote, AdminSetState, voteVars
<1> QED BY <1>7, <1>8, <1>9, <1>10, <1>11, <1>12, <1>13, <1>14, <1>15, <1>16,
           <1>17 DEF Picks, PlayersAct

\* Between two levels nothing is played.
LEMMA ServerCounts ==
    ASSUME TypeOK, CountInv, ServerDeactivate \/ ServerActivate PROVE CountStep
<1>1. /\ ~NoVotes["OVERTIME"].on
      /\ ~Cleared(Slot)["LO3_RESTART"].on /\ ~Cleared(Slot)["LO3_RESTART"].loop
      /\ ~Cleared(Slot)["VOTE_OVERTIME"].on
  BY DEF NoVotes, Cleared, NoTask, Vote, Slot
<1>2. Cleared(Slot) \in SlotTasks /\ "SET_STATE" \in Slot
  BY ClearedType, StateNames DEF SlotTasks, Slot
<1>3. KeepsWarmup(Cleared(Slot)) /\ m_Vote' = NoVotes
  <2>1. \/ m_Task' = Cleared(Slot)
        \/ \E delay, param : m_Task' = Create(Cleared(Slot), "SET_STATE", delay, FALSE,
                                             param)
    BY DEF ServerDeactivate, ServerActivate
  <2>2. m_Task' = Cleared(Slot) => KeepsWarmup(Cleared(Slot))
    BY DEF KeepsWarmup
  <2> QED BY <1>2, <2>1, <2>2, CreateKeeps DEF ServerDeactivate, ServerActivate
<1>4. RestartsOnce' /\ (OvertimeType # 0 => Quiet')
  BY <1>1, <1>3 DEF KeepsWarmup, RestartsOnce, Quiet
<1>5. LO3EndsLive' /\ LiveStep
  <2>1. CASE ServerDeactivate
    BY <2>1 DEF ServerDeactivate, LO3EndsLive, LiveStep, Warmup, Up
  <2>2. CASE ServerActivate
    BY <2>2 DEF ServerActivate, LO3EndsLive, LiveStep, Warmup, Playing, Half, STATE_DEAD,
       STATE_KNIFE_ROUND, STATE_FIRST_HALF, STATE_SECOND_HALF, STATE_OVERTIME
  <2> QED BY <2>1, <2>2
<1> QED BY <1>4, <1>5 DEF CountInv, CountStep

LEMMA NextCounts == TypeOK /\ CountInv /\ [Next]_vars => CountStep
<1> SUFFICES ASSUME TypeOK, CountInv, [Next]_vars PROVE CountStep
  OBVIOUS
<1>1. CASE UNCHANGED vars
  BY <1>1 DEF vars, CountStep, LiveStep, Warmup, CountInv, RestartsOnce, LO3EndsLive, Quiet, Up,
     Counts, Playing, voteVars, gameVars
<1> QED BY <1>1, TickCounts, RoundsCount, TaskFiresCounts, VoteStopsCount,
           PeopleCount, ServerCounts DEF Next

LEMMA InitCounts == Init => CountInv
BY DEF Init, CountInv, RestartsOnce, LO3EndsLive, Quiet, Create, Cleared, NoVotes, NoTask, Slot, Vote,
   Playing, Half, STATE_DEAD, STATE_KNIFE_ROUND, STATE_FIRST_HALF, STATE_SECOND_HALF,
   STATE_OVERTIME

LEMMA CountInvariant == Spec => []CountInv
<1>1. TypeOK /\ CountInv /\ [Next]_vars => CountInv'
  BY NextCounts DEF CountStep
<1> QED BY <1>1, InitCounts, TypeCorrect, PTL DEF Spec
-----------------------------------------------------------------------------
\* A knife round or a half whose LO3 restarts are over is counted by
\* CPugMod::RoundEnd: neither the clock, the order of callbacks, an admin, nor a
\* vote left from an earlier state can leave a match that is played uncounted.
THEOREM LO3AlwaysEndsLive == Spec => []LO3EndsLive
BY CountInvariant, PTL DEF CountInv

\* While the restarts go on nothing is counted, where ties are not put to a vote
\* (pug_ot_type # 0).  The vote's sudden death makes the game live whatever the
\* restarts are doing, so the assumption is needed.
THEOREM WarmupNeverCounts ==
    ASSUME OvertimeType # 0 PROVE Spec => []WarmupUncounted
<1>1. CountInv => WarmupUncounted
  BY DEF CountInv, Quiet, Warmup, WarmupUncounted, Counts
<1> QED BY <1>1, CountInvariant, PTL

\* With every setting, and with admins and players who force and vote for states at any
\* time, a match becomes live between its restarts by nothing but the sudden death of an
\* overtime vote: CPugLO3 takes back what the half before left live, and no other
\* callback writes m_bGameStarted without ending the restarts.
THEOREM RestartsAreNotLive == Spec => LiveAfterLO3
<1>1. TypeOK /\ CountInv /\ [Next]_vars => [LiveStep]_vars
  BY NextCounts DEF CountStep
<1> QED BY <1>1, CountInvariant, TypeCorrect, PTL DEF Spec, LiveAfterLO3
-----------------------------------------------------------------------------
(***************************************************************************)
(* What moves a phase on.  Every state in which nothing is played waits    *)
(* for a task, a vote, the captains or the waiting phase.  Each of them    *)
(* ends by asking for the next state, and CPugTask has one slot for that:  *)
(* a driver may be forgotten only for a request that is already there.     *)
(***************************************************************************)
\* Nothing asks for the state in which a level starts, which nothing leaves.
NeverDead ==
    /\ Pending => m_Task["SET_STATE"].param # STATE_DEAD
    /\ m_Wait.next # STATE_DEAD

\* The inductive invariant.
DriverInv == PhaseHasDriver /\ NeverDead

\* A callback has asked for another state than the first.
Asked == Pending' /\ m_Task'["SET_STATE"].param # STATE_DEAD

\* CPugTask::Create switches one slot on, with its argument, and writes no other.
LEMMA CreatedOn ==
    ASSUME NEW t \in SlotTasks, NEW i \in Slot, NEW delay, NEW param,
           m_Task' = Create(t, i, delay, FALSE, param)
    PROVE  m_Task'[i].on /\ ~m_Task'[i].loop
BY DEF Create, SlotTasks

LEMMA CreatedWith ==
    ASSUME NEW t \in SlotTasks, NEW i \in Slot, NEW delay, NEW param,
           m_Task' = Create(t, i, delay, FALSE, param)
    PROVE  m_Task'[i].left = delay /\ m_Task'[i].param = param
BY DEF Create, SlotTasks

LEMMA CreatedElse ==
    ASSUME NEW t \in SlotTasks, NEW i \in Slot, NEW delay, NEW param,
           m_Task' = Create(t, i, delay, FALSE, param), NEW j \in Slot, j # i
    PROVE  m_Task'[j] = t[j]
BY DEF Create, SlotTasks

LEMMA VoteCreated ==
    ASSUME TypeOK, NEW v \in Vote, NEW delay, NEW param,
           m_Vote' = Create(m_Vote, v, delay, FALSE, param)
    PROVE  /\ m_Vote'[v].on
           /\ \A w \in Vote : w # v => m_Vote'[w] = m_Vote[w]
BY SlotTypes DEF Create, VoteTasks

\* A vote that closes leaves the others open.
LEMMA ClosesKeeps ==
    ASSUME TypeOK, NEW v \in Vote, NEW voted, Closes(v, voted)
    PROVE  /\ ~m_Vote'[v].on
           /\ \A w \in Vote : w # v => m_Vote'[w] = m_Vote[w]
BY SlotTypes DEF Closes, Remove, NoTask, VoteTasks

\* A request for a state is one that drives.
LEMMA AskedBy ==
    ASSUME NEW t \in SlotTasks, NEW delay, NEW param, param # STATE_DEAD,
           m_Task' = Create(t, "SET_STATE", delay, FALSE, param)
    PROVE  Asked
<1>1. "SET_STATE" \in Slot
  BY DEF Slot
<1>2. m_Task'["SET_STATE"].on /\ m_Task'["SET_STATE"].param = param
  BY <1>1, CreatedOn, CreatedWith
<1>3. Pending'
  BY <1>2 DEF Pending
<1> QED BY <1>2, <1>3 DEF Asked

\* A request for another state moves on whatever phase it is.
LEMMA AskedDrives ==
    ASSUME Asked, m_Wait'.next # STATE_DEAD
    PROVE  DriverInv'
BY DEF DriverInv, PhaseHasDriver, NeverDead, Asked, Pending

\* Callbacks that leave the drivers alone.
LEMMA DriversKept ==
    ASSUME DriverInv, UNCHANGED <<m_State, m_Wait, server>>,
           m_Task'["SET_STATE"].on = m_Task["SET_STATE"].on,
           m_Task'["SET_STATE"].param = m_Task["SET_STATE"].param,
           m_Task["MAP_CHANGE"].on => m_Task'["MAP_CHANGE"].on,
           m_Vote["MAP"].on => m_Vote'["MAP"].on,
           m_Vote["TEAM"].on => m_Vote'["TEAM"].on,
           m_Leader.run => m_Leader'.run
    PROVE  DriverInv'
BY DEF DriverInv, PhaseHasDriver, NeverDead, Pending

\* The names of the states that ask for something, told apart.
LEMMA StatesDiffer ==
    /\ STATE_DEAD = 0 /\ STATE_DEATHMATCH = 1 /\ STATE_VOTEMAP = 2
    /\ STATE_VOTETEAM = 3 /\ STATE_CAPTAIN = 4 /\ STATE_KNIFE_ROUND = 5
    /\ STATE_FIRST_HALF = 6 /\ STATE_HALFTIME = 7 /\ STATE_SECOND_HALF = 8
    /\ STATE_OVERTIME = 9 /\ STATE_END = 10
BY DEF STATE_DEAD, STATE_DEATHMATCH, STATE_VOTEMAP, STATE_VOTETEAM, STATE_CAPTAIN,
       STATE_KNIFE_ROUND, STATE_FIRST_HALF, STATE_HALFTIME, STATE_SECOND_HALF,
       STATE_OVERTIME, STATE_END

\* CPugMod::SetState leaves every phase with what moves it on.
LEMMA SetStateDrives ==
    ASSUME ReadyType # 0, TypeOK, NeverDead, NEW s \in State, s # STATE_DEAD,
           NEW t \in SlotTasks, SetState(s, t), UNCHANGED server,
           t["SET_STATE"].on => t["SET_STATE"].param # STATE_DEAD
    PROVE  DriverInv'
<1>1. m_Vote \in VoteTasks /\ "SET_STATE" \in Slot /\ "LO3_RESTART" \in Slot
      /\ "MAP" \in Vote /\ "TEAM" \in Vote /\ m_State' = s
  BY SlotTypes DEF Slot, Vote, SetState
<1>2. ASSUME NEW delay, NEW param, param # STATE_DEAD,
             m_Task' = Create(t, "SET_STATE", delay, FALSE, param)
      PROVE  Asked
  BY <1>2, AskedBy
<1>3. m_Task' = t => (Pending' => m_Task'["SET_STATE"].param # STATE_DEAD)
  BY DEF Pending
<1>31. /\ STATE_DEATHMATCH # STATE_DEAD /\ STATE_VOTEMAP # STATE_DEAD
       /\ STATE_VOTETEAM # STATE_DEAD /\ STATE_CAPTAIN # STATE_DEAD
       /\ STATE_KNIFE_ROUND # STATE_DEAD /\ STATE_FIRST_HALF # STATE_DEAD
       /\ STATE_SECOND_HALF # STATE_DEAD /\ STATE_OVERTIME # STATE_DEAD
  BY StatesDiffer
<1>4. Idle.next # STATE_DEAD /\ \A n : Waiting(n).next = n /\ Waiting(n).run
  BY StatesDiffer DEF Idle, Waiting
<1>5. CASE s = STATE_DEATHMATCH /\ EnterDeathmatch(t)
  <2>1. m_Wait'.run /\ m_Wait'.next # STATE_DEAD
    BY <1>4, <1>5, StatesDiffer DEF EnterDeathmatch
  <2> QED BY <1>1, <1>3, <1>5, <2>1, StatesDiffer
             DEF EnterDeathmatch, DriverInv, PhaseHasDriver, NeverDead
<1>6. CASE s = STATE_VOTEMAP /\ EnterVoteMap(t)
  <2>1. m_Wait' = Idle
    BY <1>6 DEF EnterVoteMap, StopWaiting
  <2>2. CASE MapChoice
    <3>1. m_Vote'["MAP"].on /\ m_Task' = t
      BY <1>1, <1>6, <2>2, VoteCreated DEF EnterVoteMap, OpenRoundVote
    <3> QED BY <1>1, <1>3, <1>4, <1>6, <2>1, <3>1, StatesDiffer
               DEF DriverInv, PhaseHasDriver, NeverDead
  <2>3. CASE ~MapChoice
    <3>1. m_Task' = Create(t, "SET_STATE", 1, FALSE, STATE_VOTETEAM)
      BY <1>6, <2>3 DEF EnterVoteMap
    <3>2. Asked
      BY <1>2, <1>31, <3>1
    <3> QED BY <1>4, <2>1, <3>2, AskedDrives
  <2> QED BY <2>2, <2>3
<1>7. CASE s = STATE_VOTETEAM /\ EnterVoteTeam(t)
  <2>1. m_Wait' = Idle
    BY <1>7 DEF EnterVoteTeam, StopWaiting
  <2>2. CASE TeamType > 0
    <3> DEFINE next == CASE TeamType = VOTE_TEAM_CAPTAIN -> STATE_CAPTAIN
                         [] TeamType = VOTE_TEAM_KNIFE_ROUND -> STATE_KNIFE_ROUND
                         [] OTHER -> IF KnifeRound THEN STATE_KNIFE_ROUND
                                                   ELSE STATE_FIRST_HALF
    <3>1. m_Task' = Create(t, "SET_STATE", 2, FALSE, next)
      BY <1>7, <2>2 DEF EnterVoteTeam, ChangeTeam
    <3>2. next # STATE_DEAD
      BY <1>31
    <3> HIDE DEF next
    <3>3. Asked
      BY <1>2, <3>1, <3>2
    <3> QED BY <1>4, <2>1, <3>3, AskedDrives
  <2>3. CASE ~(TeamType > 0)
    <3>1. m_Vote'["TEAM"].on /\ m_Task' = t
      BY <1>1, <1>7, <2>3, VoteCreated DEF EnterVoteTeam, OpenRoundVote
    <3> QED BY <1>1, <1>3, <1>4, <1>7, <2>1, <3>1, StatesDiffer
               DEF DriverInv, PhaseHasDriver, NeverDead
  <2> QED BY <2>2, <2>3
<1>8. CASE s = STATE_CAPTAIN /\ EnterCaptain(t)
  <2>1. m_Wait' = Idle
    BY <1>8 DEF EnterCaptain, StopWaiting
  <2>3. CASE \A team \in Team : players[team] >= 2
    <3>1. m_Leader' = [run |-> TRUE, pool |-> PlayerCount - 2] /\ m_Task' = t
      BY <1>8, <2>3 DEF EnterCaptain
    <3>2. m_Leader'.run
      BY <3>1
    <3> QED BY <3>1, <3>2, <1>1, <1>3, <1>4, <1>8, <2>1, StatesDiffer
               DEF DriverInv, PhaseHasDriver, NeverDead
  <2>4. CASE ~(\A team \in Team : players[team] >= 2)
    <3>1. m_Task' = Create(t, "SET_STATE", 2, FALSE, STATE_DEATHMATCH)
      BY <1>8, <2>4 DEF EnterCaptain
    <3>2. Asked
      BY <1>2, <1>31, <3>1
    <3> QED BY <1>4, <2>1, <3>2, AskedDrives
  <2> QED BY <2>3, <2>4
<1>9. CASE s = STATE_HALFTIME /\ EnterHalftime(t)
  <2> DEFINE next == IF GetRound(m_Score) < Rounds THEN STATE_SECOND_HALF
                                                   ELSE STATE_OVERTIME
  <2>1. next # STATE_DEAD
    BY StatesDiffer
  <2>2. CASE PlayerCount < 2 * PlayersMin
    <3>1. m_Wait' = Waiting(next) /\ m_Task' = t
      BY <1>9, <2>2 DEF EnterHalftime
    <3> HIDE DEF next
    <3> QED BY <1>1, <1>3, <1>4, <1>9, <2>1, <3>1, StatesDiffer
               DEF DriverInv, PhaseHasDriver, NeverDead
  <2>3. CASE ~(PlayerCount < 2 * PlayersMin)
    <3>1. m_Wait' = m_Wait /\ m_Task' = Create(t, "SET_STATE", 3, FALSE, next)
      BY <1>9, <2>3 DEF EnterHalftime
    <3> HIDE DEF next
    <3>2. Asked
      BY <1>2, <2>1, <3>1
    <3> QED BY <3>1, <3>2, AskedDrives DEF NeverDead
  <2> QED BY <2>2, <2>3
<1>10. CASE s = STATE_END /\ EnterEnd(t)
  <2>1. Asked
    BY <1>2, <1>10, StatesDiffer DEF EnterEnd
  <2> QED BY <1>10, <2>1, AskedDrives DEF EnterEnd, NeverDead
<1>11. ASSUME LO3Init(4, t), s \in {STATE_KNIFE_ROUND, STATE_FIRST_HALF,
                                    STATE_SECOND_HALF, STATE_OVERTIME},
              m_Wait' = Idle
       PROVE  DriverInv'
  <2>1. m_Task'["SET_STATE"] = t["SET_STATE"]
    <3>1. m_Task' = Create(t, "LO3_RESTART", 3, FALSE, 3)
      BY <1>11 DEF LO3Init
    <3> QED BY <1>1, <3>1, CreatedElse
  <2> QED BY <1>1, <1>4, <1>11, <2>1, StatesDiffer
             DEF DriverInv, PhaseHasDriver, NeverDead, Pending
<1>12. CASE s \in {STATE_KNIFE_ROUND, STATE_FIRST_HALF} /\ EnterKnifeRound(t)
  BY <1>11, <1>12 DEF EnterKnifeRound, StopWaiting
<1>13. CASE s = STATE_SECOND_HALF /\ EnterSecondHalf(t)
  BY <1>11, <1>13 DEF EnterSecondHalf, StopWaiting
<1>14. CASE s = STATE_OVERTIME /\ EnterOvertime(t)
  BY <1>11, <1>14 DEF EnterOvertime, StopWaiting
<1> QED BY <1>5, <1>6, <1>7, <1>8, <1>9, <1>10, <1>12, <1>13, <1>14
           DEF SetState, EnterFirstHalf

\* What the end of a round may write: the slots of the two votes that follow
\* rounds, or a request for halftime or the end.
LEMMA RoundEndWrites ==
    ASSUME NEW winner \in Team, RoundEnd(winner)
    PROVE  \/ m_Task' = m_Task
           \/ \E i \in {"VOTE_SWAP_TEAM", "VOTE_OVERTIME"}, delay \in Nat, param \in Nat :
                 m_Task' = Create(m_Task, i, delay, FALSE, param)
           \/ \E next \in {STATE_HALFTIME, STATE_END} :
                 m_Task' = Create(m_Task, "SET_STATE", RestartDelay + 1, FALSE, next)
<1> USE ConfigAssumption
<1> DEFINE Written(after) ==
              \/ after = m_Task
              \/ \E i \in {"VOTE_SWAP_TEAM", "VOTE_OVERTIME"}, delay \in Nat, param \in Nat :
                    after = Create(m_Task, i, delay, FALSE, param)
              \/ \E next \in {STATE_HALFTIME, STATE_END} :
                    after = Create(m_Task, "SET_STATE", RestartDelay + 1, FALSE, next)
<1>1. RestartDelay + 1 \in Nat /\ winner \in Nat
  BY DEF Team, TERRORIST, CT
<1>2. CASE CountKnife(winner)
  BY <1>1, <1>2 DEF CountKnife
<1>3. CASE m_State # STATE_KNIFE_ROUND /\ CountRound(winner)
  <2>1. m_State \in Half
    BY <1>3 DEF RoundEnd, Playing
  <2>2. \A score : Written(AfterFirstHalf(score, m_Task))
    BY DEF AfterFirstHalf
  <2>3. \A score : Written(AfterOvertime(score, m_Task))
    BY <1>1 DEF AfterOvertime
  <2>4. ASSUME NEW score PROVE Written(AfterSecondHalf(score, m_Task))
    <3> DEFINE played ==
          CASE OvertimeType = 0 ->
                Create(m_Task, "VOTE_OVERTIME", RestartDelay + 1, FALSE, 0)
            [] OvertimeType = 1 ->
                Create(m_Task, "SET_STATE", RestartDelay + 1, FALSE, STATE_HALFTIME)
            [] OvertimeType = 2 ->
                Create(m_Task, "SET_STATE", RestartDelay + 1, FALSE, STATE_END)
            [] OvertimeType = 3 -> m_Task
    <3>1. AfterSecondHalf(score, m_Task)
             \in {Create(m_Task, "SET_STATE", RestartDelay + 1, FALSE, STATE_END),
                  played, m_Task}
      BY DEF AfterSecondHalf
    <3>2. OvertimeType \in {0, 1, 2, 3}
      OBVIOUS
    <3>3. Written(played)
      <4>1. CASE OvertimeType = 0
        <5>1. played = Create(m_Task, "VOTE_OVERTIME", RestartDelay + 1, FALSE, 0)
          BY <4>1
        <5> QED BY <1>1, <5>1
      <4>2. CASE OvertimeType = 1
        <5>1. played = Create(m_Task, "SET_STATE", RestartDelay + 1, FALSE, STATE_HALFTIME)
          BY <4>2
        <5> QED BY <5>1
      <4>3. CASE OvertimeType = 2
        <5>1. played = Create(m_Task, "SET_STATE", RestartDelay + 1, FALSE, STATE_END)
          BY <4>3
        <5> QED BY <5>1
      <4>4. CASE OvertimeType = 3
        <5>1. played = m_Task
          BY <4>4
        <5> QED BY <5>1
      <4> QED BY <3>2, <4>1, <4>2, <4>3, <4>4
    <3> HIDE DEF played
    <3> QED BY <3>1, <3>3
  <2> DEFINE score == [m_Score EXCEPT ![winner][m_State] = @ + 1]
             scoreOT == IF m_State = STATE_OVERTIME
                        THEN [m_ScoreOT EXCEPT ![winner] = @ + 1] ELSE m_ScoreOT
  <2>5. m_Task' = CASE m_State = STATE_FIRST_HALF -> AfterFirstHalf(score, m_Task)
                    [] m_State = STATE_SECOND_HALF -> AfterSecondHalf(score, m_Task)
                    [] m_State = STATE_OVERTIME -> AfterOvertime(scoreOT, m_Task)
    BY <1>3 DEF CountRound
  <2> HIDE DEF score, scoreOT
  <2>6. m_Task' \in {AfterFirstHalf(score, m_Task), AfterSecondHalf(score, m_Task),
                     AfterOvertime(scoreOT, m_Task)}
    BY <2>1, <2>5 DEF Half, STATE_FIRST_HALF, STATE_SECOND_HALF, STATE_OVERTIME
  <2> HIDE DEF Written
  <2>7. Written(m_Task')
    BY <2>2, <2>3, <2>4, <2>6
  <2> QED BY <2>7 DEF Written
<1> QED BY <1>2, <1>3 DEF RoundEnd

\* Rounds: what a round that ends asks for is a state of the match.
LEMMA RoundsDrive ==
    ASSUME TypeOK, DriverInv,
           \/ RestartRound \/ RoundDraw \/ \E winner \in Team : RoundEnd(winner)
    PROVE  DriverInv'
<1>1. m_Task \in SlotTasks /\ "SET_STATE" \in Slot /\ "VOTE_SWAP_TEAM" \in Slot
      /\ "VOTE_OVERTIME" \in Slot /\ "MAP_CHANGE" \in Slot
  BY SlotTypes DEF Slot
<1>2. CASE RestartRound \/ RoundDraw
  BY <1>2, DriversKept DEF RestartRound, RestartRoundFrozen, RoundDraw, voteVars
<1>3. ASSUME NEW winner \in Team, RoundEnd(winner) PROVE DriverInv'
  <2>1. Playing(m_State) /\ UNCHANGED <<m_State, m_Wait, voteVars, server>>
    BY <1>3 DEF RoundEnd
  <2>2. CASE m_Task'["SET_STATE"] = m_Task["SET_STATE"]
             /\ m_Task'["MAP_CHANGE"] = m_Task["MAP_CHANGE"]
    BY <2>1, <2>2, DriversKept DEF voteVars
  <2>3. ASSUME NEW i \in {"VOTE_SWAP_TEAM", "VOTE_OVERTIME"}, NEW delay, NEW param,
               m_Task' = Create(m_Task, i, delay, FALSE, param)
        PROVE  DriverInv'
    <3>1. i \in Slot
      BY <1>1
    <3>2. m_Task'["SET_STATE"] = m_Task["SET_STATE"]
      BY <1>1, <2>3, <3>1, CreatedElse
    <3>3. m_Task'["MAP_CHANGE"] = m_Task["MAP_CHANGE"]
      BY <1>1, <2>3, <3>1, CreatedElse
    <3> QED BY <2>2, <3>2, <3>3
  <2>4. ASSUME NEW delay, NEW next \in {STATE_HALFTIME, STATE_END},
               m_Task' = Create(m_Task, "SET_STATE", delay, FALSE, next)
        PROVE  DriverInv'
    <3>1. next # STATE_DEAD
      BY StatesDiffer
    <3>2. Asked
      BY <1>1, <2>4, <3>1, AskedBy
    <3> QED BY <2>1, <3>2, AskedDrives DEF DriverInv, NeverDead
  <2> QED BY <1>3, <2>2, <2>3, <2>4, RoundEndWrites
<1> QED BY <1>2, <1>3

\* A task that is due is executed.
LEMMA TaskFiresDrives ==
    ASSUME ReadyType # 0, TypeOK, DriverInv, TaskFires PROVE DriverInv'
<1>1. /\ m_Task \in SlotTasks
      /\ \A i \in Slot : Rearm(m_Task, i) \in SlotTasks /\ m_Task[i].param \in State
  BY SlotTypes
<1>2. Slot = {"SET_STATE", "MAP_CHANGE", "VOTE_SWAP_TEAM", "LO3_RESTART",
              "VOTE_OVERTIME"}
  BY DEF Slot
<1>3. CASE SetStateFires
  <2> DEFINE s == m_Task["SET_STATE"].param
             t == Rearm(m_Task, "SET_STATE")
  <2>1. SetState(s, t) /\ UNCHANGED server /\ Pending
    BY <1>3 DEF SetStateFires, IsDue, Pending
  <2>2. s \in State /\ t \in SlotTasks /\ s # STATE_DEAD
    BY <1>1, <1>2, <2>1 DEF DriverInv, NeverDead
  <2>3. t["SET_STATE"].on => t["SET_STATE"].param = s
    BY <1>1, <1>2 DEF Rearm, Remove, NoTask, SlotTasks, Task
  <2> HIDE DEF s, t
  <2>4. NeverDead
    BY DEF DriverInv
  <2> QED BY <2>1, <2>2, <2>3, <2>4, SetStateDrives
<1>4. CASE MapChangeFires
  <2>1. server' # "active" /\ m_Wait' = m_Wait
    BY <1>4 DEF MapChangeFires
  <2>2. m_Task'["SET_STATE"] = m_Task["SET_STATE"]
    BY <1>1, <1>2, <1>4, RearmKeeps DEF MapChangeFires
  <2> QED BY <2>1, <2>2 DEF DriverInv, PhaseHasDriver, NeverDead, Pending
<1>5. ASSUME NEW i \in Slot, i \notin {"SET_STATE", "MAP_CHANGE"}
      PROVE  /\ Rearm(m_Task, i)["SET_STATE"] = m_Task["SET_STATE"]
             /\ Rearm(m_Task, i)["MAP_CHANGE"] = m_Task["MAP_CHANGE"]
  BY <1>1, <1>2, <1>5, RearmKeeps
<1>6. CASE LO3Fires
  <2> DEFINE t == Rearm(m_Task, "LO3_RESTART")
             restart == m_Task["LO3_RESTART"].param
  <2>1. /\ t \in SlotTasks /\ t["SET_STATE"] = m_Task["SET_STATE"]
        /\ t["MAP_CHANGE"] = m_Task["MAP_CHANGE"]
    BY <1>1, <1>2, <1>5
  <2>2. \/ m_Task' = t
        \/ m_Task' = Create(t, "LO3_RESTART", 3, FALSE, restart - 1)
    BY <1>6 DEF LO3Fires, LO3Init
  <2>3. /\ m_Task'["SET_STATE"] = m_Task["SET_STATE"]
        /\ m_Task'["MAP_CHANGE"] = m_Task["MAP_CHANGE"]
    <3> HIDE DEF t
    <3>1. CASE m_Task' = Create(t, "LO3_RESTART", 3, FALSE, restart - 1)
      <4>1. m_Task'["SET_STATE"] = t["SET_STATE"]
        BY <1>2, <2>1, <3>1, CreatedElse
      <4>2. m_Task'["MAP_CHANGE"] = t["MAP_CHANGE"]
        BY <1>2, <2>1, <3>1, CreatedElse
      <4> QED BY <2>1, <4>1, <4>2
    <3> QED BY <2>1, <2>2, <3>1
  <2> QED BY <1>6, <2>3, DriversKept DEF LO3Fires, voteVars
<1>7. ASSUME NEW i \in {"VOTE_SWAP_TEAM", "VOTE_OVERTIME"},
             NEW v \in {"SWAP", "OVERTIME"}, NEW param,
             NEW next \in {STATE_FIRST_HALF, STATE_END},
             \/ m_Task' = Rearm(m_Task, i)
             \/ m_Task' = Create(Rearm(m_Task, i), "SET_STATE", 2, FALSE, next),
             \/ m_Vote' = m_Vote
             \/ m_Vote' = Create(m_Vote, v, VoteDelay, FALSE, param),
             UNCHANGED <<m_State, m_Wait, m_Leader, server>>
      PROVE  DriverInv'
  <2>1. m_Vote'["MAP"] = m_Vote["MAP"] /\ m_Vote'["TEAM"] = m_Vote["TEAM"]
    BY <1>7, VoteCreated DEF Vote
  <2>2. CASE m_Task' = Rearm(m_Task, i)
    BY <1>2, <1>5, <1>7, <2>1, <2>2, DriversKept
  <2>3. CASE m_Task' = Create(Rearm(m_Task, i), "SET_STATE", 2, FALSE, next)
    <3>1. next # STATE_DEAD
      BY StatesDiffer
    <3>2. Rearm(m_Task, i) \in SlotTasks
      BY <1>1, <1>2
    <3>3. Asked
      BY <2>3, <3>1, <3>2, AskedBy
    <3> QED BY <1>7, <3>3, AskedDrives DEF DriverInv, NeverDead
  <2> QED BY <1>7, <2>2, <2>3
<1>8. CASE VoteSwapFires
  <2>1. /\ \/ m_Task' = Rearm(m_Task, "VOTE_SWAP_TEAM")
           \/ m_Task' = Create(Rearm(m_Task, "VOTE_SWAP_TEAM"), "SET_STATE", 2, FALSE,
                               STATE_FIRST_HALF)
        /\ \/ m_Vote' = m_Vote
           \/ m_Vote' = Create(m_Vote, "SWAP", VoteDelay, FALSE,
                               m_Task["VOTE_SWAP_TEAM"].param)
        /\ UNCHANGED <<m_State, m_Wait, m_Leader, server>>
    BY <1>8 DEF VoteSwapFires
  <2> QED BY <1>7, <2>1
<1>9. CASE VoteOvertimeFires
  <2>1. /\ \/ m_Task' = Rearm(m_Task, "VOTE_OVERTIME")
           \/ m_Task' = Create(Rearm(m_Task, "VOTE_OVERTIME"), "SET_STATE", 2, FALSE,
                               STATE_END)
        /\ \/ m_Vote' = m_Vote
           \/ m_Vote' = Create(m_Vote, "OVERTIME", VoteDelay, FALSE, 0)
        /\ UNCHANGED <<m_State, m_Wait, m_Leader, server>>
    BY <1>9 DEF VoteOvertimeFires
  <2> QED BY <1>7, <2>1
<1> QED BY <1>3, <1>4, <1>6, <1>8, <1>9 DEF TaskFires

\* A vote that stops asks for what follows it, or leaves the phase to its driver.
LEMMA VoteStopsDrive == ASSUME TypeOK, DriverInv, VoteStops PROVE DriverInv'
<1>1. m_Task \in SlotTasks /\ "SET_STATE" \in Slot /\ "MAP_CHANGE" \in Slot
      /\ Vote = {"MAP", "TEAM", "SWAP", "OVERTIME", "END"}
  BY SlotTypes DEF Slot, Vote
<1>2. ASSUME NEW delay, NEW next, next # STATE_DEAD, m_Wait' = m_Wait,
             m_Task' = Create(m_Task, "SET_STATE", delay, FALSE, next)
      PROVE  DriverInv'
  <2>1. Asked
    BY <1>1, <1>2, AskedBy
  <2> QED BY <1>2, <2>1, AskedDrives DEF DriverInv, NeverDead
<1>3. /\ STATE_DEATHMATCH # STATE_DEAD /\ STATE_VOTEMAP # STATE_DEAD
      /\ STATE_CAPTAIN # STATE_DEAD /\ STATE_KNIFE_ROUND # STATE_DEAD
      /\ STATE_FIRST_HALF # STATE_DEAD /\ STATE_OVERTIME # STATE_DEAD
      /\ STATE_END # STATE_DEAD
  BY StatesDiffer
<1>4. ASSUME NEW v \in {"OVERTIME", "END"}, NEW voted, Closes(v, voted),
             m_Task' = m_Task, UNCHANGED <<m_State, m_Wait, m_Leader, server>>
      PROVE  DriverInv'
  <2>1. m_Vote'["MAP"] = m_Vote["MAP"] /\ m_Vote'["TEAM"] = m_Vote["TEAM"]
    BY <1>1, <1>4, ClosesKeeps
  <2> QED BY <1>4, <2>1, DriversKept
<1>5. ASSUME NEW voted \in BOOLEAN, VoteMapStops(voted) PROVE DriverInv'
  <2>1. CASE m_Task' = Create(m_Task, "SET_STATE", 1, FALSE, STATE_VOTEMAP)
    BY <1>2, <1>3, <1>5, <2>1 DEF VoteMapStops
  <2>2. CASE m_Task' = Create(m_Task, "MAP_CHANGE", 5, FALSE, 0)
    <3>1. m_Task'["SET_STATE"] = m_Task["SET_STATE"]
      BY <1>1, <2>2, CreatedElse
    <3>2. m_Task'["MAP_CHANGE"].on
      BY <1>1, <2>2, CreatedOn
    <3>3. m_Vote'["TEAM"] = m_Vote["TEAM"]
      BY <1>1, <1>5, ClosesKeeps DEF VoteMapStops
    <3> QED BY <1>5, <3>1, <3>2, <3>3
               DEF VoteMapStops, DriverInv, PhaseHasDriver, NeverDead, Pending
  <2> QED BY <1>5, <2>1, <2>2 DEF VoteMapStops
<1>6. ASSUME NEW type \in 1..6, VoteTeamStops(type) PROVE DriverInv'
  <2> DEFINE next == CASE type = VOTE_TEAM_CAPTAIN -> STATE_CAPTAIN
                       [] type = VOTE_TEAM_KNIFE_ROUND -> STATE_KNIFE_ROUND
                       [] OTHER -> IF KnifeRound THEN STATE_KNIFE_ROUND
                                                 ELSE STATE_FIRST_HALF
  <2>1. m_Task' = Create(m_Task, "SET_STATE", 2, FALSE, next) /\ m_Wait' = m_Wait
    BY <1>6 DEF VoteTeamStops, ChangeTeam
  <2>2. next # STATE_DEAD
    BY <1>3
  <2> HIDE DEF next
  <2> QED BY <1>2, <2>1, <2>2
<1>7. ASSUME NEW choice \in 0..2, VoteSwapStops(choice) PROVE DriverInv'
  <2>1. /\ m_Task' = Create(m_Task, "SET_STATE", 2, FALSE, STATE_FIRST_HALF)
        /\ m_Wait' = m_Wait
    BY <1>7 DEF VoteSwapStops
  <2> QED BY <1>2, <1>3, <2>1
<1>8. ASSUME NEW choice \in 0..3, VoteOvertimeStops(choice) PROVE DriverInv'
  <2> DEFINE next == IF choice = 2 THEN STATE_OVERTIME ELSE STATE_END
  <2>1. \/ m_Task' = m_Task
        \/ m_Task' = Create(m_Task, "SET_STATE", 1, FALSE, next)
    BY <1>8 DEF VoteOvertimeStops
  <2>2. next # STATE_DEAD
    BY <1>3
  <2>3. Closes("OVERTIME", choice # 0) /\ UNCHANGED <<m_State, m_Wait, m_Leader, server>>
    BY <1>8 DEF VoteOvertimeStops
  <2> HIDE DEF next
  <2> QED BY <1>2, <1>4, <2>1, <2>2, <2>3
<1>9. ASSUME NEW choice \in 0..3, VoteEndStops(choice) PROVE DriverInv'
  <2>1. Closes("END", choice # 0) /\ UNCHANGED <<m_State, m_Wait, m_Leader, server>>
    BY <1>9 DEF VoteEndStops
  <2>2. CASE choice = 2
    <3>1. m_Task' = Create(m_Task, "SET_STATE", 1, FALSE, STATE_DEATHMATCH)
      BY <1>9, <2>2 DEF VoteEndStops
    <3> QED BY <1>2, <1>3, <2>1, <3>1
  <2>3. CASE choice = 3
    <3>1. m_Task' = Create(m_Task, "SET_STATE", 1, FALSE, STATE_FIRST_HALF)
      BY <1>9, <2>3 DEF VoteEndStops
    <3> QED BY <1>2, <1>3, <2>1, <3>1
  <2>4. CASE choice \notin {2, 3}
    <3>1. m_Task' = m_Task
      BY <1>9, <2>4 DEF VoteEndStops
    <3> QED BY <1>4, <2>1, <3>1
  <2> QED BY <2>2, <2>3, <2>4
<1> QED BY <1>5, <1>6, <1>7, <1>8, <1>9 DEF VoteStops

\* The captains' pick is over only with a request for what follows.
LEMMA LeaderStopAsks ==
    ASSUME TypeOK, NEW counted, NEW p, NEW n, LeaderStop(counted, p, n) PROVE Asked
<1> DEFINE next == IF \A team \in Team : counted[team] >= PlayersMin
                   THEN IF KnifeRound THEN STATE_KNIFE_ROUND ELSE STATE_FIRST_HALF
                   ELSE STATE_DEATHMATCH
<1>1. m_Task' = Create(m_Task, "SET_STATE", 2, FALSE, next)
  BY DEF LeaderStop
<1>2. next # STATE_DEAD
  BY StatesDiffer
<1> HIDE DEF next
<1> QED BY <1>1, <1>2, SlotTypes, AskedBy

\* Waiting, the captains' pick, players and admins.
LEMMA PeopleDrive ==
    ASSUME ReadyType # 0, STATE_DEAD \notin AdminStates, TypeOK, DriverInv,
           \/ WaitEnds \/ Picks \/ PlayersAct
           \/ \E next \in AdminStates : AdminSetState(next)
    PROVE  DriverInv'
<1>1. m_Task \in SlotTasks /\ "SET_STATE" \in Slot /\ "MAP_CHANGE" \in Slot
      /\ "MAP" \in Vote /\ "TEAM" \in Vote /\ "END" \in Vote
  BY SlotTypes DEF Slot, Vote
<1>2. Asked /\ m_Wait' = m_Wait => DriverInv'
  BY AskedDrives DEF DriverInv, NeverDead
<1>3. ASSUME NEW next, next # STATE_DEAD, m_Wait' = m_Wait,
             m_Task' = Create(m_Task, "SET_STATE", 1, FALSE, next)
      PROVE  DriverInv'
  <2>1. Asked
    BY <1>1, <1>3, AskedBy
  <2> QED BY <1>2, <1>3, <2>1
<1>4. ASSUME m_Task' = m_Task, m_Leader'.run = m_Leader.run,
             m_Vote'["MAP"] = m_Vote["MAP"], m_Vote'["TEAM"] = m_Vote["TEAM"],
             UNCHANGED <<m_State, m_Wait, server>>
      PROVE  DriverInv'
  BY <1>4, DriversKept
<1>5. ModDropClient => m_Vote'["MAP"] = m_Vote["MAP"] /\ m_Vote'["TEAM"] = m_Vote["TEAM"]
  <2> DEFINE rests == IF m_State = STATE_FIRST_HALF THEN 1 ELSE 0
  <2>1. ModDropClient => \/ m_Vote' = m_Vote
                         \/ m_Vote' = Create(m_Vote, "END", VoteDelay, FALSE, rests)
    BY DEF ModDropClient, VoteEndInit
  <2> HIDE DEF rests
  <2> QED BY <1>1, <2>1, VoteCreated
<1>6. CASE WaitEnds
  <2>1. m_Wait' = Idle /\ m_Task' = Create(m_Task, "SET_STATE", 2, FALSE, m_Wait.next)
    BY <1>6 DEF WaitEnds
  <2>2. m_Wait.next # STATE_DEAD /\ Idle.next # STATE_DEAD
    BY StatesDiffer DEF DriverInv, NeverDead, Idle
  <2>3. Asked
    BY <1>1, <2>1, <2>2, AskedBy
  <2> QED BY <2>1, <2>2, <2>3, AskedDrives
<1>7. CASE LeaderRunsOut
  BY <1>2, <1>7, LeaderStopAsks DEF LeaderRunsOut
<1>8. ASSUME NEW team \in Team, LeaderPicks(team) PROVE DriverInv'
  <2> DEFINE p == [players EXCEPT ![team] = @ + 1]
             n == m_Leader.pool - 1
  <2>1. \/ LeaderStop(p, p, n)
        \/ m_Leader' = [m_Leader EXCEPT !.pool = n] /\ m_Task' = m_Task
    BY <1>8 DEF LeaderPicks
  <2>2. UNCHANGED <<m_State, m_Wait, m_Vote, server>>
    BY <1>8 DEF LeaderPicks
  <2> HIDE DEF p, n
  <2>3. CASE LeaderStop(p, p, n)
    BY <1>2, <2>2, <2>3, LeaderStopAsks
  <2>4. CASE m_Leader' = [m_Leader EXCEPT !.pool = n] /\ m_Task' = m_Task
    BY <1>4, <2>2, <2>4 DEF TypeOK
  <2> QED BY <2>1, <2>3, <2>4
<1>9. ASSUME NEW team \in Team, PlayerJoins(team) PROVE DriverInv'
  <2>1. m_Leader'.run = m_Leader.run
    BY <1>9 DEF PlayerJoins, TypeOK
  <2> QED BY <1>4, <1>9, <2>1 DEF PlayerJoins
<1>10. ASSUME NEW team \in Team, PlayerLeavesTeam(team) PROVE DriverInv'
  BY <1>4, <1>10 DEF PlayerLeavesTeam, voteVars
<1>11. ASSUME NEW team \in Team, PlayerDrops(team) PROVE DriverInv'
  BY <1>4, <1>5, <1>11 DEF PlayerDrops
<1>12. ASSUME NEW team \in Team, CaptainDrops(team) PROVE DriverInv'
  <2>1. UNCHANGED <<m_State, m_Wait, server>> /\ ModDropClient
    BY <1>12 DEF CaptainDrops
  <2>2. CASE \E counted, p : LeaderStop(counted, p, 0)
    BY <1>2, <2>1, <2>2, LeaderStopAsks
  <2>3. CASE m_Task' = m_Task /\ m_Leader'.run = m_Leader.run
    BY <1>4, <1>5, <2>1, <2>3
  <2>4. m_Leader' = [m_Leader EXCEPT !.pool = @ - 1] => m_Leader'.run = m_Leader.run
    BY DEF TypeOK
  <2> QED BY <1>12, <2>2, <2>3, <2>4 DEF CaptainDrops
<1>13. ASSUME NEW team \in Team, Surrender(team) PROVE DriverInv'
  <2>1. /\ m_Task' = Create(m_Task, "SET_STATE", 1, FALSE, STATE_END)
        /\ m_Wait' = m_Wait
    BY <1>13 DEF Surrender
  <2>2. STATE_END # STATE_DEAD
    BY StatesDiffer
  <2> QED BY <1>3, <2>1, <2>2
<1>14. CASE PickableDrops
  <2>1. m_Leader'.run = m_Leader.run
    BY <1>14 DEF PickableDrops, TypeOK
  <2> QED BY <1>4, <1>14, <2>1 DEF PickableDrops
<1>15. CASE SpectatorDrops
  <2>1. SetState(STATE_END, m_Task) /\ UNCHANGED server
    BY <1>15 DEF SpectatorDrops
  <2>2. NeverDead /\ STATE_END # STATE_DEAD
    BY StatesDiffer DEF DriverInv
  <2>3. m_Task["SET_STATE"].on => m_Task["SET_STATE"].param # STATE_DEAD
    BY <2>2 DEF NeverDead, Pending
  <2> QED BY <1>1, <2>1, <2>2, <2>3, StateNames, SetStateDrives
<1>16. CASE PlayersVoteMap
  <2>1. /\ m_Task' = Create(m_Task, "MAP_CHANGE", 5, FALSE, 0)
        /\ UNCHANGED <<m_State, m_Wait, voteVars, server>>
    BY <1>16 DEF PlayersVoteMap
  <2>2. m_Task'["SET_STATE"] = m_Task["SET_STATE"]
    BY <1>1, <2>1, CreatedElse
  <2>3. m_Task'["MAP_CHANGE"].on
    BY <1>1, <2>1, CreatedOn
  <2> QED BY <2>1, <2>2, <2>3, DriversKept DEF voteVars
<1>17. ASSUME NEW next \in {STATE_FIRST_HALF, STATE_DEATHMATCH}, PlayersVote(next)
       PROVE  DriverInv'
  <2>1. next # STATE_DEAD
    BY StatesDiffer
  <2> QED BY <1>3, <1>17, <2>1 DEF PlayersVote
<1>18. ASSUME NEW next \in AdminStates, AdminSetState(next) PROVE DriverInv'
  <2>1. next # STATE_DEAD
    OBVIOUS
  <2> QED BY <1>3, <1>18, <2>1 DEF AdminSetState
<1> QED BY <1>6, <1>7, <1>8, <1>9, <1>10, <1>11, <1>12, <1>13, <1>14, <1>15, <1>16,
           <1>17, <1>18 DEF Picks, PlayersAct

\* A second passes, or the level changes.
LEMMA TimeAndServerDrive ==
    ASSUME TypeOK, DriverInv, Tick \/ ServerDeactivate \/ ServerActivate
    PROVE  DriverInv'
<1>1. /\ Cleared(Slot) \in SlotTasks /\ ~Cleared(Slot)["SET_STATE"].on
      /\ Idle.next # STATE_DEAD
  BY ClearedType, StateNames, StatesDiffer
     DEF SlotTasks, Cleared, NoTask, Slot, Idle
<1>2. CASE Tick
  <2>1. /\ m_Task' = Elapse(m_Task) /\ m_Vote' = Elapse(m_Vote)
        /\ UNCHANGED <<m_State, m_Wait, m_Leader, server>>
    BY <1>2 DEF Tick
  <2>2. \A i \in Slot : /\ Elapse(m_Task)[i].on = m_Task[i].on
                        /\ Elapse(m_Task)[i].param = m_Task[i].param
    BY SlotTypes DEF Elapse, SlotTasks, Task
  <2>3. \A v \in Vote : Elapse(m_Vote)[v].on = m_Vote[v].on
    BY SlotTypes DEF Elapse, VoteTasks, Task
  <2> QED BY <2>1, <2>2, <2>3, DriversKept DEF Slot, Vote
<1>3. CASE ServerDeactivate
  <2>1. server' # "active" /\ m_Wait' = Idle
    BY <1>3 DEF ServerDeactivate
  <2>2. CASE m_Task' = Cleared(Slot)
    BY <1>1, <2>1, <2>2 DEF DriverInv, PhaseHasDriver, NeverDead, Pending
  <2>3. CASE Live(m_State)
    <3> DEFINE next == IF PlayerCount >= PlayersMin THEN STATE_VOTEMAP
                                                    ELSE STATE_DEATHMATCH
    <3>1. m_Task' = Create(Cleared(Slot), "SET_STATE", RestartDelay + 1, FALSE, next)
      BY <1>3, <2>3 DEF ServerDeactivate
    <3>2. next # STATE_DEAD
      BY StatesDiffer
    <3> HIDE DEF next
    <3>3. Asked
      BY <1>1, <3>1, <3>2, AskedBy
    <3> QED BY <1>1, <2>1, <3>3, AskedDrives
  <2> QED BY <1>3, <2>2, <2>3 DEF ServerDeactivate
<1>4. CASE ServerActivate
  <2>1. /\ m_Task' = Create(Cleared(Slot), "SET_STATE", 5, FALSE, STATE_DEATHMATCH)
        /\ m_Wait' = Idle
    BY <1>4 DEF ServerActivate
  <2>2. STATE_DEATHMATCH # STATE_DEAD
    BY StatesDiffer
  <2>3. Asked
    BY <1>1, <2>1, <2>2, AskedBy
  <2> QED BY <1>1, <2>1, <2>3, AskedDrives
<1> QED BY <1>2, <1>3, <1>4

LEMMA NextDrives ==
    ASSUME ReadyType # 0, STATE_DEAD \notin AdminStates
    PROVE  TypeOK /\ DriverInv /\ [Next]_vars => DriverInv'
<1> SUFFICES ASSUME TypeOK, DriverInv, [Next]_vars PROVE DriverInv'
  OBVIOUS
<1>1. CASE UNCHANGED vars
  BY <1>1, DriversKept DEF vars, voteVars
<1> QED BY <1>1, RoundsDrive, TaskFiresDrives, VoteStopsDrive, PeopleDrive,
           TimeAndServerDrive DEF Next

LEMMA InitDrives == Init => DriverInv
BY StatesDiffer
   DEF Init, DriverInv, PhaseHasDriver, NeverDead, Pending, Create, Cleared, NoTask,
       Slot, Idle

\* Whatever callbacks, leavers, votes and admins do in between, no phase of a running
\* level is left without what moves it on: a task of CPugTask, its vote, the captains
\* or the waiting phase.  A waiting phase is needed (with pug_ready_type 0 nothing
\* ends the warm-up), and no admin may choose the state before the first one.
THEOREM PhaseAlwaysHasDriver ==
    ASSUME ReadyType # 0, STATE_DEAD \notin AdminStates
    PROVE  Spec => []PhaseHasDriver
<1>1. Spec => []DriverInv
  BY InitDrives, NextDrives, TypeCorrect, PTL DEF Spec
<1> QED BY <1>1, PTL DEF DriverInv
-----------------------------------------------------------------------------
(***************************************************************************)
(* The way out of what is complete.  A half that has all its rounds, and a *)
(* match or overtime that is decided, has its transition in the SET_STATE  *)
(* slot.  The round that completes it puts it there; other callbacks may   *)
(* overwrite it, but none may lead back into an overtime that is decided,  *)
(* whose scores EnterOvertime would keep.                                  *)
(***************************************************************************)
RoundsOf(half) == m_Score[TERRORIST][half] + m_Score[CT][half]
DecidedOT == \E team \in Team : m_ScoreOT[team] > HalfRoundsOT
OvertimeOrBefore == {STATE_HALFTIME, STATE_SECOND_HALF, STATE_OVERTIME}
BackToOvertime == m_Wait.next \in OvertimeOrBefore

\* The parts of CompleteHasExit, one per half.
FirstHasExit ==
    m_State = STATE_FIRST_HALF /\ RoundsOf(STATE_FIRST_HALF) >= HalfRounds
        /\ server = "active" => Pending
SecondHasExit ==
    /\ m_State = STATE_SECOND_HALF /\ RoundsOf(STATE_SECOND_HALF) > 0
    /\ \E team \in Team : RegularScore(m_Score, team) > HalfRounds
    /\ server = "active"
    => Pending
OvertimeHasExit ==
    m_State = STATE_OVERTIME /\ DecidedOT /\ server = "active" => Pending

\* Nothing leads from a decided overtime back into one.
NoWayBack ==
    /\ m_State = STATE_OVERTIME => ~BackToOvertime
    /\ DecidedOT => /\ ~BackToOvertime
                    /\ Pending => m_Task["SET_STATE"].param \notin OvertimeOrBefore
                    /\ m_State \notin {STATE_FIRST_HALF, STATE_HALFTIME, STATE_SECOND_HALF}

\* The inductive invariants: of the regular halves, and of the overtime.
RegularExits == FirstHasExit /\ SecondHasExit
OvertimeExits == OvertimeHasExit /\ NoWayBack

\* A round that counts adds one to one score, and goes by the scores after it.
LEMMA RoundCounted ==
    ASSUME TypeOK, NEW winner \in Team, m_State \in Half, CountRound(winner)
    PROVE  /\ \A team \in Team, half \in Half :
                 m_Score'[team][half] = m_Score[team][half]
                    + (IF team = winner /\ half = m_State THEN 1 ELSE 0)
           /\ \A team \in Team :
                 m_ScoreOT'[team] = m_ScoreOT[team]
                    + (IF team = winner /\ m_State = STATE_OVERTIME THEN 1 ELSE 0)
           /\ m_State = STATE_FIRST_HALF => m_Task' = AfterFirstHalf(m_Score', m_Task)
           /\ m_State = STATE_SECOND_HALF => m_Task' = AfterSecondHalf(m_Score', m_Task)
           /\ m_State = STATE_OVERTIME => m_Task' = AfterOvertime(m_ScoreOT', m_Task)
<1> DEFINE score == [m_Score EXCEPT ![winner][m_State] = @ + 1]
           scoreOT == IF m_State = STATE_OVERTIME
                      THEN [m_ScoreOT EXCEPT ![winner] = @ + 1] ELSE m_ScoreOT
<1>1. m_Score \in [Team -> [Half -> Nat]] /\ m_ScoreOT \in [Team -> Nat]
  BY DEF TypeOK
<1>2. /\ m_Score' = score /\ m_ScoreOT' = scoreOT
      /\ m_Task' = CASE m_State = STATE_FIRST_HALF -> AfterFirstHalf(score, m_Task)
                     [] m_State = STATE_SECOND_HALF -> AfterSecondHalf(score, m_Task)
                     [] m_State = STATE_OVERTIME -> AfterOvertime(scoreOT, m_Task)
  BY DEF CountRound
<1>3. \A team \in Team, half \in Half :
         score[team][half] = m_Score[team][half]
                    + (IF team = winner /\ half = m_State THEN 1 ELSE 0)
  BY <1>1
<1>4. \A team \in Team :
         scoreOT[team] = m_ScoreOT[team]
                    + (IF team = winner /\ m_State = STATE_OVERTIME THEN 1 ELSE 0)
  BY <1>1
<1> HIDE DEF score, scoreOT
<1>5. /\ m_State = STATE_FIRST_HALF => m_Task' = AfterFirstHalf(m_Score', m_Task)
      /\ m_State = STATE_SECOND_HALF => m_Task' = AfterSecondHalf(m_Score', m_Task)
      /\ m_State = STATE_OVERTIME => m_Task' = AfterOvertime(m_ScoreOT', m_Task)
  BY <1>2 DEF STATE_FIRST_HALF, STATE_SECOND_HALF, STATE_OVERTIME
<1> QED BY <1>2, <1>3, <1>4, <1>5

\* The scores, as numbers.
LEMMA ScoreNumbers ==
    ASSUME TypeOK
    PROVE  /\ \A team \in Team : /\ m_ScoreOT[team] \in Nat
                                 /\ \A half \in Half : m_Score[team][half] \in Nat
           /\ HalfRounds \in Nat /\ HalfRounds >= 1 /\ HalfRoundsOT \in Nat
           /\ Half = {STATE_FIRST_HALF, STATE_SECOND_HALF, STATE_OVERTIME}
           /\ Team = {TERRORIST, CT} /\ TERRORIST # CT
BY ConfigAssumption DEF TypeOK, HalfRounds, HalfRoundsOT, Half, Team, TERRORIST, CT

\* Scores that are cleared complete nothing.
LEMMA ClearedOpens ==
    ASSUME ClearScores
    PROVE  RegularExits' /\ ~DecidedOT'
<1>1. HalfRounds >= 1 /\ HalfRoundsOT \in Nat /\ HalfRounds \in Nat
  BY ConfigAssumption DEF HalfRounds, HalfRoundsOT
<1>2. \A team \in Team : /\ m_ScoreOT'[team] = 0
                         /\ \A half \in Half : m_Score'[team][half] = 0
  BY DEF ClearScores, ZeroScore, ZeroOT, NoRounds
<1>3. \A half \in Half : RoundsOf(half)' = 0
  BY <1>2 DEF RoundsOf, Team
<1> QED BY <1>1, <1>2, <1>3
        DEF RegularExits, FirstHasExit, SecondHasExit, DecidedOT, Half

\* A second half that has no rounds is not complete, and neither is an overtime
\* that is not decided.
LEMMA SetStateExits ==
    ASSUME TypeOK, NEW s \in State, NEW t \in SlotTasks, SetState(s, t), UNCHANGED server
    PROVE  RegularExits'
<1>1. m_State' = s
  BY DEF SetState
<1>2. CASE ClearScores
  BY <1>2, ClearedOpens
<1>3. CASE s \notin {STATE_FIRST_HALF, STATE_SECOND_HALF}
  BY <1>1, <1>3 DEF RegularExits, FirstHasExit, SecondHasExit
<1>4. CASE s = STATE_SECOND_HALF /\ EnterSecondHalf(t)
  <2>1. \A team \in Team : m_Score'[team][STATE_SECOND_HALF] = 0
    BY <1>4 DEF EnterSecondHalf, ZeroHalf, TypeOK, Half
  <2>2. RoundsOf(STATE_SECOND_HALF)' = 0
    BY <2>1 DEF RoundsOf, Team
  <2>3. s # STATE_FIRST_HALF
    BY <1>4, StatesDiffer
  <2> QED BY <1>1, <2>2, <2>3 DEF RegularExits, FirstHasExit, SecondHasExit
<1>5. EnterFirstHalf(t) => ClearScores
  BY DEF EnterFirstHalf, EnterKnifeRound
<1> QED BY <1>2, <1>3, <1>4, <1>5, StatesDiffer DEF SetState

\* Callbacks that leave the scores of the halves alone.
LEMMA RegularKept ==
    ASSUME RegularExits, m_State' = m_State, m_Score' = m_Score,
           server' = "active" => server = "active", Pending => Pending'
    PROVE  RegularExits'
BY DEF RegularExits, FirstHasExit, SecondHasExit, RoundsOf, RegularScore

\* The round that completes a half asks for the transition.
LEMMA RoundEndExits ==
    ASSUME TypeOK, RegularExits, NEW winner \in Team, RoundEnd(winner)
    PROVE  RegularExits'
<1>1. m_Task \in SlotTasks /\ "SET_STATE" \in Slot
  BY SlotTypes DEF Slot
<1>2. UNCHANGED <<m_State, server>>
  BY DEF RoundEnd
<1>3. Pending => Pending'
  <2>1. ASSUME NEW i \in {"VOTE_SWAP_TEAM", "VOTE_OVERTIME"}, NEW delay, NEW param,
               m_Task' = Create(m_Task, i, delay, FALSE, param)
        PROVE  m_Task'["SET_STATE"] = m_Task["SET_STATE"]
    <3>1. i \in Slot
      BY DEF Slot
    <3> QED BY <1>1, <2>1, <3>1, CreatedElse
  <2>2. ASSUME NEW delay, NEW param, m_Task' = Create(m_Task, "SET_STATE", delay, FALSE, param)
        PROVE  m_Task'["SET_STATE"].on
    BY <1>1, <2>2, CreatedOn
  <2> QED BY <2>1, <2>2, RoundEndWrites DEF Pending
<1>4. CASE m_Score' = m_Score
  BY <1>2, <1>3, <1>4, RegularKept
<1>5. CASE m_State # STATE_KNIFE_ROUND /\ CountRound(winner)
  <2>1. m_State \in Half
    BY <1>5 DEF RoundEnd, Playing
  <2>2. CASE m_State = STATE_FIRST_HALF
    <3>1. m_Task' = AfterFirstHalf(m_Score', m_Task)
      BY <1>5, <2>1, <2>2, RoundCounted
    <3>2. RoundsOf(STATE_FIRST_HALF)' = RoundsOf(STATE_FIRST_HALF) + 1
      BY <1>5, <2>1, <2>2, RoundCounted, ScoreNumbers DEF RoundsOf
    <3>3. CASE RoundsOf(STATE_FIRST_HALF)' = HalfRounds
      <4>1. m_Task' = Create(m_Task, "SET_STATE", RestartDelay + 1, FALSE, STATE_HALFTIME)
        BY <3>1, <3>3 DEF AfterFirstHalf, RoundsOf
      <4>2. Pending'
        BY <1>1, <4>1, CreatedOn DEF Pending
      <4> QED BY <4>2 DEF RegularExits, FirstHasExit, SecondHasExit
    <3>4. CASE RoundsOf(STATE_FIRST_HALF)' # HalfRounds
      <4>1. RoundsOf(STATE_FIRST_HALF) \in Nat
        BY ScoreNumbers DEF RoundsOf
      <4>2. RoundsOf(STATE_FIRST_HALF)' >= HalfRounds => RoundsOf(STATE_FIRST_HALF) >= HalfRounds
        BY <3>2, <3>4, <4>1, ScoreNumbers
      <4>3. m_State' # STATE_SECOND_HALF
        BY <1>2, <2>2, StatesDiffer
      <4> QED BY <1>2, <1>3, <4>2, <4>3 DEF RegularExits, FirstHasExit, SecondHasExit
    <3> QED BY <3>3, <3>4
  <2>3. CASE m_State = STATE_SECOND_HALF
    <3>1. m_Task' = AfterSecondHalf(m_Score', m_Task)
      BY <1>5, <2>1, <2>3, RoundCounted
    <3>2. CASE \E team \in Team : RegularScore(m_Score', team) > HalfRounds
      <4>1. m_Task' = Create(m_Task, "SET_STATE", RestartDelay + 1, FALSE, STATE_END)
        BY <3>1, <3>2 DEF AfterSecondHalf
      <4>2. Pending'
        BY <1>1, <4>1, CreatedOn DEF Pending
      <4> QED BY <4>2 DEF RegularExits, FirstHasExit, SecondHasExit
    <3>3. m_State' # STATE_FIRST_HALF
      BY <1>2, <2>3, StatesDiffer
    <3> QED BY <3>2, <3>3 DEF RegularExits, FirstHasExit, SecondHasExit, RegularScore
  <2>4. CASE m_State = STATE_OVERTIME
    BY <1>2, <2>4, StatesDiffer DEF RegularExits, FirstHasExit, SecondHasExit
  <2> QED BY <2>1, <2>2, <2>3, <2>4 DEF Half
<1>6. m_Score' = m_Score \/ (m_State # STATE_KNIFE_ROUND /\ CountRound(winner))
  BY DEF RoundEnd, CountKnife, scoreVars
<1> QED BY <1>4, <1>5, <1>6

\* What the callbacks other than the ends of rounds, state changes, a surrender and
\* level changes have in common: the scores stay, a request stays or is overwritten,
\* and where ties are not put to a vote none of them asks for a half but the waiting
\* phase of a halftime.
Passes ==
    /\ UNCHANGED <<m_State, m_ScoreOT>>
    /\ server' = "active" => server = "active"
    /\ m_Wait'.next \in {m_Wait.next, STATE_VOTEMAP}
    /\ Pending => Pending'
    /\ \/ UNCHANGED <<m_Task["SET_STATE"].on, m_Task["SET_STATE"].param>>
       \/ m_Task'["SET_STATE"].param \notin OvertimeOrBefore
       \/ m_Task'["SET_STATE"].param = m_Wait.next
       \/ OvertimeType = 0

\* The callbacks in question.
Callback ==
    \/ Tick \/ RestartRound \/ RoundDraw
    \/ MapChangeFires \/ LO3Fires \/ VoteSwapFires \/ VoteOvertimeFires
    \/ VoteStops \/ WaitEnds \/ Picks
    \/ PlayersAct /\ ~SpectatorDrops /\ ~\E team \in Team : Surrender(team)
    \/ \E next \in AdminStates : AdminSetState(next)

\* A callback that writes another slot, or none.
LEMMA PassesBy ==
    ASSUME UNCHANGED <<m_State, m_ScoreOT>>, server' = "active" => server = "active",
           m_Wait'.next \in {m_Wait.next, STATE_VOTEMAP},
           m_Task'["SET_STATE"].on = m_Task["SET_STATE"].on,
           m_Task'["SET_STATE"].param = m_Task["SET_STATE"].param
    PROVE  Passes
BY DEF Passes, Pending

\* A callback that asks for another state.
LEMMA PassesAsking ==
    ASSUME UNCHANGED <<m_State, m_ScoreOT>>, server' = "active" => server = "active",
           m_Wait'.next \in {m_Wait.next, STATE_VOTEMAP},
           NEW t \in SlotTasks, NEW delay, NEW param,
           param \notin OvertimeOrBefore \/ param = m_Wait.next \/ OvertimeType = 0,
           m_Task' = Create(t, "SET_STATE", delay, FALSE, param)
    PROVE  Passes
<1>1. "SET_STATE" \in Slot
  BY DEF Slot
<1>2. m_Task'["SET_STATE"].on
  BY <1>1, CreatedOn
<1>3. Pending'
  BY <1>2 DEF Pending
<1>4. m_Task'["SET_STATE"].param = param
  BY <1>1, CreatedWith
<1> QED BY <1>3, <1>4 DEF Passes

\* The states no callback but a round's end, the overtime vote or the waiting phase
\* asks for.
LEMMA NotOvertime ==
    /\ STATE_DEATHMATCH \notin OvertimeOrBefore /\ STATE_VOTEMAP \notin OvertimeOrBefore
    /\ STATE_VOTETEAM \notin OvertimeOrBefore /\ STATE_CAPTAIN \notin OvertimeOrBefore
    /\ STATE_KNIFE_ROUND \notin OvertimeOrBefore
    /\ STATE_FIRST_HALF \notin OvertimeOrBefore /\ STATE_END \notin OvertimeOrBefore
    /\ \A next \in AdminStates : next \notin OvertimeOrBefore
<1>1. AdminStates \subseteq {0, 1, 2, 3, 4, 5, 6, 10}
  BY ConfigAssumption, StatesDiffer
<1>2. OvertimeOrBefore = {7, 8, 9}
  BY StatesDiffer DEF OvertimeOrBefore
<1> QED BY <1>1, <1>2, StatesDiffer

LEMMA LeaderStopPasses ==
    ASSUME TypeOK, NEW counted, NEW p, NEW n, LeaderStop(counted, p, n),
           UNCHANGED <<m_State, m_ScoreOT, m_Wait, server>>
    PROVE  Passes
<1> DEFINE next == IF \A team \in Team : counted[team] >= PlayersMin
                   THEN IF KnifeRound THEN STATE_KNIFE_ROUND ELSE STATE_FIRST_HALF
                   ELSE STATE_DEATHMATCH
<1>1. m_Task' = Create(m_Task, "SET_STATE", 2, FALSE, next)
  BY DEF LeaderStop
<1>2. next \notin OvertimeOrBefore
  BY NotOvertime
<1> HIDE DEF next
<1> QED BY <1>1, <1>2, SlotTypes, PassesAsking

\* Tasks, rounds that end undecided or restart, and the clock.
LEMMA TasksPass ==
    ASSUME TypeOK,
           \/ Tick \/ RestartRound \/ RoundDraw
           \/ MapChangeFires \/ LO3Fires \/ VoteSwapFires \/ VoteOvertimeFires
    PROVE  Passes
<1>1. /\ m_Task \in SlotTasks
      /\ \A i \in Slot : Rearm(m_Task, i) \in SlotTasks
  BY SlotTypes
<1>2. Slot = {"SET_STATE", "MAP_CHANGE", "VOTE_SWAP_TEAM", "LO3_RESTART",
              "VOTE_OVERTIME"}
  BY DEF Slot
<1>3. \A i \in Slot : i # "SET_STATE" =>
         Rearm(m_Task, i)["SET_STATE"] = m_Task["SET_STATE"]
  BY <1>1, <1>2, RearmKeeps
<1>4. ASSUME m_Task'["SET_STATE"].on = m_Task["SET_STATE"].on,
             m_Task'["SET_STATE"].param = m_Task["SET_STATE"].param,
             UNCHANGED <<m_State, m_ScoreOT, m_Wait>>,
             server' = "active" => server = "active"
      PROVE  Passes
  BY <1>4, PassesBy
<1>5. CASE Tick
  <2>1. /\ m_Task' = Elapse(m_Task)
        /\ UNCHANGED <<m_State, m_ScoreOT, m_Wait, server>>
    BY <1>5 DEF Tick, scoreVars
  <2>2. /\ Elapse(m_Task)["SET_STATE"].on = m_Task["SET_STATE"].on
        /\ Elapse(m_Task)["SET_STATE"].param = m_Task["SET_STATE"].param
    BY <1>1, <1>2 DEF Elapse, SlotTasks, Task
  <2> QED BY <1>4, <2>1, <2>2
<1>6. CASE RestartRound \/ RoundDraw
  BY <1>4, <1>6 DEF RestartRound, RestartRoundFrozen, RoundDraw, ZeroHalf, scoreVars
<1>7. CASE MapChangeFires
  BY <1>2, <1>3, <1>4, <1>7 DEF MapChangeFires, scoreVars
<1>8. CASE LO3Fires
  <2> DEFINE t == Rearm(m_Task, "LO3_RESTART")
             restart == m_Task["LO3_RESTART"].param
  <2>1. t \in SlotTasks /\ t["SET_STATE"] = m_Task["SET_STATE"]
    BY <1>1, <1>2, <1>3
  <2>2. \/ m_Task' = t
        \/ m_Task' = Create(t, "LO3_RESTART", 3, FALSE, restart - 1)
    BY <1>8 DEF LO3Fires, LO3Init
  <2>3. m_Task'["SET_STATE"] = m_Task["SET_STATE"]
    <3> HIDE DEF t
    <3>1. CASE m_Task' = Create(t, "LO3_RESTART", 3, FALSE, restart - 1)
      <4>1. m_Task'["SET_STATE"] = t["SET_STATE"]
        BY <1>2, <2>1, <3>1, CreatedElse
      <4> QED BY <2>1, <4>1
    <3> QED BY <2>1, <2>2, <3>1
  <2> QED BY <1>4, <1>8, <2>3 DEF LO3Fires, scoreVars
<1>9. CASE VoteSwapFires
  <2> DEFINE t == Rearm(m_Task, "VOTE_SWAP_TEAM")
  <2>1. /\ m_Task' = t \/ m_Task' = Create(t, "SET_STATE", 2, FALSE, STATE_FIRST_HALF)
        /\ UNCHANGED <<m_State, m_ScoreOT, m_Wait, server>>
    BY <1>9 DEF VoteSwapFires, scoreVars
  <2>2. t \in SlotTasks /\ t["SET_STATE"] = m_Task["SET_STATE"]
    BY <1>1, <1>2, <1>3
  <2> HIDE DEF t
  <2>3. CASE m_Task' = t
    BY <1>4, <2>1, <2>2, <2>3
  <2>4. CASE m_Task' = Create(t, "SET_STATE", 2, FALSE, STATE_FIRST_HALF)
    BY <2>1, <2>2, <2>4, NotOvertime, PassesAsking
  <2> QED BY <2>1, <2>3, <2>4
<1>10. CASE VoteOvertimeFires
  <2> DEFINE t == Rearm(m_Task, "VOTE_OVERTIME")
  <2>1. /\ m_Task' = t \/ m_Task' = Create(t, "SET_STATE", 2, FALSE, STATE_END)
        /\ UNCHANGED <<m_State, m_ScoreOT, m_Wait, server>>
    BY <1>10 DEF VoteOvertimeFires, scoreVars
  <2>2. t \in SlotTasks /\ t["SET_STATE"] = m_Task["SET_STATE"]
    BY <1>1, <1>2, <1>3
  <2> HIDE DEF t
  <2>3. CASE m_Task' = t
    BY <1>4, <2>1, <2>2, <2>3
  <2>4. CASE m_Task' = Create(t, "SET_STATE", 2, FALSE, STATE_END)
    BY <2>1, <2>2, <2>4, NotOvertime, PassesAsking
  <2> QED BY <2>1, <2>3, <2>4
<1> QED BY <1>5, <1>6, <1>7, <1>8, <1>9, <1>10

\* Votes that stop.
LEMMA VotesPass == ASSUME TypeOK, CountInv, VoteStops PROVE Passes
<1>1. m_Task \in SlotTasks /\ "SET_STATE" \in Slot /\ "MAP_CHANGE" \in Slot
  BY SlotTypes DEF Slot
<1>2. ASSUME m_Task' = m_Task, UNCHANGED <<m_State, m_ScoreOT, m_Wait, server>>
      PROVE  Passes
  BY <1>2, PassesBy
<1>3. ASSUME NEW delay, NEW next, next \notin OvertimeOrBefore \/ OvertimeType = 0,
             m_Task' = Create(m_Task, "SET_STATE", delay, FALSE, next),
             UNCHANGED <<m_State, m_ScoreOT, m_Wait, server>>
      PROVE  Passes
  BY <1>1, <1>3, PassesAsking
<1>4. ASSUME NEW voted \in BOOLEAN, VoteMapStops(voted) PROVE Passes
  <2>1. UNCHANGED <<m_State, m_ScoreOT, m_Wait, server>>
    BY <1>4 DEF VoteMapStops, scoreVars
  <2>2. CASE m_Task' = Create(m_Task, "SET_STATE", 1, FALSE, STATE_VOTEMAP)
    BY <1>3, <2>1, <2>2, NotOvertime
  <2>3. CASE m_Task' = Create(m_Task, "MAP_CHANGE", 5, FALSE, 0)
    <3>1. m_Task'["SET_STATE"] = m_Task["SET_STATE"]
      BY <1>1, <2>3, CreatedElse
    <3> QED BY <2>1, <3>1, PassesBy
  <2> QED BY <1>4, <2>2, <2>3 DEF VoteMapStops
<1>5. ASSUME NEW type \in 1..6, VoteTeamStops(type) PROVE Passes
  <2> DEFINE next == CASE type = VOTE_TEAM_CAPTAIN -> STATE_CAPTAIN
                       [] type = VOTE_TEAM_KNIFE_ROUND -> STATE_KNIFE_ROUND
                       [] OTHER -> IF KnifeRound THEN STATE_KNIFE_ROUND
                                                 ELSE STATE_FIRST_HALF
  <2>1. /\ m_Task' = Create(m_Task, "SET_STATE", 2, FALSE, next)
        /\ UNCHANGED <<m_State, m_ScoreOT, m_Wait, server>>
    BY <1>5 DEF VoteTeamStops, ChangeTeam, scoreVars
  <2>2. next \notin OvertimeOrBefore
    BY NotOvertime
  <2> HIDE DEF next
  <2> QED BY <1>3, <2>1, <2>2
<1>6. ASSUME NEW choice \in 0..2, VoteSwapStops(choice) PROVE Passes
  <2>1. /\ m_Task' = Create(m_Task, "SET_STATE", 2, FALSE, STATE_FIRST_HALF)
        /\ UNCHANGED <<m_State, m_ScoreOT, m_Wait, server>>
    BY <1>6 DEF VoteSwapStops, scoreVars
  <2> QED BY <1>3, <2>1, NotOvertime
<1>7. ASSUME NEW choice \in 0..3, VoteOvertimeStops(choice) PROVE Passes
  <2> DEFINE next == IF choice = 2 THEN STATE_OVERTIME ELSE STATE_END
  <2>1. m_Vote["OVERTIME"].on
    BY <1>7 DEF VoteOvertimeStops, Closes
  <2>2. OvertimeType = 0
    BY <2>1 DEF CountInv, Quiet
  <2>3. /\ m_Task' = m_Task \/ m_Task' = Create(m_Task, "SET_STATE", 1, FALSE, next)
        /\ UNCHANGED <<m_State, m_ScoreOT, m_Wait, server>>
    BY <1>7 DEF VoteOvertimeStops, scoreVars
  <2> HIDE DEF next
  <2> QED BY <1>2, <1>3, <2>2, <2>3
<1>8. ASSUME NEW choice \in 0..3, VoteEndStops(choice) PROVE Passes
  <2>1. UNCHANGED <<m_State, m_ScoreOT, m_Wait, server>>
    BY <1>8 DEF VoteEndStops, scoreVars
  <2>2. CASE choice = 2
    <3>1. m_Task' = Create(m_Task, "SET_STATE", 1, FALSE, STATE_DEATHMATCH)
      BY <1>8, <2>2 DEF VoteEndStops
    <3> QED BY <1>3, <2>1, <3>1, NotOvertime
  <2>3. CASE choice = 3
    <3>1. m_Task' = Create(m_Task, "SET_STATE", 1, FALSE, STATE_FIRST_HALF)
      BY <1>8, <2>3 DEF VoteEndStops
    <3> QED BY <1>3, <2>1, <3>1, NotOvertime
  <2>4. CASE choice \notin {2, 3}
    <3>1. m_Task' = m_Task
      BY <1>8, <2>4 DEF VoteEndStops
    <3> QED BY <1>2, <2>1, <3>1
  <2> QED BY <2>2, <2>3, <2>4
<1> QED BY <1>4, <1>5, <1>6, <1>7, <1>8 DEF VoteStops

\* Waiting, captains, players and admins.
LEMMA PeoplePass ==
    ASSUME TypeOK,
           \/ WaitEnds \/ Picks
           \/ PlayersAct /\ ~SpectatorDrops /\ ~\E team \in Team : Surrender(team)
           \/ \E next \in AdminStates : AdminSetState(next)
    PROVE  Passes
<1>1. m_Task \in SlotTasks /\ "SET_STATE" \in Slot /\ "MAP_CHANGE" \in Slot
  BY SlotTypes DEF Slot
<1>2. ASSUME m_Task' = m_Task, UNCHANGED <<m_State, m_ScoreOT, m_Wait, server>>
      PROVE  Passes
  BY <1>2, PassesBy
<1>3. ASSUME NEW next, next \notin OvertimeOrBefore,
             m_Task' = Create(m_Task, "SET_STATE", 1, FALSE, next),
             UNCHANGED <<m_State, m_ScoreOT, m_Wait, server>>
      PROVE  Passes
  BY <1>1, <1>3, PassesAsking
<1>4. CASE WaitEnds
  <2>1. /\ m_Wait' = Idle /\ m_Task' = Create(m_Task, "SET_STATE", 2, FALSE, m_Wait.next)
        /\ UNCHANGED <<m_State, m_ScoreOT, server>>
    BY <1>4 DEF WaitEnds, scoreVars
  <2>2. m_Wait'.next = STATE_VOTEMAP
    BY <2>1 DEF Idle
  <2> QED BY <1>1, <2>1, <2>2, PassesAsking
<1>5. CASE LeaderRunsOut
  BY <1>5, LeaderStopPasses DEF LeaderRunsOut, scoreVars
<1>6. ASSUME NEW team \in Team, LeaderPicks(team) PROVE Passes
  BY <1>2, <1>6, LeaderStopPasses DEF LeaderPicks, scoreVars
<1>7. ASSUME NEW team \in Team,
             \/ PlayerJoins(team) \/ PlayerLeavesTeam(team) \/ PlayerDrops(team)
      PROVE  Passes
  BY <1>2, <1>7 DEF PlayerJoins, PlayerLeavesTeam, PlayerDrops, scoreVars
<1>8. ASSUME NEW team \in Team, CaptainDrops(team) PROVE Passes
  BY <1>2, <1>8, LeaderStopPasses DEF CaptainDrops, scoreVars
<1>9. CASE PickableDrops
  BY <1>2, <1>9 DEF PickableDrops, scoreVars
<1>10. CASE PlayersVoteMap
  <2>1. /\ m_Task' = Create(m_Task, "MAP_CHANGE", 5, FALSE, 0)
        /\ UNCHANGED <<m_State, m_ScoreOT, m_Wait, server>>
    BY <1>10 DEF PlayersVoteMap, scoreVars
  <2>2. m_Task'["SET_STATE"] = m_Task["SET_STATE"]
    BY <1>1, <2>1, CreatedElse
  <2> QED BY <2>1, <2>2, PassesBy
<1>11. ASSUME NEW next \in {STATE_FIRST_HALF, STATE_DEATHMATCH}, PlayersVote(next)
       PROVE  Passes
  BY <1>3, <1>11, NotOvertime DEF PlayersVote, scoreVars
<1>12. ASSUME NEW next \in AdminStates, AdminSetState(next) PROVE Passes
  BY <1>3, <1>12, NotOvertime DEF AdminSetState, scoreVars
<1> QED BY <1>4, <1>5, <1>6, <1>7, <1>8, <1>9, <1>10, <1>11, <1>12
        DEF Picks, PlayersAct

LEMMA CallbackPasses == ASSUME TypeOK, CountInv, Callback PROVE Passes
BY TasksPass, VotesPass, PeoplePass DEF Callback

\* The scores stay, but RestartRound may clear those of a half that is reset.
LEMMA CallbackScores ==
    ASSUME Callback, ~RestartRound PROVE m_Score' = m_Score
BY DEF Callback, Tick, RoundDraw, MapChangeFires, LO3Fires, VoteSwapFires,
   VoteOvertimeFires, VoteStops, VoteMapStops, VoteTeamStops, VoteSwapStops,
   VoteOvertimeStops, VoteEndStops, WaitEnds, Picks, LeaderRunsOut, LeaderPicks,
   PlayersAct, PlayerJoins, PlayerLeavesTeam, PlayerDrops, CaptainDrops, PickableDrops,
   PlayersVoteMap, PlayersVote, AdminSetState, scoreVars

\* The steps of the match, told apart that way.
LEMMA StepIs ==
    ASSUME Next
    PROVE  \/ Callback \/ SetStateFires \/ SpectatorDrops
           \/ \E winner \in Team : RoundEnd(winner)
           \/ \E team \in Team : Surrender(team)
           \/ ServerDeactivate \/ ServerActivate
BY DEF Next, Callback, TaskFires

\* A surrender gives every round of the halves away, and asks for the end.
LEMMA SurrenderExits ==
    ASSUME TypeOK, NEW team \in Team, Surrender(team)
    PROVE  RegularExits' /\ Pending' /\ ~DecidedOT' /\ m_State' # STATE_OVERTIME
<1>1. /\ m_Task' = Create(m_Task, "SET_STATE", 1, FALSE, STATE_END)
      /\ m_ScoreOT' = ZeroOT /\ m_State' = m_State
      /\ m_State \in {STATE_FIRST_HALF, STATE_SECOND_HALF}
  BY DEF Surrender
<1>2. m_Task \in SlotTasks /\ "SET_STATE" \in Slot
  BY SlotTypes DEF Slot
<1>3. Pending'
  BY <1>1, <1>2, CreatedOn DEF Pending
<1>4. ~DecidedOT'
  BY <1>1, ScoreNumbers DEF DecidedOT, ZeroOT
<1> QED BY <1>1, <1>3, <1>4, StatesDiffer DEF RegularExits, FirstHasExit, SecondHasExit

LEMMA NextExits == TypeOK /\ CountInv /\ RegularExits /\ [Next]_vars => RegularExits'
<1> SUFFICES ASSUME TypeOK, CountInv, RegularExits, [Next]_vars PROVE RegularExits'
  OBVIOUS
<1>1. m_Task \in SlotTasks /\ "SET_STATE" \in Slot
      /\ Rearm(m_Task, "SET_STATE") \in SlotTasks /\ m_Task["SET_STATE"].param \in State
  BY SlotTypes DEF Slot
<1>2. CASE Callback
  <2>1. Passes
    BY <1>2, CallbackPasses
  <2>2. CASE m_Score' = m_Score
    BY <2>1, <2>2, RegularKept DEF Passes
  <2>3. CASE RestartRound /\ m_Score' # m_Score
    <3>1. /\ m_bCompleteReset /\ m_State \in {STATE_FIRST_HALF, STATE_SECOND_HALF}
          /\ ZeroHalf(m_State) /\ m_State' = m_State
      BY <2>3 DEF RestartRound, RestartRoundFrozen, scoreVars
    <3>2. \A team \in Team : m_Score'[team][m_State] = 0
      BY <3>1 DEF ZeroHalf, TypeOK, Half
    <3>3. RoundsOf(STATE_FIRST_HALF)' = 0 \/ m_State # STATE_FIRST_HALF
      BY <3>2 DEF RoundsOf, Team
    <3>4. RoundsOf(STATE_SECOND_HALF)' = 0 \/ m_State # STATE_SECOND_HALF
      BY <3>2 DEF RoundsOf, Team
    <3> QED BY <3>1, <3>3, <3>4, ScoreNumbers
            DEF RegularExits, FirstHasExit, SecondHasExit
  <2> QED BY <1>2, <2>2, <2>3, CallbackScores
<1>3. CASE SetStateFires
  BY <1>1, <1>3, SetStateExits DEF SetStateFires
<1>4. CASE SpectatorDrops
  BY <1>1, <1>4, StateNames, SetStateExits DEF SpectatorDrops
<1>5. ASSUME NEW winner \in Team, RoundEnd(winner) PROVE RegularExits'
  BY <1>5, RoundEndExits
<1>6. ASSUME NEW team \in Team, Surrender(team) PROVE RegularExits'
  BY <1>6, SurrenderExits
<1>7. CASE ServerDeactivate
  BY <1>7 DEF ServerDeactivate, RegularExits, FirstHasExit, SecondHasExit
<1>8. CASE ServerActivate
  BY <1>8, ClearedOpens DEF ServerActivate
<1>9. CASE UNCHANGED vars
  BY <1>9, RegularKept DEF vars, scoreVars, Pending
<1> QED BY <1>2, <1>3, <1>4, <1>5, <1>6, <1>7, <1>8, <1>9, StepIs

LEMMA InitExits == Init => RegularExits /\ OvertimeExits
<1> SUFFICES ASSUME Init PROVE RegularExits /\ OvertimeExits
  OBVIOUS
<1>1. m_State = STATE_DEAD /\ m_Wait = Idle /\ m_ScoreOT = ZeroOT
  BY DEF Init
<1>2. HalfRoundsOT \in Nat
  BY ConfigAssumption DEF HalfRoundsOT
<1>3. ~DecidedOT
  BY <1>1, <1>2 DEF DecidedOT, ZeroOT
<1> QED BY <1>1, <1>3, StatesDiffer
        DEF RegularExits, FirstHasExit, SecondHasExit, OvertimeExits, OvertimeHasExit,
            NoWayBack

\* What keeps an overtime's way out: what clears the scores, and the callbacks.
LEMMA ClearedOvertime ==
    ASSUME ClearScores, m_State' # STATE_OVERTIME PROVE OvertimeExits'
BY ClearedOpens DEF OvertimeExits, OvertimeHasExit, NoWayBack

\* CPugMod::SetState.  It is not asked for a half while an overtime is decided, and
\* the overtime it enters is not.
LEMMA SetStateOvertime ==
    ASSUME TypeOK, OvertimeExits, NEW s \in State, NEW t \in SlotTasks, SetState(s, t),
           UNCHANGED server, DecidedOT => s \notin OvertimeOrBefore
    PROVE  OvertimeExits'
<1>1. m_State' = s
  BY DEF SetState
<1>2. CASE ClearScores /\ s # STATE_OVERTIME
  BY <1>1, <1>2, ClearedOvertime
<1>3. CASE s = STATE_HALFTIME /\ EnterHalftime(t)
  <2>1. ~DecidedOT
    BY <1>3 DEF OvertimeOrBefore
  <2>2. m_ScoreOT' = m_ScoreOT \/ m_ScoreOT' = SwapSides(m_ScoreOT)
    BY <1>3 DEF EnterHalftime, SwapTeams, scoreVars
  <2>3. ~DecidedOT'
    BY <2>1, <2>2 DEF DecidedOT, SwapSides, Other, Team
  <2> QED BY <1>1, <1>3, <2>3, StatesDiffer
          DEF OvertimeExits, OvertimeHasExit, NoWayBack
<1>4. CASE s = STATE_SECOND_HALF /\ EnterSecondHalf(t)
  <2>1. ~DecidedOT /\ m_ScoreOT' = m_ScoreOT
    BY <1>4 DEF OvertimeOrBefore, EnterSecondHalf, ZeroHalf
  <2>2. ~DecidedOT'
    BY <2>1 DEF DecidedOT
  <2> QED BY <1>1, <1>4, <2>2, StatesDiffer
          DEF OvertimeExits, OvertimeHasExit, NoWayBack
<1>5. CASE s = STATE_OVERTIME /\ EnterOvertime(t)
  <2>1. ~DecidedOT /\ (m_ScoreOT' = m_ScoreOT \/ m_ScoreOT' = ZeroOT)
    BY <1>5 DEF OvertimeOrBefore, EnterOvertime
  <2>2. ~DecidedOT'
    BY <2>1, ScoreNumbers DEF DecidedOT, ZeroOT
  <2>3. m_Wait' = Idle
    BY <1>5 DEF EnterOvertime, StopWaiting
  <2>4. ~BackToOvertime'
    BY <2>3, NotOvertime DEF BackToOvertime, Idle
  <2> QED BY <2>2, <2>4 DEF OvertimeExits, OvertimeHasExit, NoWayBack
<1>6. CASE s = STATE_END /\ EnterEnd(t)
  <2> DEFINE next == IF PlayerCount >= PlayersMin THEN STATE_VOTEMAP
                                                  ELSE STATE_DEATHMATCH
  <2>1. /\ m_Task' = Create(t, "SET_STATE", RestartDelay + 1, FALSE, next)
        /\ m_Wait' = m_Wait /\ m_ScoreOT' = m_ScoreOT
    BY <1>6 DEF EnterEnd, scoreVars
  <2>2. next \notin OvertimeOrBefore
    BY NotOvertime
  <2> HIDE DEF next
  <2>0. "SET_STATE" \in Slot
    BY DEF Slot
  <2>3. m_Task'["SET_STATE"].param = next
    BY <2>0, <2>1, CreatedWith
  <2>4. s \notin {STATE_FIRST_HALF, STATE_HALFTIME, STATE_SECOND_HALF, STATE_OVERTIME}
    BY <1>6, StatesDiffer
  <2>5. (DecidedOT' => DecidedOT) /\ (BackToOvertime' => BackToOvertime)
    BY <2>1 DEF DecidedOT, BackToOvertime
  <2> QED BY <1>1, <2>2, <2>3, <2>4, <2>5
          DEF OvertimeExits, OvertimeHasExit, NoWayBack
<1>7. CASE s \in {STATE_DEAD, STATE_DEATHMATCH, STATE_VOTEMAP, STATE_VOTETEAM,
                  STATE_CAPTAIN, STATE_KNIFE_ROUND, STATE_FIRST_HALF}
  <2>1. s \notin {STATE_HALFTIME, STATE_SECOND_HALF, STATE_OVERTIME, STATE_END}
    BY <1>7, StatesDiffer
  <2>2. ClearScores
    BY <2>1 DEF SetState, EnterDead, EnterDeathmatch, EnterVoteMap, EnterVoteTeam,
       EnterCaptain, EnterFirstHalf, EnterKnifeRound
  <2> QED BY <1>2, <2>1, <2>2
<1>8. \/ s \in {STATE_DEAD, STATE_DEATHMATCH, STATE_VOTEMAP, STATE_VOTETEAM,
                STATE_CAPTAIN, STATE_KNIFE_ROUND, STATE_FIRST_HALF}
      \/ s = STATE_HALFTIME /\ EnterHalftime(t)
      \/ s = STATE_SECOND_HALF /\ EnterSecondHalf(t)
      \/ s = STATE_OVERTIME /\ EnterOvertime(t)
      \/ s = STATE_END /\ EnterEnd(t)
  BY DEF SetState
<1> QED BY <1>3, <1>4, <1>5, <1>6, <1>7, <1>8

\* The round that decides an overtime asks for the end.
LEMMA RoundEndOvertime ==
    ASSUME TypeOK, OvertimeExits, NEW winner \in Team, RoundEnd(winner)
    PROVE  OvertimeExits'
<1>1. m_Task \in SlotTasks /\ "SET_STATE" \in Slot
  BY SlotTypes DEF Slot
<1>2. UNCHANGED <<m_State, m_Wait, server>>
  BY DEF RoundEnd
<1>3. CASE m_State = STATE_OVERTIME /\ CountRound(winner)
  <2>1. /\ m_Task' = AfterOvertime(m_ScoreOT', m_Task)
        /\ \A team \in Team : m_ScoreOT'[team] >= m_ScoreOT[team]
        /\ \A team \in Team : m_ScoreOT'[team] \in Nat
    BY <1>3, RoundCounted, ScoreNumbers
  <2>2. CASE DecidedOT'
    <3>1. m_ScoreOT'[TERRORIST] + m_ScoreOT'[CT] # HalfRoundsOT
      BY <2>1, <2>2, ScoreNumbers DEF DecidedOT
    <3>2. m_Task' = Create(m_Task, "SET_STATE", RestartDelay + 1, FALSE, STATE_END)
      BY <2>1, <2>2, <3>1 DEF AfterOvertime, DecidedOT
    <3>3. m_Task'["SET_STATE"].on /\ m_Task'["SET_STATE"].param = STATE_END
      BY <1>1, <3>2, CreatedOn, CreatedWith
    <3>4. Pending' /\ m_Task'["SET_STATE"].param \notin OvertimeOrBefore
      BY <3>3, NotOvertime DEF Pending
    <3>5. ~BackToOvertime /\ ~BackToOvertime'
      BY <1>2, <1>3 DEF OvertimeExits, NoWayBack, BackToOvertime
    <3>6. m_State' \notin {STATE_FIRST_HALF, STATE_HALFTIME, STATE_SECOND_HALF}
      BY <1>2, <1>3, StatesDiffer
    <3> QED BY <3>4, <3>5, <3>6 DEF OvertimeExits, OvertimeHasExit, NoWayBack
  <2>3. CASE ~DecidedOT'
    BY <1>2, <2>3 DEF OvertimeExits, OvertimeHasExit, NoWayBack, BackToOvertime
  <2> QED BY <2>2, <2>3
<1>4. CASE m_State \in {STATE_FIRST_HALF, STATE_SECOND_HALF} /\ CountRound(winner)
  <2>1. m_State # STATE_OVERTIME
    BY <1>4, StatesDiffer
  <2>2. m_ScoreOT' = m_ScoreOT
    BY <2>1, <1>4 DEF CountRound
  <2>3. ~DecidedOT
    BY <1>4 DEF OvertimeExits, NoWayBack
  <2>4. ~DecidedOT'
    BY <2>2, <2>3 DEF DecidedOT
  <2> QED BY <1>2, <2>1, <2>4 DEF OvertimeExits, OvertimeHasExit, NoWayBack
<1>5. CASE UNCHANGED <<m_ScoreOT, m_Task>>
  BY <1>2, <1>5
     DEF OvertimeExits, OvertimeHasExit, NoWayBack, BackToOvertime, DecidedOT, Pending
<1>6. CASE CountKnife(winner)
  <2>1. m_Task' = Create(m_Task, "VOTE_SWAP_TEAM", 1, FALSE, winner) /\ m_ScoreOT' = m_ScoreOT
    BY <1>6 DEF CountKnife, scoreVars
  <2>2. m_Task'["SET_STATE"] = m_Task["SET_STATE"]
    BY <1>1, <2>1, CreatedElse DEF Slot
  <2> QED BY <1>2, <2>1, <2>2
     DEF OvertimeExits, OvertimeHasExit, NoWayBack, BackToOvertime, DecidedOT, Pending
<1> QED BY <1>3, <1>4, <1>5, <1>6, ScoreNumbers DEF RoundEnd, Playing, scoreVars

LEMMA NextOvertime ==
    ASSUME OvertimeType # 0
    PROVE  TypeOK /\ CountInv /\ OvertimeExits /\ [Next]_vars => OvertimeExits'
<1> SUFFICES ASSUME TypeOK, CountInv, OvertimeExits, [Next]_vars PROVE OvertimeExits'
  OBVIOUS
<1>1. m_Task \in SlotTasks /\ "SET_STATE" \in Slot
      /\ Rearm(m_Task, "SET_STATE") \in SlotTasks /\ m_Task["SET_STATE"].param \in State
  BY SlotTypes DEF Slot
<1>2. CASE Callback
  <2>1. Passes
    BY <1>2, CallbackPasses
  <2>2. BackToOvertime' => BackToOvertime
    BY <2>1, NotOvertime DEF Passes, BackToOvertime
  <2>3. DecidedOT' => DecidedOT
    BY <2>1 DEF Passes, DecidedOT
  <2>4. ASSUME DecidedOT, DecidedOT', Pending'
        PROVE  m_Task'["SET_STATE"].param \notin OvertimeOrBefore
    <3>1. m_Wait.next \notin OvertimeOrBefore
      BY <2>4 DEF OvertimeExits, NoWayBack, BackToOvertime
    <3>2. Pending => m_Task["SET_STATE"].param \notin OvertimeOrBefore
      BY <2>4 DEF OvertimeExits, NoWayBack
    <3> QED BY <2>1, <2>4, <3>1, <3>2 DEF Passes, Pending
  <2>5. OvertimeHasExit'
    BY <2>1, <2>3 DEF Passes, OvertimeExits, OvertimeHasExit
  <2>6. NoWayBack'
    BY <2>1, <2>2, <2>3, <2>4 DEF Passes, OvertimeExits, NoWayBack
  <2> QED BY <2>5, <2>6 DEF OvertimeExits
<1>3. CASE SetStateFires
  <2> DEFINE s == m_Task["SET_STATE"].param
             t == Rearm(m_Task, "SET_STATE")
  <2>1. SetState(s, t) /\ UNCHANGED server /\ m_Task["SET_STATE"].on
    BY <1>3 DEF SetStateFires, IsDue
  <2>2. DecidedOT => s \notin OvertimeOrBefore
    BY <2>1 DEF OvertimeExits, NoWayBack, Pending
  <2>3. s \in State /\ t \in SlotTasks
    BY <1>1
  <2> HIDE DEF s, t
  <2> QED BY <2>1, <2>2, <2>3, SetStateOvertime
<1>4. CASE SpectatorDrops
  <2>1. SetState(STATE_END, m_Task) /\ UNCHANGED server
    BY <1>4 DEF SpectatorDrops
  <2> QED BY <1>1, <2>1, NotOvertime, StateNames, SetStateOvertime
<1>5. ASSUME NEW winner \in Team, RoundEnd(winner) PROVE OvertimeExits'
  BY <1>5, RoundEndOvertime
<1>6. ASSUME NEW team \in Team, Surrender(team) PROVE OvertimeExits'
  BY <1>6, SurrenderExits DEF OvertimeExits, OvertimeHasExit, NoWayBack
<1>7. CASE ServerDeactivate
  <2> DEFINE next == IF PlayerCount >= PlayersMin THEN STATE_VOTEMAP
                                                  ELSE STATE_DEATHMATCH
  <2>1. /\ server' # "active" /\ m_Wait' = Idle /\ m_ScoreOT' = m_ScoreOT
        /\ m_State' = STATE_END \/ m_State' = m_State
    BY <1>7 DEF ServerDeactivate, scoreVars
  <2>2. ~BackToOvertime'
    BY <2>1, NotOvertime DEF BackToOvertime, Idle
  <2>3. m_State' \notin {STATE_FIRST_HALF, STATE_HALFTIME, STATE_SECOND_HALF}
        \/ m_State' = m_State
    BY <2>1, StatesDiffer
  <2>4. DecidedOT' => DecidedOT
    BY <2>1 DEF DecidedOT
  <2>5. Pending' => m_Task'["SET_STATE"].param \notin OvertimeOrBefore
    <3>1. Cleared(Slot) \in SlotTasks /\ "SET_STATE" \in Slot
      BY ClearedType, StateNames DEF SlotTasks, Slot
    <3>2. ~Cleared(Slot)["SET_STATE"].on
      BY <3>1 DEF Cleared, NoTask
    <3>3. CASE m_Task' = Cleared(Slot)
      BY <3>2, <3>3 DEF Pending
    <3>4. CASE m_Task' = Create(Cleared(Slot), "SET_STATE", RestartDelay + 1, FALSE, next)
      <4>1. next \notin OvertimeOrBefore
        BY NotOvertime
      <4> HIDE DEF next
      <4>2. m_Task'["SET_STATE"].param = next
        BY <3>1, <3>4, CreatedWith
      <4> QED BY <4>1, <4>2
    <3> QED BY <1>7, <3>3, <3>4 DEF ServerDeactivate
  <2> QED BY <2>1, <2>2, <2>3, <2>4, <2>5 DEF OvertimeExits, OvertimeHasExit, NoWayBack
<1>8. CASE ServerActivate
  <2>1. ClearScores /\ m_State' = STATE_DEAD
    BY <1>8 DEF ServerActivate
  <2> QED BY <2>1, ClearedOvertime, StatesDiffer
<1>9. CASE UNCHANGED vars
  BY <1>9 DEF vars, scoreVars, Pending, OvertimeExits, OvertimeHasExit, NoWayBack,
     DecidedOT, BackToOvertime
<1> QED BY <1>2, <1>3, <1>4, <1>5, <1>6, <1>7, <1>8, <1>9, StepIs

\* CompleteHasExit, half by half.
LEMMA ExitsByHalf ==
    ASSUME TypeOK
    PROVE  CompleteHasExit <=> /\ RegularExits /\ OvertimeHasExit
BY DEF CompleteHasExit, HalfComplete, RegularExits, FirstHasExit, SecondHasExit,
   OvertimeHasExit, RoundsOf, DecidedOT, Pending

\* A first half with all its rounds, and a second half that is decided, have their way
\* out in the SET_STATE slot until they take it, whatever the configuration and
\* whoever else writes to the slot (CPugMod::RoundEnd, CPugTask::Create).
THEOREM RegularHalvesHaveExit == Spec => []RegularExits
BY InitExits, NextExits, TypeCorrect, CountInvariant, PTL DEF Spec

\* So does an overtime that is decided, if ties are not put to a vote: where they are,
\* and the votes take long, the answer to a vote that an earlier tie opened may enter
\* the decided overtime again, whose scores CPugMod::SetState keeps.
THEOREM CompleteAlwaysHasExit ==
    ASSUME OvertimeType # 0
    PROVE  Spec => []CompleteHasExit
<1>1. Spec => []OvertimeExits
  BY InitExits, NextOvertime, TypeCorrect, CountInvariant, PTL DEF Spec
<1>2. TypeOK /\ RegularExits /\ OvertimeExits => CompleteHasExit
  BY ExitsByHalf DEF OvertimeExits
<1> QED BY <1>1, <1>2, TypeCorrect, RegularHalvesHaveExit, PTL
-----------------------------------------------------------------------------
(***************************************************************************)
(* Pauses, whatever admins and players do.  CPugPause freezes the round,   *)
(* which the match does by itself too: types and the counting of rounds    *)
(* are kept.                                                               *)
(***************************************************************************)
\* A pause's freeze of a round that restarts is as long as it likes.
LEMMA FrozenType ==
    ASSUME TypeOK, NEW seconds \in Nat, RestartRoundFrozen(seconds)
    PROVE  TypeOK'
<1>1. ScoreTypes
  BY DEF TypeOK, ScoreTypes
<1>2. ScoreTypes'
  <2>1. CASE m_bCompleteReset /\ m_State \in {STATE_FIRST_HALF, STATE_SECOND_HALF}
    BY <1>1, <2>1, ZeroHalfType DEF RestartRoundFrozen, Half
  <2>2. CASE ~(m_bCompleteReset /\ m_State \in {STATE_FIRST_HALF, STATE_SECOND_HALF})
    BY <1>1, <2>2 DEF RestartRoundFrozen, scoreVars, ScoreTypes
  <2> QED BY <2>1, <2>2
<1>3. round' \in Phase /\ m_bCompleteReset' \in BOOLEAN
  BY DEF RestartRoundFrozen, Phase
<1> QED BY <1>2, <1>3 DEF RestartRoundFrozen, TypeOK, ScoreTypes, Phase, voteVars, teamVars

LEMMA FrozenCounts ==
    ASSUME CountInv, NEW seconds, RestartRoundFrozen(seconds)
    PROVE  CountInv'
<1>1. LO3EndsLive'
  BY DEF RestartRoundFrozen, CountInv, LO3EndsLive, Up, Counts, Playing
<1>2. RestartsOnce' /\ (OvertimeType # 0 => Quiet')
  BY DEF RestartRoundFrozen, CountInv, RestartsOnce, Quiet, voteVars
<1> QED BY <1>1, <1>2 DEF CountInv

\* What a step beside pauses is to the match.
LEMMA PauseStep ==
    ASSUME [PauseNext]_allVars
    PROVE  [Next]_vars \/ TimerFires \/ RestartRoundFrozen(FrozenFor)
BY DEF PauseNext, AskPause, RestartsRound, ChangesState, PauseDeactivate, PauseActivate,
       Second, Elsewhere, OtherTaskFires, Next, TaskFires, PlayersAct, allVars

LEMMA TimerKeeps ==
    ASSUME TypeOK, CountInv, TimerFires
    PROVE  TypeOK' /\ CountInv'
<1>1. round' = round \/ round' = [round EXCEPT !.left = FreezeTime]
  BY DEF TimerFires, Timer, EndPause
<1>2. round' \in Phase
  BY <1>1, ConfigAssumption DEF TypeOK, Phase
<1>3. TypeOK'
  BY <1>2 DEF TimerFires, TypeOK, Phase, scoreVars, voteVars, teamVars
<1>4. CountInv'
  BY DEF TimerFires, CountInv, RestartsOnce, LO3EndsLive, Quiet, Up, Counts, Playing, voteVars
<1> QED BY <1>3, <1>4

LEMMA PauseKeepsCount == PauseSpec => [](TypeOK /\ CountInv)
<1>1. PauseInit => TypeOK /\ CountInv
  BY InitType, InitCounts DEF PauseInit
<1>2. FrozenFor \in Nat
  BY PauseAssumption DEF FrozenFor
<1>3. TypeOK /\ CountInv /\ [PauseNext]_allVars => TypeOK' /\ CountInv'
  BY <1>2, PauseStep, NextType, NextCounts, TimerKeeps, FrozenType, FrozenCounts
     DEF CountStep
<1> QED BY <1>1, <1>3, PTL DEF PauseSpec

BuyTimes == {-1, 0, 25, 100 * PauseTime}
Pauses == [state: {"none", "asked", "paused"}, saved: BuyTimes]
PauseTasks == [PauseSlot -> Task({0, PauseTime})]

LEMMA PauseTypes ==
    /\ PauseTypeOK <=> /\ pause \in Pauses /\ m_PauseTask \in PauseTasks
                       /\ buytime \in BuyTimes /\ age \in 0..PauseTime /\ held \in BOOLEAN
    /\ PauseTypeOK' <=> /\ pause' \in Pauses /\ m_PauseTask' \in PauseTasks
                        /\ buytime' \in BuyTimes /\ age' \in 0..PauseTime /\ held' \in BOOLEAN
BY DEF PauseTypeOK, Pauses, PauseTasks, BuyTimes

\* A pause saves a buy time that some configuration or the pause before it set, and its
\* task waits for pug_pause_timeout: CPugPause::RestartRound, CPugPause::Timer.
THEOREM PauseTypeCorrect == PauseSpec => []PauseTypeOK
<1>1. /\ \A state : BuyTimeOf(state) \in BuyTimes
      /\ PauseBuyTime \in BuyTimes
  BY DEF BuyTimeOf, BuyTimes, PauseBuyTime
<1>2. /\ PauseTime \in Nat /\ PauseTime > 0 /\ 0 \in 0..PauseTime
      /\ 0 \in {0, PauseTime} /\ "PAUSE_MATCH" \in PauseSlot
  BY PauseAssumption DEF PauseSlot
<1>3. Cleared(PauseSlot) \in PauseTasks
  BY <1>2, ClearedType DEF PauseTasks
<1>4. NotPaused \in Pauses
  BY DEF NotPaused, Pauses, BuyTimes
<1>5. ASSUME NEW p \in Pauses, NEW state \in {"none", "asked", "paused"}
      PROVE  p.saved \in BuyTimes /\ [p EXCEPT !.state = state] \in Pauses
  BY <1>5 DEF Pauses
<1>6. PauseInit => PauseTypeOK
  BY <1>1, <1>2, <1>3, <1>4, PauseTypes DEF PauseInit
<1>7. ASSUME PauseTypeOK, [PauseNext]_allVars PROVE PauseTypeOK'
  <2>1. /\ pause \in Pauses /\ m_PauseTask \in PauseTasks
        /\ buytime \in BuyTimes /\ age \in 0..PauseTime /\ held \in BOOLEAN
    BY <1>7, PauseTypes
  <2>2. CASE UNCHANGED allVars \/ Elsewhere
    BY <2>1, <2>2, PauseTypes DEF Elsewhere, allVars, pauseVars
  <2>3. CASE AskPause
    BY <1>5, <2>1, <2>3, PauseTypes DEF AskPause
  <2>4. CASE TimerFires
    <3>1. /\ Rearm(m_PauseTask, "PAUSE_MATCH") \in PauseTasks
          /\ Remove(m_PauseTask, "PAUSE_MATCH") \in PauseTasks
      BY <1>2, <2>1, RearmType, RemoveType DEF PauseTasks
    <3>2. CASE age < PauseTime
      BY <1>5, <2>1, <2>4, <3>1, <3>2, PauseTypes DEF TimerFires, Timer
    <3>3. CASE ~(age < PauseTime)
      <4>1. EndPause
        BY <2>4, <3>3 DEF TimerFires, Timer
      <4>2. age' \in 0..PauseTime
        BY <1>2, <2>1, <4>1 DEF EndPause
      <4> QED BY <1>5, <2>1, <3>1, <4>1, <4>2, PauseTypes DEF EndPause
    <3> QED BY <3>2, <3>3
  <2>5. CASE RestartsRound
    <3>1. CASE StartPause
      <4>1. Create(m_PauseTask, "PAUSE_MATCH", 1, TRUE, PauseTime) \in PauseTasks
        BY <1>2, <2>1, CreateType DEF PauseTasks
      <4>2. [state |-> "paused", saved |-> buytime] \in Pauses
        BY <2>1 DEF Pauses
      <4>3. held' \in BOOLEAN
        BY <3>1 DEF StartPause
      <4> QED BY <1>1, <1>2, <3>1, <4>1, <4>2, <4>3, PauseTypes DEF StartPause
    <3>2. CASE PassRestart(m_State)
      BY <1>2, <1>4, <2>1, <3>2, PauseTypes DEF PassRestart
    <3> QED BY <2>5, <3>1, <3>2 DEF RestartsRound
  <2>6. CASE ChangesState
    BY <1>1, <1>2, <1>4, <2>1, <2>6, PauseTypes DEF ChangesState
  <2>7. CASE PauseDeactivate \/ PauseActivate
    BY <1>1, <1>2, <1>3, <1>4, <2>1, <2>7, PauseTypes DEF PauseDeactivate, PauseActivate
  <2>8. CASE Second
    <3>1. Elapse(m_PauseTask) \in PauseTasks
      BY <2>1, ElapseType DEF PauseTasks
    <3>2. age' \in 0..PauseTime
      BY <1>2, <2>1, <2>8 DEF Second
    <3> QED BY <2>1, <2>8, <3>1, <3>2, PauseTypes DEF Second
  <2> QED BY <1>7, <2>2, <2>3, <2>4, <2>5, <2>6, <2>7, <2>8 DEF PauseNext
<1> QED BY <1>6, <1>7, PTL DEF PauseSpec
-----------------------------------------------------------------------------
(***************************************************************************)
(* An ordinary pause.  It is bound up with a round of the half that it     *)
(* began in: the seconds the round is frozen for and those that the pause  *)
(* has lasted add up to one more than the pause takes, and its task is     *)
(* never a second late.  Only the LO3 restarts and the overtime vote could *)
(* disturb the round; a game that is live has neither.                     *)
(***************************************************************************)
HeldTask ==
    LET t == m_PauseTask["PAUSE_MATCH"]
    IN  /\ t.on /\ t.loop /\ t.delay = 1 /\ t.left \in {0, 1}
        /\ age = PauseTime => t.left = 0
HeldInv ==
    held => /\ m_State \in Half /\ m_bGameStarted
            /\ round.phase = "play" /\ round.left + age = PauseTime + 1
            /\ HeldTask
            /\ pause.saved = BuyTimeOf(m_State)

\* No round ends before the pause does.
LEMMA HeldRoundWaits ==
    ASSUME HeldInv, PauseTypeOK, held
    PROVE  round.phase = "play" /\ round.left # 0
<1>1. age \in 0..PauseTime
  BY PauseTypes
<1> QED BY <1>1, PauseAssumption DEF HeldInv

\* The callbacks of the match that do not reach CPugPause leave a live round alone.
LEMMA ElsewhereRests ==
    ASSUME CountInv, OvertimeType # 0, m_bGameStarted,
           round.phase = "play", round.left # 0, Elsewhere
    PROVE  UNCHANGED <<m_State, round>> /\ m_bGameStarted'
<1>1. ~RoundDraw /\ \A winner \in Team : ~RoundEnd(winner)
  <2>1. round # [phase |-> "play", left |-> 0]
    OBVIOUS
  <2> QED BY <2>1, Zenon DEF RoundDraw, RoundEnd
<1>2. ~LO3Fires /\ ~VoteOvertimeFires
  BY DEF CountInv, Quiet, LO3Fires, VoteOvertimeFires, IsDue
<1>3. CASE MapChangeFires \/ VoteSwapFires
  BY <1>3 DEF MapChangeFires, VoteSwapFires, gameVars
<1>4. CASE VoteStops
  BY <1>4 DEF VoteStops, VoteMapStops, VoteTeamStops, VoteSwapStops, VoteOvertimeStops,
              VoteEndStops, gameVars
<1>5. CASE WaitEnds \/ Picks
  BY <1>5 DEF WaitEnds, Picks, LeaderRunsOut, LeaderPicks, gameVars
<1>6. CASE PlayersAct /\ ~SpectatorDrops
  BY <1>6 DEF PlayersAct, PlayerJoins, PlayerLeavesTeam, PlayerDrops, CaptainDrops,
              Surrender, PickableDrops, PlayersVoteMap, PlayersVote, gameVars
<1>7. CASE \E next \in AdminStates : AdminSetState(next)
  BY <1>7 DEF AdminSetState, gameVars
<1> QED BY <1>1, <1>2, <1>3, <1>4, <1>5, <1>6, <1>7 DEF Elsewhere, OtherTaskFires

\* A second that passes brings the task to its half second and the round nearer its end.
LEMMA HeldSecond ==
    ASSUME TypeOK, PauseTypeOK, HeldInv, held, Second PROVE HeldInv'
<1>1. /\ m_PauseTask \in PauseTasks /\ "PAUSE_MATCH" \in DOMAIN m_PauseTask
      /\ age \in 0..PauseTime /\ PauseTime \in Nat /\ round \in Phase
  BY PauseTypes, PauseAssumption DEF PauseTasks, PauseSlot, TypeOK, Phase
<1> DEFINE t == m_PauseTask["PAUSE_MATCH"]
<1>2. t.on /\ t.loop /\ t.delay = 1 /\ t.left = 1
  BY <1>1 DEF Second, NoneDue, IsDue, HeldInv, HeldTask
<1>3. age < PauseTime /\ age' = age + 1
  BY <1>1, <1>2 DEF Second, HeldInv, HeldTask
<1>4. m_PauseTask'["PAUSE_MATCH"] = [t EXCEPT !.left = 0]
  BY <1>1, <1>2 DEF Second, Elapse
<1>5. t \in Task({0, PauseTime})
  BY <1>1 DEF PauseTasks, PauseSlot
<1>6. HeldTask'
  BY <1>2, <1>4, <1>5 DEF HeldTask, Task
<1>7. round'.phase = "play" /\ round'.left = round.left - 1
  BY <1>1, HeldRoundWaits DEF Second, Tick, Phase
<1> QED BY <1>1, <1>3, <1>6, <1>7 DEF HeldInv, Second, Tick, Phase

\* CPugPause::RestartRound holds a round that it could freeze.
LEMMA StartHolds ==
    ASSUME TypeOK, PauseTypeOK, m_State \in Half,
           RestartRoundFrozen(FrozenFor), StartPause
    PROVE  HeldInv'
<1>1. /\ m_PauseTask \in PauseTasks /\ "PAUSE_MATCH" \in PauseSlot
      /\ PauseTime \in Nat /\ PauseTime > 0
  BY PauseTypes, PauseAssumption DEF PauseSlot
<1>2. m_PauseTask'["PAUSE_MATCH"] =
        [on |-> TRUE, left |-> 1, delay |-> 1, loop |-> TRUE, param |-> PauseTime]
  BY <1>1 DEF StartPause, Create, PauseTasks
<1>3. HeldTask'
  <2>1. age' = 0
    BY DEF StartPause
  <2>2. m_PauseTask'["PAUSE_MATCH"].left = 1 /\ m_PauseTask'["PAUSE_MATCH"].delay = 1
    BY <1>2
  <2>3. m_PauseTask'["PAUSE_MATCH"].on /\ m_PauseTask'["PAUSE_MATCH"].loop
    BY <1>2
  <2> QED BY <1>1, <2>1, <2>2, <2>3 DEF HeldTask
<1>4. round'.phase = "play" /\ round'.left + age' = PauseTime + 1
  BY <1>1 DEF RestartRoundFrozen, FrozenFor, StartPause
<1>5. held' => m_bGameStarted /\ buytime = BuyTimeOf(m_State)
  BY DEF StartPause, Counts
<1>6. pause'.saved = buytime /\ BuyTimeOf(m_State)' = BuyTimeOf(m_State)
  BY DEF StartPause, RestartRoundFrozen, BuyTimeOf
<1> QED BY <1>3, <1>4, <1>5, <1>6 DEF HeldInv, RestartRoundFrozen

LEMMA HeldNext ==
    ASSUME OvertimeType # 0, TypeOK, CountInv, PauseTypeOK, HeldInv, [PauseNext]_allVars
    PROVE  HeldInv'
<1>1. /\ m_PauseTask \in PauseTasks /\ age \in 0..PauseTime /\ PauseTime \in Nat
      /\ pause \in Pauses
  BY PauseTypes, PauseAssumption
<1>2. CASE UNCHANGED allVars
  BY <1>2 DEF HeldInv, HeldTask, BuyTimeOf, Playing, allVars, vars, pauseVars, gameVars
<1>3. CASE AskPause
  <2>1. pause'.saved = pause.saved
    BY <1>1, <1>3 DEF AskPause, Pauses
  <2> QED BY <1>3, <2>1 DEF AskPause, HeldInv, HeldTask, BuyTimeOf, Playing, vars, gameVars
<1>4. CASE TimerFires
  <2>1. CASE age < PauseTime /\ held
    <3>1. m_PauseTask'["PAUSE_MATCH"] = [m_PauseTask["PAUSE_MATCH"] EXCEPT !.left = 1]
      BY <1>1, <1>4, <2>1 DEF TimerFires, Timer, Rearm, HeldInv, HeldTask, PauseTasks, PauseSlot
    <3>2. m_PauseTask["PAUSE_MATCH"] \in Task({0, PauseTime})
      BY <1>1 DEF PauseTasks, PauseSlot
    <3>3. HeldTask'
      BY <1>1, <1>4, <2>1, <3>1, <3>2 DEF TimerFires, Timer, HeldInv, HeldTask, Task
    <3>4. pause'.saved = pause.saved
      BY <1>1, <1>4, <2>1 DEF TimerFires, Timer, Pauses
    <3> QED BY <1>4, <2>1, <3>3, <3>4 DEF TimerFires, Timer, HeldInv, BuyTimeOf, Playing
  <2>2. CASE ~(age < PauseTime /\ held)
    BY <1>4, <2>2 DEF TimerFires, Timer, EndPause, HeldInv
  <2> QED BY <2>1, <2>2
<1>5. CASE RestartsRound
  <2>1. ~held
    BY <1>5, HeldRoundWaits DEF RestartsRound, RestartRound, RestartRoundFrozen
  <2>2. CASE PassRestart(m_State)
    BY <2>1, <2>2 DEF PassRestart, HeldInv
  <2> QED BY <1>5, <2>2, StartHolds DEF RestartsRound
<1>6. CASE ChangesState \/ PauseDeactivate \/ PauseActivate
  BY <1>6 DEF ChangesState, PauseDeactivate, PauseActivate, HeldInv
<1>7. CASE Second
  <2>1. CASE held
    BY <1>7, <2>1, HeldSecond
  <2>2. CASE ~held
    BY <1>7, <2>2 DEF Second, HeldInv
  <2> QED BY <2>1, <2>2
<1>8. CASE Elsewhere
  <2>1. UNCHANGED pauseVars
    BY <1>8 DEF Elsewhere
  <2>2. CASE held
    <3>1. UNCHANGED <<m_State, round>> /\ m_bGameStarted'
      BY <1>8, <2>2, HeldRoundWaits, ElsewhereRests DEF HeldInv
    <3> QED BY <2>1, <3>1 DEF HeldInv, HeldTask, BuyTimeOf, Playing, pauseVars
  <2>3. CASE ~held
    BY <2>1, <2>3 DEF pauseVars, HeldInv
  <2> QED BY <2>2, <2>3
<1> QED BY <1>2, <1>3, <1>4, <1>5, <1>6, <1>7, <1>8 DEF PauseNext

LEMMA HeldInvariant ==
    ASSUME OvertimeType # 0
    PROVE  PauseSpec => [](CountInv /\ PauseTypeOK /\ HeldInv)
<1>1. PauseInit => HeldInv
  BY DEF PauseInit, HeldInv
<1>2. TypeOK /\ CountInv /\ PauseTypeOK /\ HeldInv /\ [PauseNext]_allVars => HeldInv'
  BY HeldNext
<1> QED BY <1>1, <1>2, PauseKeepsCount, PauseTypeCorrect, PTL DEF PauseSpec

\* What enters a state never ends a round.
LEMMA EntersNoRoundEnd ==
    ASSUME NEW s, NEW t, SetState(s, t), round.phase = "play"
    PROVE  round'.phase # "over"
<1>1. ASSUME round' = round PROVE round'.phase # "over"
  BY <1>1
<1>2. ASSUME NEW restart, NEW slots, LO3Init(restart, slots) PROVE round'.phase # "over"
  <2>1. round' = round \/ round' = [phase |-> "restart", left |-> 1]
    BY <1>2, Zenon DEF LO3Init
  <2>2. CASE round' = [phase |-> "restart", left |-> 1]
    BY <2>2
  <2> QED BY <1>1, <2>1, <2>2
<1>3. ASSUME NEW v, OpenRoundVote(v) PROVE round'.phase # "over"
  BY <1>3 DEF OpenRoundVote
<1>4. CASE \/ EnterKnifeRound(t) \/ EnterFirstHalf(t) \/ EnterSecondHalf(t)
           \/ EnterOvertime(t)
  BY <1>2, <1>4 DEF EnterKnifeRound, EnterFirstHalf, EnterSecondHalf, EnterOvertime
<1>5. CASE EnterVoteMap(t) \/ EnterVoteTeam(t)
  BY <1>1, <1>3, <1>5 DEF EnterVoteMap, EnterVoteTeam, gameVars
<1>6. CASE EnterHalftime(t)
  BY <1>1, <1>6 DEF EnterHalftime, SwapTeams, gameVars
<1>7. CASE \/ EnterDead(t) \/ EnterDeathmatch(t) \/ EnterCaptain(t) \/ EnterEnd(t)
  BY <1>1, <1>7 DEF EnterDead, EnterDeathmatch, EnterCaptain, EnterEnd, gameVars
<1> QED BY <1>4, <1>5, <1>6, <1>7 DEF SetState

\* No round ends between the start of an ordinary pause and its end, whatever players
\* and admins do in the meantime, where ties are not put to a vote (pug_ot_type # 0):
\* the vote's sudden death may make the game live in the middle of the LO3 restarts,
\* and they cut a pause that starts there.
THEOREM PauseHoldsRound ==
    ASSUME OvertimeType # 0 PROVE PauseSpec => PausedRoundWaits
<1>1. ASSUME TypeOK, CountInv, PauseTypeOK, HeldInv, [PauseNext]_allVars, held
      PROVE  round'.phase # "over"
  <2>1. round.phase = "play" /\ round.left # 0 /\ m_bGameStarted /\ round \in Phase
    BY <1>1, HeldRoundWaits DEF HeldInv, TypeOK, Phase
  <2>2. CASE Elsewhere
    BY <1>1, <2>1, <2>2, ElsewhereRests
  <2>3. CASE ChangesState
    BY <2>1, <2>3, EntersNoRoundEnd DEF ChangesState, SetStateFires, SpectatorDrops
  <2>4. CASE TimerFires
    BY <2>1, <2>4 DEF TimerFires, Timer, EndPause, Phase
  <2>5. CASE Second
    BY <2>1, <2>5 DEF Second, Tick, Phase
  <2>6. CASE UNCHANGED allVars \/ AskPause \/ PauseDeactivate
    <3>1. round' = round
      BY <2>6 DEF allVars, vars, gameVars, AskPause, PauseDeactivate, ServerDeactivate
    <3> QED BY <2>1, <3>1
  <2>7. CASE RestartsRound \/ PauseActivate
    <3>1. round' = [phase |-> "play", left |-> FreezeTime]
      BY <2>1, <2>7 DEF RestartsRound, RestartRound, RestartRoundFrozen,
         PauseActivate, ServerActivate
    <3> QED BY <3>1
  <2> QED BY <1>1, <2>2, <2>3, <2>4, <2>5, <2>6, <2>7 DEF PauseNext
<1>2. TypeOK /\ CountInv /\ PauseTypeOK /\ HeldInv /\ [PauseNext]_allVars
        => (held => round'.phase # "over")
  BY <1>1
<1> QED BY <1>2, HeldInvariant, PauseKeepsCount, PTL DEF PauseSpec, PausedRoundWaits

\* An ordinary pause that is over leaves the half it began in with the buy time it had:
\* whatever else writes mp_buytime enters a state or a level.
THEOREM PauseRestoresBuyTime ==
    ASSUME OvertimeType # 0 PROVE PauseSpec => PauseGivesBack
<1>1. ASSUME CountInv, PauseTypeOK, HeldInv, [PauseNext]_allVars,
             held, ~held', m_State' = m_State, server' = server
      PROVE  buytime' = BuyTimeOf(m_State)
  <2>1. CASE TimerFires
    BY <1>1, <2>1 DEF TimerFires, Timer, EndPause, HeldInv
  <2>2. CASE ChangesState
    BY <1>1, <2>2 DEF ChangesState
  <2>3. CASE PauseDeactivate \/ PauseActivate
    BY <1>1, <2>3 DEF PauseDeactivate, ServerDeactivate, PauseActivate, ServerActivate
  <2>4. CASE RestartsRound
    BY <1>1, <2>4, HeldRoundWaits DEF RestartsRound, RestartRound, RestartRoundFrozen
  <2>5. CASE UNCHANGED allVars \/ AskPause \/ Second \/ Elsewhere
    BY <1>1, <2>5 DEF allVars, pauseVars, AskPause, Second, Elsewhere
  <2> QED BY <1>1, <2>1, <2>2, <2>3, <2>4, <2>5 DEF PauseNext
<1>2. CountInv /\ PauseTypeOK /\ HeldInv /\ [PauseNext]_allVars
        => (held /\ ~held' /\ m_State' = m_State /\ server' = server
              => buytime' = BuyTimeOf(m_State))
  BY <1>1
<1> QED BY <1>2, HeldInvariant, PTL DEF PauseSpec, PauseGivesBack
=============================================================================
