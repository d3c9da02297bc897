------------------------- MODULE PugModRulesProofs -------------------------
(***************************************************************************)
(* The course of a match that nobody disturbs: no admin forces a state,    *)
(* nobody leaves or uses the vote menu, and ties are not put to a vote.    *)
(* Every phase then has exactly one thing that moves it on, and so the     *)
(* scores follow the players, the rules of MatchRules are kept, and the    *)
(* report says what was played.                                            *)
(***************************************************************************)
EXTENDS PugModProofs, PugModRules, PugReport

\* The match is left alone, and the knife round's winners have voted before a
\* round could end again: with kniferound.cfg the next round is 99 + 15 seconds
\* away, and pug_vote_delay is 15.
Undisturbed == /\ ~Churn /\ AdminStates = {} /\ OvertimeType # 0
               /\ VoteDelay + 3 < KnifeDelay + FreezeTime

\* The seconds before a round can end: CPugMod::RoundEnd does not come earlier.
RoundTime == round.left + (IF round.phase = "play" THEN 0 ELSE FreezeTime)

\* Nothing that CPugTask runs for the match repeats.
OneShot == \A i \in Slot : ~m_Task[i].loop

\* What moves a phase on belongs to the phase, and has not yet asked for the next.
Alone ==
    /\ ~m_Vote["END"].on
    /\ m_Vote["MAP"].on => m_State = STATE_VOTEMAP /\ ~Pending
    /\ m_Vote["TEAM"].on => m_State = STATE_VOTETEAM /\ ~Pending
    /\ m_Leader.run => m_State = STATE_CAPTAIN /\ ~Pending
    /\ m_Wait.run => m_State \in {STATE_DEATHMATCH, STATE_HALFTIME} /\ ~Pending
    /\ m_Task["MAP_CHANGE"].on \/ server # "active" =>
          m_State = STATE_VOTEMAP /\ ~Pending /\ ~m_Vote["MAP"].on

\* The vote of the knife round's winners, from the round's end to the first half,
\* is over before another round ends.
KnifeWaits ==
    /\ m_Task["VOTE_SWAP_TEAM"].on =>
          /\ m_State = STATE_KNIFE_ROUND /\ ~Pending /\ ~m_Vote["SWAP"].on
          /\ ~m_Task["LO3_RESTART"].on
          /\ m_Task["VOTE_SWAP_TEAM"].left + VoteDelay + 2 < RoundTime
    /\ m_Vote["SWAP"].on =>
          /\ m_State = STATE_KNIFE_ROUND /\ ~Pending /\ ~m_Task["LO3_RESTART"].on
          /\ m_Vote["SWAP"].left + 2 < RoundTime
    /\ m_State = STATE_KNIFE_ROUND /\ Pending =>
          ~m_Task["LO3_RESTART"].on /\ m_Task["SET_STATE"].left < RoundTime

\* The inductive invariant of the course.
FlowInv == OneShot /\ Alone /\ KnifeWaits
-----------------------------------------------------------------------------
\* The slots after CPugTask::Create.
LEMMA SlotsCreated ==
    ASSUME NEW t \in SlotTasks, NEW i \in Slot, NEW delay, NEW param,
           m_Task' = Create(t, i, delay, FALSE, param), \A j \in Slot : ~t[j].loop
    PROVE  OneShot'
BY DEF Create, SlotTasks, OneShot

\* The slots after CPugTask::StartFrame switched a due one off.
LEMMA SlotsRearmed ==
    ASSUME TypeOK, OneShot, NEW i \in Slot
    PROVE  /\ Rearm(m_Task, i) \in SlotTasks
           /\ \A j \in Slot : ~Rearm(m_Task, i)[j].loop
           /\ ~Rearm(m_Task, i)[i].on
BY SlotTypes DEF Rearm, Remove, NoTask, SlotTasks, OneShot

LEMMA SlotNames ==
    /\ "SET_STATE" \in Slot /\ "MAP_CHANGE" \in Slot /\ "VOTE_SWAP_TEAM" \in Slot
    /\ "LO3_RESTART" \in Slot /\ "VOTE_OVERTIME" \in Slot
    /\ "MAP" \in Vote /\ "TEAM" \in Vote /\ "SWAP" \in Vote
    /\ "OVERTIME" \in Vote /\ "END" \in Vote
BY DEF Slot, Vote

\* Nothing else runs: no vote, no captains, no waiting phase, no change of the level,
\* and of the slots only SET_STATE and LO3_RESTART may be in use.
NothingRuns ==
    /\ \A v \in {"MAP", "TEAM", "SWAP", "END"} : ~m_Vote[v].on
    /\ ~m_Leader.run /\ ~m_Wait.run
    /\ ~m_Task["MAP_CHANGE"].on /\ ~m_Task["VOTE_SWAP_TEAM"].on
    /\ server = "active"

LEMMA PendingAlone == ASSUME FlowInv, Pending PROVE NothingRuns
BY DEF FlowInv, Alone, KnifeWaits, NothingRuns

\* Nothing runs in a phase that is played either, but for the knife round's vote.
LEMMA PlayingAlone ==
    ASSUME FlowInv, m_State \in Half PROVE NothingRuns
<1>1. m_State \notin {STATE_VOTEMAP, STATE_VOTETEAM, STATE_CAPTAIN, STATE_DEATHMATCH,
                      STATE_HALFTIME, STATE_KNIFE_ROUND}
  BY StatesDiffer DEF Half
<1> QED BY <1>1 DEF FlowInv, Alone, KnifeWaits, NothingRuns

\* Where nothing runs, only the knife round has to wait.
LEMMA NothingRunsFlows ==
    ASSUME NothingRuns', OneShot',
           m_State' = STATE_KNIFE_ROUND /\ Pending' =>
               ~m_Task'["LO3_RESTART"].on /\ m_Task'["SET_STATE"].left < RoundTime'
    PROVE  FlowInv'
BY DEF FlowInv, Alone, KnifeWaits, NothingRuns

\* CPugMod::SetState starts one driver at most, and starts from none.
LEMMA SetStateFlows ==
    ASSUME TypeOK, NothingRuns, NEW s \in State, NEW t \in SlotTasks,
           ~t["SET_STATE"].on, \A j \in Slot : ~t[j].loop,
           ~t["MAP_CHANGE"].on, ~t["VOTE_SWAP_TEAM"].on,
           SetState(s, t), UNCHANGED server
    PROVE  FlowInv'
<1>1. m_State' = s /\ server' = "active"
  BY DEF SetState, NothingRuns
<1>2. OneShot' /\ ~m_Task'["MAP_CHANGE"].on /\ ~m_Task'["VOTE_SWAP_TEAM"].on
  <2>1. CASE m_Task' = t
    BY <2>1 DEF OneShot
  <2>2. ASSUME NEW i \in {"SET_STATE", "LO3_RESTART"}, NEW delay, NEW param,
               m_Task' = Create(t, i, delay, FALSE, param)
        PROVE  OneShot' /\ ~m_Task'["MAP_CHANGE"].on /\ ~m_Task'["VOTE_SWAP_TEAM"].on
    <3>1. i \in Slot /\ i # "MAP_CHANGE" /\ i # "VOTE_SWAP_TEAM"
      BY DEF Slot
    <3>2. OneShot'
      BY <2>2, <3>1, SlotsCreated
    <3>3. m_Task'["MAP_CHANGE"] = t["MAP_CHANGE"]
      BY <2>2, <3>1, SlotNames, CreatedElse
    <3>4. m_Task'["VOTE_SWAP_TEAM"] = t["VOTE_SWAP_TEAM"]
      BY <2>2, <3>1, SlotNames, CreatedElse
    <3> QED BY <3>2, <3>3, <3>4
  <2>3. \/ m_Task' = t
        \/ \E i \in {"SET_STATE", "LO3_RESTART"} : \E delay, param :
              m_Task' = Create(t, i, delay, FALSE, param)
    BY DEF SetState, EnterDead, EnterDeathmatch, EnterVoteMap, EnterVoteTeam, ChangeTeam,
       EnterCaptain, EnterKnifeRound, EnterFirstHalf, EnterHalftime, EnterSecondHalf,
       EnterOvertime, EnterEnd, LO3Init
  <2> QED BY <2>1, <2>2, <2>3
<1>3. m_Task' = t => ~Pending'
  BY DEF Pending
<1>4. ASSUME UNCHANGED voteVars, m_Wait' = m_Wait \/ ~m_Wait'.run, s # STATE_KNIFE_ROUND
      PROVE  FlowInv'
  <2>1. NothingRuns'
    BY <1>1, <1>2, <1>4 DEF NothingRuns, voteVars
  <2> QED BY <1>1, <1>2, <1>4, <2>1, NothingRunsFlows
<1>5. ASSUME UNCHANGED voteVars, m_Wait' = Idle, LO3Init(4, t)
      PROVE  FlowInv'
  <2>1. m_Task' = Create(t, "LO3_RESTART", 3, FALSE, 3)
    BY <1>5 DEF LO3Init
  <2>2. m_Task'["SET_STATE"] = t["SET_STATE"]
    BY <2>1, SlotNames, CreatedElse
  <2>3. NothingRuns' /\ ~Pending'
    BY <1>1, <1>2, <1>5, <2>2 DEF NothingRuns, voteVars, Pending, Idle
  <2> QED BY <1>2, <2>3, NothingRunsFlows
<1>6. CASE s = STATE_DEAD /\ EnterDead(t)
  BY <1>4, <1>6, StatesDiffer DEF EnterDead, StopWaiting, Idle
<1>7. CASE s = STATE_DEATHMATCH /\ EnterDeathmatch(t)
  <2>1. m_Task' = t /\ UNCHANGED voteVars
    BY <1>7 DEF EnterDeathmatch
  <2>2. s # STATE_KNIFE_ROUND
    BY <1>7, StatesDiffer
  <2> QED BY <1>1, <1>2, <1>3, <1>7, <2>1, <2>2
          DEF NothingRuns, voteVars, FlowInv, Alone, KnifeWaits
<1>8. ASSUME NEW v \in {"MAP", "TEAM"}, OpenRoundVote(v), m_Wait' = Idle, m_Task' = t,
             s = IF v = "MAP" THEN STATE_VOTEMAP ELSE STATE_VOTETEAM
      PROVE  FlowInv'
  <2>1. m_Vote' = Create(m_Vote, v, VoteDelay, FALSE, Voters) /\ m_Leader' = m_Leader
    BY <1>8 DEF OpenRoundVote
  <2>2. \A w \in Vote : w # v => m_Vote'[w] = m_Vote[w]
    BY <2>1, SlotNames, VoteCreated
  <2>3. \A w \in {"MAP", "TEAM", "SWAP", "END"} : w # v => ~m_Vote'[w].on
    BY <2>2, SlotNames DEF NothingRuns
  <2>4. s # STATE_KNIFE_ROUND
    BY <1>8, StatesDiffer
  <2> QED BY <1>1, <1>2, <1>3, <1>8, <2>1, <2>3, <2>4
          DEF NothingRuns, FlowInv, Alone, KnifeWaits, Idle
<1>9. CASE s = STATE_VOTEMAP /\ EnterVoteMap(t)
  <2>1. m_Wait' = Idle
    BY <1>9 DEF EnterVoteMap, StopWaiting
  <2>2. s # STATE_KNIFE_ROUND
    BY <1>9, StatesDiffer
  <2>3. CASE OpenRoundVote("MAP") /\ m_Task' = t
    BY <1>8, <1>9, <2>1, <2>3
  <2>4. CASE UNCHANGED voteVars
    BY <1>4, <2>1, <2>2, <2>4 DEF Idle
  <2> QED BY <1>9, <2>3, <2>4 DEF EnterVoteMap
<1>10. CASE s = STATE_VOTETEAM /\ EnterVoteTeam(t)
  <2>1. m_Wait' = Idle
    BY <1>10 DEF EnterVoteTeam, StopWaiting
  <2>2. s # STATE_KNIFE_ROUND
    BY <1>10, StatesDiffer
  <2>3. CASE OpenRoundVote("TEAM") /\ m_Task' = t
    BY <1>8, <1>10, <2>1, <2>3
  <2>4. CASE UNCHANGED voteVars
    BY <1>4, <2>1, <2>2, <2>4 DEF Idle
  <2> QED BY <1>10, <2>3, <2>4 DEF EnterVoteTeam
<1>11. CASE s = STATE_CAPTAIN /\ EnterCaptain(t)
  <2>1. m_Wait' = Idle /\ m_Vote' = m_Vote
    BY <1>11 DEF EnterCaptain, StopWaiting
  <2>2. s # STATE_KNIFE_ROUND
    BY <1>11, StatesDiffer
  <2>3. CASE m_Task' = t
    BY <1>1, <1>2, <1>3, <1>11, <2>1, <2>2, <2>3
       DEF NothingRuns, FlowInv, Alone, KnifeWaits, Idle
  <2>4. CASE m_Leader' = m_Leader
    BY <1>4, <2>1, <2>2, <2>4 DEF Idle, voteVars
  <2> QED BY <1>11, <2>3, <2>4 DEF EnterCaptain
<1>12. CASE EnterKnifeRound(t)
  BY <1>5, <1>12 DEF EnterKnifeRound, StopWaiting
<1>13. CASE s = STATE_HALFTIME /\ EnterHalftime(t)
  <2>1. UNCHANGED voteVars
    BY <1>13 DEF EnterHalftime
  <2>2. s # STATE_KNIFE_ROUND
    BY <1>13, StatesDiffer
  <2>3. CASE m_Task' = t
    BY <1>1, <1>2, <1>3, <1>13, <2>1, <2>2, <2>3
       DEF NothingRuns, FlowInv, Alone, KnifeWaits, voteVars
  <2>4. CASE m_Wait' = m_Wait
    BY <1>4, <2>1, <2>2, <2>4
  <2> QED BY <1>13, <2>3, <2>4 DEF EnterHalftime
<1>14. CASE EnterSecondHalf(t)
  BY <1>5, <1>14 DEF EnterSecondHalf, StopWaiting
<1>15. CASE EnterOvertime(t)
  BY <1>5, <1>15 DEF EnterOvertime, StopWaiting
<1>16. CASE s = STATE_END /\ EnterEnd(t)
  BY <1>4, <1>16, StatesDiffer DEF EnterEnd
<1> QED BY <1>6, <1>7, <1>9, <1>10, <1>11, <1>12, <1>13, <1>14, <1>15, <1>16
        DEF SetState, EnterFirstHalf

\* The steps of a match that is left alone.
LEMMA UndisturbedStep ==
    ASSUME Undisturbed, CountInv, Alone, Next
    PROVE  \/ Tick \/ RestartRound \/ RoundDraw
           \/ \E winner \in Team : RoundEnd(winner)
           \/ SetStateFires \/ MapChangeFires \/ LO3Fires \/ VoteSwapFires
           \/ \E voted \in BOOLEAN : VoteMapStops(voted)
           \/ \E type \in 1..6 : VoteTeamStops(type)
           \/ \E choice \in 0..2 : VoteSwapStops(choice)
           \/ WaitEnds \/ Picks \/ \E team \in Team : PlayerJoins(team)
           \/ ServerDeactivate \/ ServerActivate
<1>1. Quiet /\ ~m_Vote["END"].on /\ ~Churn /\ AdminStates = {}
  BY DEF Undisturbed, CountInv, Alone
<1>2. ~VoteOvertimeFires
  BY <1>1 DEF Quiet, VoteOvertimeFires, IsDue
<1>3. ~\E choice \in 0..3 : VoteOvertimeStops(choice)
  BY <1>1 DEF Quiet, VoteOvertimeStops, Closes
<1>4. ~\E choice \in 0..3 : VoteEndStops(choice)
  BY <1>1 DEF VoteEndStops, Closes
<1>5. PlayersAct => \E team \in Team : PlayerJoins(team)
  BY <1>1 DEF PlayersAct, PlayerLeavesTeam, PlayerDrops, CaptainDrops, Surrender,
     PickableDrops, SpectatorDrops, PlayersVoteMap, PlayersVote
<1> QED BY <1>1, <1>2, <1>3, <1>4, <1>5 DEF Next, TaskFires, VoteStops

\* A request for the next state by the last thing that ran.
LEMMA AsksFlows ==
    ASSUME TypeOK, OneShot, NEW t \in SlotTasks, \A j \in Slot : ~t[j].loop,
           ~t["MAP_CHANGE"].on, ~t["VOTE_SWAP_TEAM"].on,
           t["LO3_RESTART"] = m_Task["LO3_RESTART"],
           NEW delay \in Nat, NEW param,
           m_Task' = Create(t, "SET_STATE", delay, FALSE, param),
           \A v \in {"MAP", "TEAM", "SWAP", "END"} : ~m_Vote'[v].on,
           ~m_Leader'.run, ~m_Wait'.run, server' = "active",
           UNCHANGED <<m_State, round>>,
           m_State = STATE_KNIFE_ROUND => ~m_Task["LO3_RESTART"].on /\ delay < RoundTime
    PROVE  FlowInv'
<1>1. OneShot'
  BY SlotNames, SlotsCreated
<1>2. m_Task'["SET_STATE"].left = delay
  BY SlotNames, CreatedWith
<1>3. m_Task'["MAP_CHANGE"] = t["MAP_CHANGE"]
  BY SlotNames, CreatedElse
<1>4. m_Task'["VOTE_SWAP_TEAM"] = t["VOTE_SWAP_TEAM"]
  BY SlotNames, CreatedElse
<1>5. m_Task'["LO3_RESTART"] = t["LO3_RESTART"]
  BY SlotNames, CreatedElse
<1>6. NothingRuns'
  BY <1>3, <1>4 DEF NothingRuns
<1>7. RoundTime' = RoundTime
  BY DEF RoundTime
<1> QED BY <1>1, <1>2, <1>5, <1>6, <1>7, NothingRunsFlows

\* Votes that stop.
LEMMA VotesFlow ==
    ASSUME TypeOK, FlowInv,
           \/ \E voted \in BOOLEAN : VoteMapStops(voted)
           \/ \E type \in 1..6 : VoteTeamStops(type)
           \/ \E choice \in 0..2 : VoteSwapStops(choice)
    PROVE  FlowInv'
<1>1. m_Task \in SlotTasks /\ OneShot /\ \A j \in Slot : ~m_Task[j].loop
  BY SlotTypes DEF FlowInv, OneShot
<1>2. ASSUME NEW v \in {"MAP", "TEAM", "SWAP"}, NEW voted, Closes(v, voted),
             m_Leader' = m_Leader, m_Wait' = m_Wait, UNCHANGED <<m_State, round, server>>,
             NEW delay \in Nat, NEW param,
             m_Task' = Create(m_Task, "SET_STATE", delay, FALSE, param), delay <= 2
      PROVE  FlowInv'
  <2>1. m_Vote[v].on
    BY <1>2 DEF Closes
  <2>2. /\ m_State \in {STATE_VOTEMAP, STATE_VOTETEAM, STATE_KNIFE_ROUND} /\ ~Pending
        /\ v = "MAP" <=> m_State = STATE_VOTEMAP
        /\ v = "TEAM" <=> m_State = STATE_VOTETEAM
        /\ v = "SWAP" <=> m_State = STATE_KNIFE_ROUND
    BY <1>2, <2>1, StatesDiffer DEF FlowInv, Alone, KnifeWaits
  <2>3. \A w \in {"MAP", "TEAM", "SWAP", "END"} : w # v => ~m_Vote[w].on
    BY <2>2, StatesDiffer DEF FlowInv, Alone, KnifeWaits
  <2>4. ~m_Leader.run /\ ~m_Wait.run
    BY <2>2, StatesDiffer DEF FlowInv, Alone
  <2>5. server = "active" /\ ~m_Task["MAP_CHANGE"].on /\ ~m_Task["VOTE_SWAP_TEAM"].on
    BY <1>2, <2>1, <2>2, StatesDiffer DEF FlowInv, Alone, KnifeWaits
  <2>6. /\ ~m_Vote'[v].on
        /\ \A w \in Vote : w # v => m_Vote'[w] = m_Vote[w]
    BY <1>2, SlotNames, ClosesKeeps
  <2>7. \A w \in {"MAP", "TEAM", "SWAP", "END"} : ~m_Vote'[w].on
    BY <2>3, <2>6, SlotNames
  <2>8. ASSUME m_State = STATE_KNIFE_ROUND
        PROVE  ~m_Task["LO3_RESTART"].on /\ delay < RoundTime
    <3>1. m_Vote["SWAP"].on
      BY <2>1, <2>2, <2>8
    <3>2. ~m_Task["LO3_RESTART"].on /\ m_Vote["SWAP"].left + 2 < RoundTime
      BY <3>1 DEF FlowInv, KnifeWaits
    <3>3. m_Vote["SWAP"].left \in Nat /\ RoundTime \in Nat
      BY SlotTypes, SlotNames, ConfigAssumption DEF VoteTasks, Task, RoundTime, TypeOK
    <3> QED BY <1>2, <3>2, <3>3
  <2> QED BY <1>1, <1>2, <2>4, <2>5, <2>7, <2>8, AsksFlows
<1>3. ASSUME NEW voted \in BOOLEAN, VoteMapStops(voted) PROVE FlowInv'
  <2>1. /\ Closes("MAP", voted)
        /\ m_Leader' = m_Leader /\ m_Wait' = m_Wait /\ UNCHANGED <<m_State, round, server>>
    BY <1>3 DEF VoteMapStops, gameVars
  <2>2. CASE m_Task' = Create(m_Task, "SET_STATE", 1, FALSE, STATE_VOTEMAP)
    <3>1. 1 \in Nat /\ 1 <= 2
      OBVIOUS
    <3> QED BY ONLY <1>2, <2>1, <2>2, <3>1
  <2>3. CASE m_Task' = Create(m_Task, "MAP_CHANGE", 5, FALSE, 0)
    <3>1. OneShot'
      BY <1>1, <2>3, SlotNames, SlotsCreated
    <3>2. \A j \in Slot : j # "MAP_CHANGE" => m_Task'[j] = m_Task[j]
      BY <1>1, <2>3, SlotNames, CreatedElse
    <3>3. /\ m_Task'["SET_STATE"] = m_Task["SET_STATE"]
          /\ m_Task'["VOTE_SWAP_TEAM"] = m_Task["VOTE_SWAP_TEAM"]
      BY <3>2, SlotNames
    <3>4. /\ ~m_Vote'["MAP"].on
          /\ \A w \in Vote : w # "MAP" => m_Vote'[w] = m_Vote[w]
      BY <2>1, SlotNames, ClosesKeeps
    <3>5. /\ m_Vote'["END"] = m_Vote["END"] /\ m_Vote'["TEAM"] = m_Vote["TEAM"]
          /\ m_Vote'["SWAP"] = m_Vote["SWAP"]
      BY <3>4, SlotNames
    <3>6. m_State = STATE_VOTEMAP /\ ~Pending
      BY <2>1 DEF Closes, FlowInv, Alone
    <3>7. m_State # STATE_KNIFE_ROUND
      BY <3>6, StatesDiffer
    <3>8. ~Pending'
      BY <3>3, <3>6 DEF Pending
    <3>9. Alone'
      BY <2>1, <3>4, <3>5, <3>6, <3>8 DEF FlowInv, Alone
    <3>10. KnifeWaits'
      BY <2>1, <3>3, <3>5, <3>7 DEF FlowInv, KnifeWaits
    <3> QED BY <3>1, <3>9, <3>10 DEF FlowInv
  <2> QED BY <1>3, <2>2, <2>3 DEF VoteMapStops
<1>4. ASSUME NEW type \in 1..6, VoteTeamStops(type) PROVE FlowInv'
  <2>1. /\ \E param : m_Task' = Create(m_Task, "SET_STATE", 2, FALSE, param)
        /\ Closes("TEAM", m_Vote["TEAM"].param = 1)
        /\ m_Leader' = m_Leader /\ m_Wait' = m_Wait /\ UNCHANGED <<m_State, round, server>>
    BY <1>4 DEF VoteTeamStops, ChangeTeam, gameVars
  <2>2. 2 \in Nat /\ 2 <= 2
    OBVIOUS
  <2> QED BY ONLY <1>2, <2>1, <2>2
<1>5. ASSUME NEW choice \in 0..2, VoteSwapStops(choice) PROVE FlowInv'
  <2>1. /\ m_Task' = Create(m_Task, "SET_STATE", 2, FALSE, STATE_FIRST_HALF)
        /\ Closes("SWAP", choice # 0)
        /\ m_Leader' = m_Leader /\ m_Wait' = m_Wait /\ UNCHANGED <<m_State, round, server>>
    BY <1>5 DEF VoteSwapStops, gameVars
  <2>2. 2 \in Nat /\ 2 <= 2
    OBVIOUS
  <2> QED BY ONLY <1>2, <2>1, <2>2
<1> QED BY <1>3, <1>4, <1>5

\* The waiting phase, the captains, and players who join during the warm-up.
LEMMA PeopleFlow ==
    ASSUME TypeOK, FlowInv,
           WaitEnds \/ Picks \/ \E team \in Team : PlayerJoins(team)
    PROVE  FlowInv'
<1>1. m_Task \in SlotTasks /\ OneShot /\ \A j \in Slot : ~m_Task[j].loop
  BY SlotTypes DEF FlowInv, OneShot
<1>2. CASE WaitEnds
  <2>1. /\ m_Wait.run /\ m_Wait' = Idle
        /\ m_Task' = Create(m_Task, "SET_STATE", 2, FALSE, m_Wait.next)
        /\ UNCHANGED <<m_State, m_Vote, m_Leader, round, server>>
    BY <1>2 DEF WaitEnds, voteVars, gameVars
  <2>2. m_State \in {STATE_DEATHMATCH, STATE_HALFTIME}
    BY <2>1 DEF FlowInv, Alone
  <2>3. /\ \A v \in {"MAP", "TEAM", "SWAP", "END"} : ~m_Vote[v].on
        /\ ~m_Leader.run /\ server = "active"
        /\ ~m_Task["MAP_CHANGE"].on /\ ~m_Task["VOTE_SWAP_TEAM"].on
    BY <2>2, StatesDiffer DEF FlowInv, Alone, KnifeWaits
  <2>4. m_State # STATE_KNIFE_ROUND
    BY <2>2, StatesDiffer
  <2> QED BY <1>1, <2>1, <2>3, <2>4, AsksFlows DEF Idle
<1>3. ASSUME m_Leader.run, UNCHANGED <<m_State, m_Wait, m_Vote, round, server>>,
             NEW counted, NEW p, NEW n, LeaderStop(counted, p, n)
      PROVE  FlowInv'
  <2>1. /\ \E param : m_Task' = Create(m_Task, "SET_STATE", 2, FALSE, param)
        /\ ~m_Leader'.run
    BY <1>3 DEF LeaderStop
  <2>2. m_State = STATE_CAPTAIN
    BY <1>3 DEF FlowInv, Alone
  <2>3. /\ \A v \in {"MAP", "TEAM", "SWAP", "END"} : ~m_Vote[v].on
        /\ ~m_Wait.run /\ server = "active"
        /\ ~m_Task["MAP_CHANGE"].on /\ ~m_Task["VOTE_SWAP_TEAM"].on
    BY <2>2, StatesDiffer DEF FlowInv, Alone, KnifeWaits
  <2>4. m_State # STATE_KNIFE_ROUND
    BY <2>2, StatesDiffer
  <2> QED BY <1>1, <1>3, <2>1, <2>3, <2>4, AsksFlows
<1>4. ASSUME UNCHANGED <<m_State, m_Task, m_Wait, m_Vote, round, server>>,
             m_Leader'.run => m_Leader.run
      PROVE  FlowInv'
  BY <1>4 DEF FlowInv, OneShot, Alone, KnifeWaits, Pending, RoundTime
<1>5. CASE LeaderRunsOut
  BY <1>3, <1>5 DEF LeaderRunsOut, gameVars
<1>6. ASSUME NEW team \in Team, LeaderPicks(team) PROVE FlowInv'
  <2>1. m_Leader.run /\ UNCHANGED <<m_State, m_Wait, m_Vote, round, server>>
    BY <1>6 DEF LeaderPicks, gameVars
  <2>2. \/ \E counted, p, n : LeaderStop(counted, p, n)
        \/ m_Task' = m_Task
    BY <1>6 DEF LeaderPicks
  <2> QED BY <1>3, <1>4, <2>1, <2>2
<1>7. ASSUME NEW team \in Team, PlayerJoins(team) PROVE FlowInv'
  BY <1>4, <1>7 DEF PlayerJoins, gameVars, TypeOK
<1> QED BY <1>2, <1>5, <1>6, <1>7 DEF Picks

\* Rounds that end undecided or restart, the LO3 restarts and the clock.
LEMMA TimeFlows ==
    ASSUME TypeOK, FlowInv, Tick \/ RestartRound \/ RoundDraw \/ LO3Fires
    PROVE  FlowInv'
<1>1. m_Task \in SlotTasks /\ m_Vote \in VoteTasks /\ OneShot
  BY SlotTypes DEF FlowInv
<1>2. round \in Phase /\ FreezeTime \in Nat
  BY ConfigAssumption DEF TypeOK, Phase
<1>3. CASE Tick
  <2>1. /\ m_Task' = Elapse(m_Task) /\ m_Vote' = Elapse(m_Vote)
        /\ UNCHANGED <<m_State, m_Wait, m_Leader, server>>
        /\ NoneDue(m_Task) /\ NoneDue(m_Vote)
    BY <1>3 DEF Tick
  <2>2. \A i \in Slot : /\ m_Task'[i].on = m_Task[i].on
                        /\ m_Task'[i].loop = m_Task[i].loop
    BY <1>1, <2>1 DEF Elapse, SlotTasks, Task
  <2>3. \A v \in Vote : m_Vote'[v].on = m_Vote[v].on
    BY <1>1, <2>1 DEF Elapse, VoteTasks, Task
  <2>4. \A i \in Slot : m_Task[i].on => m_Task'[i].left = m_Task[i].left - 1
    BY <1>1, <2>1 DEF Elapse, NoneDue, IsDue, SlotTasks, Task
  <2>5. \A v \in Vote : m_Vote[v].on => m_Vote'[v].left = m_Vote[v].left - 1
    BY <1>1, <2>1 DEF Elapse, NoneDue, IsDue, VoteTasks, Task
  <2>6. /\ \A i \in Slot : m_Task[i].on => m_Task[i].left \in Nat /\ m_Task[i].left # 0
        /\ \A v \in Vote : m_Vote[v].on => m_Vote[v].left \in Nat /\ m_Vote[v].left # 0
    BY <1>1, <2>1 DEF NoneDue, IsDue, SlotTasks, VoteTasks, Task
  <2>7. RoundTime \in Nat /\ RoundTime' \in Nat /\ RoundTime' >= RoundTime - 1
    BY <1>2, <1>3 DEF Tick, RoundTime, Phase
  <2>8. OneShot'
    BY <1>1, <2>2 DEF OneShot
  <2>9. Pending' = Pending
    BY <2>2, SlotNames DEF Pending
  <2>10. Alone'
    BY <2>1, <2>2, <2>3, <2>9, SlotNames DEF FlowInv, Alone
  <2>11. VoteDelay \in Nat
    BY ConfigAssumption
  <2>12. m_Task'["VOTE_SWAP_TEAM"].on =>
             m_Task'["VOTE_SWAP_TEAM"].left + VoteDelay + 2 < RoundTime'
    BY <2>2, <2>4, <2>6, <2>7, <2>11, SlotNames DEF FlowInv, KnifeWaits
  <2>13. m_Vote'["SWAP"].on => m_Vote'["SWAP"].left + 2 < RoundTime'
    BY <2>3, <2>5, <2>6, <2>7, SlotNames DEF FlowInv, KnifeWaits
  <2>14. m_State = STATE_KNIFE_ROUND /\ Pending => m_Task'["SET_STATE"].left < RoundTime'
    BY <2>4, <2>6, <2>7, SlotNames DEF FlowInv, KnifeWaits, Pending
  <2>15. KnifeWaits'
    <3>1. /\ m_Task'["VOTE_SWAP_TEAM"].on = m_Task["VOTE_SWAP_TEAM"].on
          /\ m_Task'["LO3_RESTART"].on = m_Task["LO3_RESTART"].on
          /\ m_Vote'["SWAP"].on = m_Vote["SWAP"].on
      BY <2>2, <2>3, SlotNames
    <3> QED BY <2>1, <2>9, <2>12, <2>13, <2>14, <3>1 DEF FlowInv, KnifeWaits
  <2> QED BY <2>8, <2>10, <2>15 DEF FlowInv
<1>4. ASSUME UNCHANGED <<m_State, m_Task, m_Wait, m_Vote, m_Leader, server>>,
             RoundTime' >= RoundTime, RoundTime' \in Nat, RoundTime \in Nat
      PROVE  FlowInv'
  <2>1. OneShot' /\ Alone'
    BY <1>4 DEF FlowInv, OneShot, Alone, Pending
  <2>2. /\ m_Task["SET_STATE"].left \in Nat /\ m_Task["VOTE_SWAP_TEAM"].left \in Nat
        /\ m_Vote["SWAP"].left \in Nat /\ VoteDelay \in Nat
    BY <1>1, SlotNames, ConfigAssumption DEF SlotTasks, VoteTasks, Task
  <2>3. KnifeWaits'
    BY <1>4, <2>2 DEF FlowInv, KnifeWaits, Pending
  <2> QED BY <2>1, <2>3 DEF FlowInv
<1>5. CASE RestartRound
  <2>1. RoundTime' >= RoundTime /\ RoundTime' \in Nat /\ RoundTime \in Nat
    BY <1>2, <1>5 DEF RestartRound, RestartRoundFrozen, RoundTime, Phase
  <2> QED BY <1>4, <1>5, <2>1 DEF RestartRound, RestartRoundFrozen, voteVars
<1>6. CASE RoundDraw
  <2>1. RoundTime' >= RoundTime /\ RoundTime' \in Nat /\ RoundTime \in Nat
    BY <1>2, <1>6, ConfigAssumption DEF RoundDraw, RoundOver, RoundTime, Phase
  <2> QED BY <1>4, <1>6, <2>1 DEF RoundDraw, voteVars
<1>7. CASE LO3Fires
  <2> DEFINE t == Rearm(m_Task, "LO3_RESTART")
             restart == m_Task["LO3_RESTART"].param
  <2>1. /\ m_Task["LO3_RESTART"].on
        /\ UNCHANGED <<m_State, m_Wait, m_Vote, m_Leader, server>>
        /\ \/ m_Task' = t
           \/ m_Task' = Create(t, "LO3_RESTART", 3, FALSE, restart - 1)
    BY <1>7 DEF LO3Fires, LO3Init, IsDue, voteVars
  <2>2. t \in SlotTasks /\ \A j \in Slot : ~t[j].loop
    BY <1>1, SlotsRearmed, SlotNames
  <2>3. \A j \in Slot : j # "LO3_RESTART" => t[j] = m_Task[j]
    BY <1>1, RearmKeeps, SlotNames
  <2> HIDE DEF t, restart
  <2>4. OneShot'
    BY <2>1, <2>2, SlotsCreated, SlotNames DEF OneShot
  <2>5. \A j \in Slot : j # "LO3_RESTART" => m_Task'[j] = t[j]
    <3>1. CASE m_Task' = t
      BY <3>1
    <3>2. CASE m_Task' = Create(t, "LO3_RESTART", 3, FALSE, restart - 1)
      BY <2>2, <3>2, CreatedElse, SlotNames
    <3> QED BY <2>1, <3>1, <3>2
  <2>6. /\ m_Task'["SET_STATE"] = m_Task["SET_STATE"]
        /\ m_Task'["MAP_CHANGE"] = m_Task["MAP_CHANGE"]
        /\ m_Task'["VOTE_SWAP_TEAM"] = m_Task["VOTE_SWAP_TEAM"]
    BY <2>3, <2>5, SlotNames
  <2>7. Alone'
    BY <2>1, <2>6 DEF FlowInv, Alone, Pending
  <2>8. KnifeWaits'
    BY <2>1, <2>6 DEF FlowInv, KnifeWaits, Pending
  <2> QED BY <2>4, <2>7, <2>8 DEF FlowInv
<1> QED BY <1>3, <1>5, <1>6, <1>7

\* A round of a half asks for halftime or the end, or for nothing.
LEMMA HalfRoundWrites ==
    ASSUME TypeOK, OvertimeType # 0, m_State \in Half, NEW winner \in Team, RoundEnd(winner)
    PROVE  \/ m_Task' = m_Task
           \/ \E next \in {STATE_HALFTIME, STATE_END} :
                 m_Task' = Create(m_Task, "SET_STATE", RestartDelay + 1, FALSE, next)
<1> DEFINE Written(after) ==
              \/ after = m_Task
              \/ \E next \in {STATE_HALFTIME, STATE_END} :
                    after = Create(m_Task, "SET_STATE", RestartDelay + 1, FALSE, next)
<1>1. Written(AfterFirstHalf(m_Score', m_Task))
  BY DEF AfterFirstHalf
<1>2. Written(AfterSecondHalf(m_Score', m_Task))
  <2> DEFINE played ==
        CASE OvertimeType = 0 ->
              Create(m_Task, "VOTE_OVERTIME", RestartDelay + 1, FALSE, 0)
          [] OvertimeType = 1 ->
              Create(m_Task, "SET_STATE", RestartDelay + 1, FALSE, STATE_HALFTIME)
          [] OvertimeType = 2 ->
              Create(m_Task, "SET_STATE", RestartDelay + 1, FALSE, STATE_END)
          [] OvertimeType = 3 -> m_Task
  <2>1. OvertimeType \in {1, 2, 3}
    BY ConfigAssumption
  <2>2. Written(played)
    <3>1. CASE OvertimeType = 1
      BY <3>1
    <3>2. CASE OvertimeType = 2
      BY <3>2
    <3>3. CASE OvertimeType = 3
      BY <3>3
    <3> QED BY <2>1, <3>1, <3>2, <3>3
  <2>3. \/ AfterSecondHalf(m_Score', m_Task) \in {played, m_Task}
        \/ AfterSecondHalf(m_Score', m_Task)
              = Create(m_Task, "SET_STATE", RestartDelay + 1, FALSE, STATE_END)
    BY DEF AfterSecondHalf
  <2>4. Written(m_Task)
        /\ Written(Create(m_Task, "SET_STATE", RestartDelay + 1, FALSE, STATE_END))
    OBVIOUS
  <2> HIDE DEF played, Written
  <2> QED BY <2>2, <2>3, <2>4
<1>3. Written(AfterOvertime(m_ScoreOT', m_Task))
  BY DEF AfterOvertime
<1>4. CASE CountRound(winner)
  <2>1. m_State \in {STATE_FIRST_HALF, STATE_SECOND_HALF, STATE_OVERTIME}
    BY DEF Half
  <2>2. m_Task' \in {AfterFirstHalf(m_Score', m_Task), AfterSecondHalf(m_Score', m_Task),
                     AfterOvertime(m_ScoreOT', m_Task)}
    BY <1>4, <2>1, RoundCounted
  <2> QED BY <1>1, <1>2, <1>3, <2>2
<1>5. m_Task' = m_Task \/ CountRound(winner)
  BY StatesDiffer DEF RoundEnd, Half
<1> QED BY <1>4, <1>5

\* A round that counts opens the vote of the knife round, or asks for what follows
\* the half.
LEMMA RoundEndFlows ==
    ASSUME Undisturbed, TypeOK, CountInv, FlowInv, NEW winner \in Team, RoundEnd(winner)
    PROVE  FlowInv'
<1>1. m_Task \in SlotTasks /\ OneShot /\ \A j \in Slot : ~m_Task[j].loop
  BY SlotTypes DEF FlowInv, OneShot
<1>2. /\ UNCHANGED <<m_State, m_Wait, m_Vote, m_Leader, server>>
      /\ Playing(m_State) /\ RoundTime = 0 /\ RoundOver
  BY DEF RoundEnd, voteVars, RoundTime
<1>3. /\ VoteDelay \in Nat /\ FreezeTime \in Nat /\ KnifeDelay \in Nat
      /\ RestartDelay \in Nat /\ VoteDelay + 3 < KnifeDelay + FreezeTime
  BY ConfigAssumption DEF Undisturbed
<1>4. ~m_Task["VOTE_SWAP_TEAM"].on /\ ~m_Vote["SWAP"].on
      /\ ~(m_State = STATE_KNIFE_ROUND /\ Pending)
  <2>1. /\ m_Task["SET_STATE"].left \in Nat /\ m_Task["VOTE_SWAP_TEAM"].left \in Nat
        /\ m_Vote["SWAP"].left \in Nat
    BY SlotTypes, SlotNames DEF SlotTasks, VoteTasks, Task
  <2> QED BY <1>2, <1>3, <2>1 DEF FlowInv, KnifeWaits
<1>5. CASE m_Task' = m_Task
  <2>1. OneShot' /\ Alone'
    BY <1>2, <1>5 DEF FlowInv, OneShot, Alone, Pending
  <2>2. KnifeWaits'
    BY <1>2, <1>4, <1>5 DEF KnifeWaits, Pending
  <2> QED BY <2>1, <2>2 DEF FlowInv
<1>6. CASE m_Task' # m_Task /\ m_State = STATE_KNIFE_ROUND
  <2>1. Counts /\ CountKnife(winner)
    BY <1>6, StatesDiffer DEF RoundEnd
  <2>2. m_Task' = Create(m_Task, "VOTE_SWAP_TEAM", 1, FALSE, winner)
    BY <2>1 DEF CountKnife
  <2>3. OneShot'
    BY <1>1, <2>2, SlotNames, SlotsCreated
  <2>4. m_Task'["VOTE_SWAP_TEAM"].left = 1
    BY <1>1, <2>2, SlotNames, CreatedWith
  <2>5. \A j \in Slot : j # "VOTE_SWAP_TEAM" => m_Task'[j] = m_Task[j]
    BY <1>1, <2>2, SlotNames, CreatedElse
  <2>6. /\ m_Task'["SET_STATE"] = m_Task["SET_STATE"]
        /\ m_Task'["MAP_CHANGE"] = m_Task["MAP_CHANGE"]
        /\ m_Task'["LO3_RESTART"] = m_Task["LO3_RESTART"]
    BY <2>5, SlotNames
  <2>7. ~m_Task["LO3_RESTART"].on
    BY <2>1 DEF CountInv, Undisturbed, Quiet, Counts
  <2>8. RoundTime' = KnifeDelay + FreezeTime
    BY <1>2, <1>6 DEF RoundOver, RoundTime
  <2>9. 1 + VoteDelay + 2 < RoundTime'
    BY <1>3, <2>8
  <2>10. Alone'
    BY <1>2, <2>6 DEF FlowInv, Alone, Pending
  <2>11. KnifeWaits'
    BY <1>2, <1>4, <1>6, <2>4, <2>6, <2>7, <2>9 DEF KnifeWaits, Pending
  <2> QED BY <2>3, <2>10, <2>11 DEF FlowInv
<1>7. CASE m_Task' # m_Task /\ m_State # STATE_KNIFE_ROUND
  <2>1. m_State \in Half /\ OvertimeType # 0
    BY <1>2, <1>7 DEF Playing, Undisturbed
  <2>2. NothingRuns
    BY <2>1, PlayingAlone
  <2>4. PICK delay, param : m_Task' = Create(m_Task, "SET_STATE", delay, FALSE, param)
    BY <1>7, <2>1, HalfRoundWrites
  <2>5. OneShot'
    BY <1>1, <2>4, SlotNames, SlotsCreated
  <2>6. m_Task'["MAP_CHANGE"] = m_Task["MAP_CHANGE"]
    BY <1>1, <2>4, SlotNames, CreatedElse
  <2>7. m_Task'["VOTE_SWAP_TEAM"] = m_Task["VOTE_SWAP_TEAM"]
    BY <1>1, <2>4, SlotNames, CreatedElse
  <2>8. NothingRuns'
    BY <1>2, <2>2, <2>6, <2>7 DEF NothingRuns
  <2> QED BY <1>2, <1>7, <2>5, <2>8, NothingRunsFlows
<1> QED BY <1>5, <1>6, <1>7

\* Tasks that are executed.
LEMMA TasksFlow ==
    ASSUME TypeOK, FlowInv, SetStateFires \/ MapChangeFires \/ VoteSwapFires
    PROVE  FlowInv'
<1>1. m_Task \in SlotTasks /\ OneShot /\ \A i \in Slot : m_Task[i].param \in State
  BY SlotTypes DEF FlowInv
<1>2. ASSUME NEW i \in Slot, NEW j \in Slot, i # j
      PROVE  Rearm(m_Task, i)[j] = m_Task[j]
  BY <1>1, <1>2, RearmKeeps
<1>3. CASE SetStateFires
  <2> DEFINE t == Rearm(m_Task, "SET_STATE")
             s == m_Task["SET_STATE"].param
  <2>1. Pending /\ SetState(s, t) /\ UNCHANGED server
    BY <1>3 DEF SetStateFires, IsDue, Pending
  <2>2. t \in SlotTasks /\ s \in State /\ ~t["SET_STATE"].on
        /\ \A j \in Slot : ~t[j].loop
    BY <1>1, SlotsRearmed, SlotNames
  <2>3. /\ t["MAP_CHANGE"] = m_Task["MAP_CHANGE"]
        /\ t["VOTE_SWAP_TEAM"] = m_Task["VOTE_SWAP_TEAM"]
    BY <1>2, SlotNames
  <2>4. NothingRuns
    BY <2>1, PendingAlone
  <2>5. ~t["MAP_CHANGE"].on /\ ~t["VOTE_SWAP_TEAM"].on
    BY <2>3, <2>4 DEF NothingRuns
  <2> HIDE DEF t, s
  <2> QED BY <2>1, <2>2, <2>4, <2>5, SetStateFlows
<1>4. CASE MapChangeFires
  <2>1. /\ m_Task["MAP_CHANGE"].on /\ m_Task' = Rearm(m_Task, "MAP_CHANGE")
        /\ UNCHANGED <<m_State, m_Wait, m_Vote, m_Leader, round>>
    BY <1>4 DEF MapChangeFires, IsDue, voteVars, gameVars
  <2>2. /\ m_State = STATE_VOTEMAP /\ ~Pending /\ ~m_Vote["MAP"].on
    BY <2>1 DEF FlowInv, Alone
  <2>3. /\ m_Task'["SET_STATE"] = m_Task["SET_STATE"]
        /\ m_Task'["VOTE_SWAP_TEAM"] = m_Task["VOTE_SWAP_TEAM"]
        /\ m_Task'["LO3_RESTART"] = m_Task["LO3_RESTART"]
    BY <1>2, <2>1, SlotNames
  <2>4. OneShot'
    BY <1>1, <2>1, SlotsRearmed, SlotNames DEF OneShot
  <2>5. Alone'
    BY <2>1, <2>2, <2>3 DEF FlowInv, Alone, Pending
  <2>6. KnifeWaits'
    BY <2>1, <2>3 DEF FlowInv, KnifeWaits, Pending, RoundTime
  <2> QED BY <2>4, <2>5, <2>6 DEF FlowInv
<1>5. CASE VoteSwapFires
  <2> DEFINE t == Rearm(m_Task, "VOTE_SWAP_TEAM")
             team == m_Task["VOTE_SWAP_TEAM"].param
  <2>1. /\ m_Task["VOTE_SWAP_TEAM"].on /\ m_Task["VOTE_SWAP_TEAM"].left = 0
        /\ UNCHANGED <<m_State, m_Wait, m_Leader, round, server>>
    BY <1>5 DEF VoteSwapFires, IsDue, gameVars
  <2>2. /\ m_State = STATE_KNIFE_ROUND /\ ~Pending /\ ~m_Vote["SWAP"].on
        /\ ~m_Task["LO3_RESTART"].on /\ VoteDelay + 2 < RoundTime
    BY <2>1, ConfigAssumption DEF FlowInv, KnifeWaits
  <2>3. /\ \A v \in {"MAP", "TEAM", "SWAP", "END"} : ~m_Vote[v].on
        /\ ~m_Leader.run /\ ~m_Wait.run /\ server = "active" /\ ~m_Task["MAP_CHANGE"].on
    BY <2>2, StatesDiffer DEF FlowInv, Alone
  <2>4. \/ m_Task' = t /\ m_Vote' = Create(m_Vote, "SWAP", VoteDelay, FALSE, team)
        \/ m_Task' = Create(t, "SET_STATE", 2, FALSE, STATE_FIRST_HALF) /\ m_Vote' = m_Vote
    BY <1>5, <2>2 DEF VoteSwapFires
  <2>5. t \in SlotTasks /\ ~t["VOTE_SWAP_TEAM"].on /\ \A j \in Slot : ~t[j].loop
    BY <1>1, SlotsRearmed, SlotNames
  <2>6. /\ t["MAP_CHANGE"] = m_Task["MAP_CHANGE"] /\ t["SET_STATE"] = m_Task["SET_STATE"]
        /\ t["LO3_RESTART"] = m_Task["LO3_RESTART"]
    BY <1>2, SlotNames
  <2> HIDE DEF t, team
  <2>7. VoteDelay \in Nat /\ RoundTime \in Nat
    BY ConfigAssumption DEF RoundTime, TypeOK
  <2>8. CASE m_Task' = Create(t, "SET_STATE", 2, FALSE, STATE_FIRST_HALF) /\ m_Vote' = m_Vote
    <3>1. 2 < RoundTime /\ 2 \in Nat
      BY <2>2, <2>7
    <3> QED BY <1>1, <2>1, <2>2, <2>3, <2>5, <2>6, <2>8, <3>1, AsksFlows
  <2>9. CASE m_Task' = t /\ m_Vote' = Create(m_Vote, "SWAP", VoteDelay, FALSE, team)
    <3>1. m_Vote'["SWAP"].left = VoteDelay
      BY <2>9, SlotTypes, SlotNames DEF Create, VoteTasks
    <3>2. \A w \in Vote : w # "SWAP" => m_Vote'[w] = m_Vote[w]
      BY <2>9, SlotNames, VoteCreated
    <3>3. \A v \in {"MAP", "TEAM", "END"} : ~m_Vote'[v].on
      BY <2>3, <3>2, SlotNames
    <3>4. OneShot' /\ ~Pending'
      BY <2>2, <2>5, <2>6, <2>9 DEF OneShot, Pending
    <3>5. Alone'
      BY <2>1, <2>3, <2>6, <2>9, <3>3 DEF Alone
    <3>6. RoundTime' = RoundTime
      BY <2>1 DEF RoundTime
    <3>7. KnifeWaits'
      BY <2>1, <2>2, <2>5, <2>6, <2>9, <3>1, <3>4, <3>6 DEF KnifeWaits
    <3> QED BY <3>4, <3>5, <3>7 DEF FlowInv
  <2> QED BY <2>4, <2>8, <2>9
<1> QED BY <1>3, <1>4, <1>5

\* Between two levels nothing runs, and the level after them starts with the warm-up.
LEMMA ServerFlows ==
    ASSUME TypeOK, FlowInv, ServerDeactivate \/ ServerActivate
    PROVE  FlowInv'
<1>1. /\ Cleared(Slot) \in SlotTasks
      /\ \A j \in Slot : ~Cleared(Slot)[j].loop /\ ~Cleared(Slot)[j].on
  BY ClearedType, StateNames DEF SlotTasks, Cleared, NoTask
<1>2. /\ m_Vote' = NoVotes /\ ~m_Leader'.run /\ ~m_Wait'.run
      /\ \A v \in Vote : ~NoVotes[v].on
  <2>1. \A v \in Vote : ~NoVotes[v].on
    BY DEF NoVotes, Cleared, NoTask
  <2>2. m_Vote' = NoVotes /\ m_Leader' = NoLeader /\ m_Wait' = Idle
    BY DEF ServerDeactivate, ServerActivate
  <2>3. ~NoLeader.run /\ ~Idle.run
    BY DEF NoLeader, Idle
  <2> QED BY <2>1, <2>2, <2>3
<1>3. CASE ServerDeactivate
  <2>1. m_State = STATE_VOTEMAP
    BY <1>3 DEF ServerDeactivate, FlowInv, Alone
  <2>2. ~Live(m_State)
    BY <2>1, StatesDiffer DEF Live
  <2>3. m_Task' = Cleared(Slot) /\ m_State' = m_State
    BY <1>3, <2>2 DEF ServerDeactivate
  <2>4. m_State # STATE_KNIFE_ROUND
    BY <2>1, StatesDiffer
  <2> QED BY <1>1, <1>2, <2>1, <2>3, <2>4, SlotNames
          DEF FlowInv, OneShot, Alone, KnifeWaits, Pending
<1>4. CASE ServerActivate
  <2>1. m_Task' = Create(Cleared(Slot), "SET_STATE", 5, FALSE, STATE_DEATHMATCH)
        /\ server' = "active" /\ m_State' = STATE_DEAD
    BY <1>4 DEF ServerActivate
  <2>2. OneShot'
    BY <1>1, <2>1, SlotNames, SlotsCreated
  <2>3. m_Task'["MAP_CHANGE"] = Cleared(Slot)["MAP_CHANGE"]
    BY <1>1, <2>1, SlotNames, CreatedElse
  <2>4. m_Task'["VOTE_SWAP_TEAM"] = Cleared(Slot)["VOTE_SWAP_TEAM"]
    BY <1>1, <2>1, SlotNames, CreatedElse
  <2>5. NothingRuns'
    BY <1>1, <1>2, <2>1, <2>3, <2>4, SlotNames DEF NothingRuns
  <2> QED BY <2>1, <2>2, <2>5, StatesDiffer, NothingRunsFlows
<1> QED BY <1>3, <1>4

LEMMA NextFlows ==
    ASSUME Undisturbed
    PROVE  TypeOK /\ CountInv /\ FlowInv /\ [Next]_vars => FlowInv'
<1> SUFFICES ASSUME TypeOK, CountInv, FlowInv, [Next]_vars PROVE FlowInv'
  OBVIOUS
<1>1. CASE UNCHANGED vars
  BY <1>1 DEF vars, voteVars, gameVars, FlowInv, OneShot, Alone, KnifeWaits, Pending,
     RoundTime
<1>2. CASE Next
  <2>1. Alone
    BY DEF FlowInv
  <2> QED BY <1>2, <2>1, UndisturbedStep, TimeFlows, RoundEndFlows, TasksFlow, VotesFlow,
             PeopleFlow, ServerFlows
<1> QED BY <1>1, <1>2

LEMMA InitFlows == Init => FlowInv
<1> SUFFICES ASSUME Init PROVE FlowInv
  OBVIOUS
<1>1. /\ m_Task = Create(Cleared(Slot), "SET_STATE", 5, FALSE, STATE_DEATHMATCH)
      /\ m_Vote = NoVotes /\ m_State = STATE_DEAD /\ server = "active"
      /\ ~m_Leader.run /\ ~m_Wait.run
  BY DEF Init, NoLeader, Idle
<1>2. /\ \A i \in Slot : ~m_Task[i].loop
      /\ \A i \in Slot : i # "SET_STATE" => ~m_Task[i].on
  BY <1>1 DEF Create, Cleared, NoTask
<1>3. \A v \in Vote : ~m_Vote[v].on
  BY <1>1 DEF NoVotes, Cleared, NoTask
<1>4. m_State \notin {STATE_VOTEMAP, STATE_VOTETEAM, STATE_CAPTAIN, STATE_KNIFE_ROUND}
  BY <1>1, StatesDiffer
<1>5. NothingRuns
  BY <1>1, <1>2, <1>3, SlotNames DEF NothingRuns
<1> QED BY <1>2, <1>4, <1>5
        DEF FlowInv, OneShot, Alone, KnifeWaits, NothingRuns

LEMMA FlowInvariant == ASSUME Undisturbed PROVE Spec => []FlowInv
BY InitFlows, NextFlows, TypeCorrect, CountInvariant, PTL DEF Spec
-----------------------------------------------------------------------------
(***************************************************************************)
(* The scores follow the players.  Sides swap in the votes of the teams    *)
(* and of the knife round's winners, which carry no score with them: they  *)
(* close before anything is won.                                           *)
(***************************************************************************)
MatchStates == {STATE_FIRST_HALF, STATE_HALFTIME, STATE_SECOND_HALF, STATE_OVERTIME,
                STATE_END}

NothingWon == /\ m_Score = ZeroScore /\ won = [r \in Roster |-> NoRounds]
              /\ m_ScoreOT = ZeroOT /\ wonOT = [r \in Roster |-> 0]

\* Before the first half nothing is won.
WonInMatch == m_State \in MatchStates \/ NothingWon

\* The inductive invariant, next to FlowInv.
ScoreInv == ScoreFollowsRoster /\ WonInMatch

LEMMA NothingWonFollows ==
    ASSUME TypeOK', NothingWon' PROVE ScoreInv'
<1>1. \A team \in Team : RosterOf(team)' \in Roster
  BY DEF TypeOK, RosterOf, OtherRoster, Roster
<1> QED BY <1>1 DEF NothingWon, ScoreInv, ScoreFollowsRoster, WonInMatch, ZeroScore, ZeroOT

LEMMA ClearedFollows == ASSUME TypeOK', ClearScores PROVE ScoreInv'
BY NothingWonFollows DEF ClearScores, NothingWon

\* Callbacks that move no scores, and players only before the first half.
LEMMA ScoresKept ==
    ASSUME TypeOK', ScoreInv, UNCHANGED <<m_State, scoreVars>>,
           roster' = roster \/ m_State \notin MatchStates
    PROVE  ScoreInv'
<1>1. CASE m_State \notin MatchStates
  <2>1. NothingWon'
    BY <1>1 DEF ScoreInv, WonInMatch, NothingWon, scoreVars
  <2> QED BY <2>1, NothingWonFollows
<1>2. CASE roster' = roster
  BY <1>2 DEF ScoreInv, WonInMatch, NothingWon, ScoreFollowsRoster, RosterOf, scoreVars
<1> QED BY <1>1, <1>2

\* A half is reset for both sides and both rosters.
LEMMA ZeroHalfFollows ==
    ASSUME TypeOK, ScoreFollowsRoster, NEW half \in Half, ZeroHalf(half), roster' = roster
    PROVE  ScoreFollowsRoster'
<1>1. \A team \in Team : RosterOf(team) \in Roster /\ RosterOf(team)' = RosterOf(team)
  BY DEF TypeOK, RosterOf, OtherRoster, Roster
<1>2. ASSUME NEW team \in Team
      PROVE  /\ m_Score'[team] = won'[RosterOf(team)]
             /\ m_ScoreOT'[team] = wonOT'[RosterOf(team)]
  BY <1>1, <1>2 DEF ZeroHalf, ScoreFollowsRoster
<1> QED BY <1>1, <1>2 DEF ScoreFollowsRoster

\* The scores change sides with the players.
LEMMA SwapFollows ==
    ASSUME TypeOK, ScoreFollowsRoster, SwapTeams PROVE ScoreFollowsRoster'
<1>1. CASE SwapAllPlayers /\ m_Score' = SwapSides(m_Score)
           /\ m_ScoreOT' = SwapSides(m_ScoreOT) /\ UNCHANGED <<won, wonOT>>
  <2>1. roster \in Roster /\ roster' = OtherRoster(roster)
    BY <1>1 DEF SwapAllPlayers, TypeOK
  <2>2. ASSUME NEW team \in Team
        PROVE  RosterOf(team)' = RosterOf(Other(team)) /\ Other(team) \in Team
    BY <2>1 DEF RosterOf, Other, OtherRoster, Roster, Team, TERRORIST, CT
  <2> QED BY <1>1, <2>2 DEF ScoreFollowsRoster, SwapSides
<1>2. CASE UNCHANGED <<roster, scoreVars>>
  BY <1>2 DEF ScoreFollowsRoster, RosterOf, scoreVars
<1> QED BY <1>1, <1>2 DEF SwapTeams, teamVars, scoreVars

\* A round that counts is counted for the side and for the roster on it.
LEMMA CountFollows ==
    ASSUME TypeOK, ScoreFollowsRoster, NEW winner \in Team, m_State \in Half,
           CountRound(winner), roster' = roster
    PROVE  ScoreFollowsRoster'
<1>1. \A team \in Team : RosterOf(team) \in Roster /\ RosterOf(team)' = RosterOf(team)
  BY DEF TypeOK, RosterOf, OtherRoster, Roster
<1>2. \A team \in Team : team # winner => RosterOf(team) # RosterOf(winner)
  BY DEF TypeOK, RosterOf, OtherRoster, Roster, Team, TERRORIST, CT
<1>3. /\ m_Score \in [Team -> [Half -> Nat]] /\ m_ScoreOT \in [Team -> Nat]
      /\ won \in [Roster -> [Half -> Nat]] /\ wonOT \in [Roster -> Nat]
  BY DEF TypeOK
<1>4. /\ m_Score' = [m_Score EXCEPT ![winner][m_State] = @ + 1]
      /\ won' = [won EXCEPT ![RosterOf(winner)][m_State] = @ + 1]
      /\ m_ScoreOT' = IF m_State = STATE_OVERTIME
                      THEN [m_ScoreOT EXCEPT ![winner] = @ + 1] ELSE m_ScoreOT
      /\ wonOT' = IF m_State = STATE_OVERTIME
                  THEN [wonOT EXCEPT ![RosterOf(winner)] = @ + 1] ELSE wonOT
  BY DEF CountRound
<1>5. ASSUME NEW team \in Team
      PROVE  m_Score'[team] = won'[RosterOf(team)]
  <2>1. m_Score[team] = won[RosterOf(team)]
    BY DEF ScoreFollowsRoster
  <2> QED BY <1>1, <1>2, <1>3, <1>4, <2>1
<1>6. ASSUME NEW team \in Team
      PROVE  m_ScoreOT'[team] = wonOT'[RosterOf(team)]
  <2>1. m_ScoreOT[team] = wonOT[RosterOf(team)]
    BY DEF ScoreFollowsRoster
  <2> QED BY <1>1, <1>2, <1>3, <1>4, <2>1
<1> QED BY <1>1, <1>5, <1>6 DEF ScoreFollowsRoster

\* CPugMod::SetState: it clears the scores of whatever is not part of a match.
LEMMA SetStateClears ==
    ASSUME NEW s \in State, NEW t, SetState(s, t), s \notin MatchStates \/ s = STATE_FIRST_HALF
    PROVE  ClearScores
<1>1. s \notin {STATE_HALFTIME, STATE_SECOND_HALF, STATE_OVERTIME, STATE_END}
  BY StatesDiffer DEF MatchStates
<1> QED BY <1>1 DEF SetState, EnterDead, EnterDeathmatch, EnterVoteMap, EnterVoteTeam,
           EnterCaptain, EnterFirstHalf, EnterKnifeRound

LEMMA SetStateFollows ==
    ASSUME TypeOK, TypeOK', ScoreInv, NEW s \in State, NEW t, SetState(s, t)
    PROVE  ScoreInv'
<1>1. m_State' = s
  BY DEF SetState
<1>2. CASE s \notin MatchStates \/ s = STATE_FIRST_HALF
  BY <1>2, SetStateClears, ClearedFollows
<1>3. CASE s \in MatchStates /\ s # STATE_FIRST_HALF
  <2>1. WonInMatch'
    BY <1>1, <1>3 DEF WonInMatch, MatchStates
  <2>2. CASE s = STATE_HALFTIME
    <3>1. EnterHalftime(t)
      BY <2>2, StatesDiffer DEF SetState
    <3> QED BY <2>1, <3>1, SwapFollows DEF ScoreInv, EnterHalftime
  <2>3. CASE s = STATE_SECOND_HALF
    <3>1. EnterSecondHalf(t)
      BY <2>3, StatesDiffer DEF SetState
    <3> QED BY <2>1, <3>1, ZeroHalfFollows DEF ScoreInv, EnterSecondHalf, Half
  <2>4. CASE s = STATE_OVERTIME
    <3>1. EnterOvertime(t)
      BY <2>4, StatesDiffer DEF SetState
    <3>2. /\ UNCHANGED <<m_Score, won, roster>>
          /\ \/ UNCHANGED <<m_ScoreOT, wonOT>>
             \/ m_ScoreOT' = ZeroOT /\ wonOT' = [r \in Roster |-> 0]
      BY <3>1 DEF EnterOvertime, teamVars
    <3>3. \A team \in Team : RosterOf(team)' \in Roster /\ RosterOf(team)' = RosterOf(team)
      BY <3>2 DEF TypeOK, RosterOf, OtherRoster, Roster
    <3>4. ScoreFollowsRoster'
      BY <3>2, <3>3 DEF ScoreInv, ScoreFollowsRoster, ZeroOT
    <3> QED BY <2>1, <3>4 DEF ScoreInv
  <2>5. CASE s = STATE_END
    <3>1. EnterEnd(t)
      BY <2>5, StatesDiffer DEF SetState
    <3>2. ScoreFollowsRoster'
      BY <3>1 DEF EnterEnd, ScoreInv, ScoreFollowsRoster, RosterOf, scoreVars, teamVars
    <3> QED BY <2>1, <3>2 DEF ScoreInv
  <2> QED BY <1>3, <2>2, <2>3, <2>4, <2>5 DEF MatchStates
<1> QED BY <1>2, <1>3

LEMMA NextFollows ==
    ASSUME Undisturbed
    PROVE  TypeOK /\ TypeOK' /\ CountInv /\ FlowInv /\ ScoreInv /\ [Next]_vars => ScoreInv'
<1> SUFFICES ASSUME TypeOK, TypeOK', CountInv, FlowInv, ScoreInv, [Next]_vars
             PROVE  ScoreInv'
  OBVIOUS
<1>1. ASSUME UNCHANGED <<m_State, scoreVars, roster>> PROVE ScoreInv'
  BY <1>1, ScoresKept
<1>2. CASE UNCHANGED vars
  BY <1>1, <1>2 DEF vars, teamVars
<1>3. CASE Tick \/ RoundDraw \/ MapChangeFires \/ LO3Fires \/ VoteSwapFires \/ WaitEnds
           \/ Picks \/ (\E team \in Team : PlayerJoins(team))
           \/ \E voted \in BOOLEAN : VoteMapStops(voted)
  BY <1>1, <1>3 DEF Tick, RoundDraw, MapChangeFires, LO3Fires, VoteSwapFires, WaitEnds,
     Picks, LeaderRunsOut, LeaderPicks, PlayerJoins, VoteMapStops, teamVars
<1>4. CASE RestartRound
  <2>1. UNCHANGED <<m_State, roster>>
    BY <1>4 DEF RestartRound, RestartRoundFrozen, teamVars
  <2>2. CASE m_State \in {STATE_FIRST_HALF, STATE_SECOND_HALF} /\ ZeroHalf(m_State)
    BY <2>1, <2>2, ZeroHalfFollows DEF ScoreInv, WonInMatch, MatchStates, Half
  <2> QED BY <1>1, <1>4, <2>1, <2>2 DEF RestartRound, RestartRoundFrozen
<1>5. ASSUME NEW winner \in Team, RoundEnd(winner) PROVE ScoreInv'
  <2>1. UNCHANGED <<m_State, roster>>
    BY <1>5 DEF RoundEnd, teamVars
  <2>2. CASE m_State # STATE_KNIFE_ROUND /\ CountRound(winner)
    <3>1. m_State \in Half /\ m_State \in MatchStates
      BY <1>5, <2>2 DEF RoundEnd, Playing, Half, MatchStates
    <3> QED BY <2>1, <2>2, <3>1, CountFollows DEF ScoreInv, WonInMatch
  <2> QED BY <1>1, <1>5, <2>1, <2>2 DEF RoundEnd, CountKnife
<1>6. CASE SetStateFires
  BY <1>6, SlotTypes, SlotNames, SetStateFollows DEF SetStateFires
<1>7. ASSUME NEW type \in 1..6, VoteTeamStops(type) PROVE ScoreInv'
  <2>1. m_State = STATE_VOTETEAM
    BY <1>7 DEF VoteTeamStops, Closes, FlowInv, Alone
  <2>2. m_State \notin MatchStates
    BY <2>1, StatesDiffer DEF MatchStates
  <2> QED BY <1>7, <2>2, ScoresKept DEF VoteTeamStops
<1>8. ASSUME NEW choice \in 0..2, VoteSwapStops(choice) PROVE ScoreInv'
  <2>1. m_State = STATE_KNIFE_ROUND
    BY <1>8 DEF VoteSwapStops, Closes, FlowInv, KnifeWaits
  <2>2. m_State \notin MatchStates
    BY <2>1, StatesDiffer DEF MatchStates
  <2> QED BY <1>8, <2>2, ScoresKept DEF VoteSwapStops
<1>9. CASE ServerDeactivate
  <2>1. m_State = STATE_VOTEMAP
    BY <1>9 DEF ServerDeactivate, FlowInv, Alone
  <2>2. ~Live(m_State)
    BY <2>1, StatesDiffer DEF Live
  <2> QED BY <1>1, <1>9, <2>2 DEF ServerDeactivate, teamVars
<1>10. CASE ServerActivate
  BY <1>10, ClearedFollows DEF ServerActivate
<1>11. Alone
  BY DEF FlowInv
<1> QED BY <1>2, <1>3, <1>4, <1>5, <1>6, <1>7, <1>8, <1>9, <1>10, <1>11, UndisturbedStep

LEMMA InitFollows == Init => ScoreInv
BY StatesDiffer
   DEF Init, ScoreInv, ScoreFollowsRoster, WonInMatch, NothingWon, RosterOf, OtherRoster,
       Roster, ZeroScore, ZeroOT, Team

LEMMA ScoreInvariant == ASSUME Undisturbed PROVE Spec => []ScoreInv
<1>1. Undisturbed => (TypeOK /\ TypeOK' /\ CountInv /\ FlowInv /\ ScoreInv /\ [Next]_vars
                        => ScoreInv')
  BY NextFollows
<1> QED BY <1>1, InitFollows, TypeCorrect, CountInvariant, FlowInvariant, PTL DEF Spec

\* Whatever side a roster is on, the score of that side is the rounds it won: the swaps
\* of the team vote, of the knife round's winners and of halftime (CPugMod::SwapTeams)
\* take neither players nor scores along without the other.
THEOREM ScoresFollowRosters ==
    ASSUME Undisturbed PROVE Spec => []ScoreFollowsRoster
BY ScoreInvariant, PTL DEF ScoreInv
-----------------------------------------------------------------------------
(***************************************************************************)
(* What completes a half asks for the next state before another round can  *)
(* end, if rounds are frozen for two seconds or more: the request comes a  *)
(* second after the restart of the round.                                  *)
(***************************************************************************)
\* A half that has asked for what follows waits for it, after its LO3 restarts.
HalfWaits ==
    m_State \in Half /\ Pending =>
        ~m_Task["LO3_RESTART"].on /\ m_Task["SET_STATE"].left < RoundTime

\* What does not happen during a match, from its first half to its end.
LEMMA MatchRests ==
    ASSUME Undisturbed, CountInv, FlowInv, m_State \in MatchStates
    PROVE  /\ ~MapChangeFires /\ ~VoteSwapFires /\ ~VoteOvertimeFires
           /\ ~VoteStops /\ ~Picks /\ ~PlayersAct
           /\ AdminStates = {} /\ server = "active"
<1>1. m_State \notin {STATE_DEAD, STATE_DEATHMATCH, STATE_VOTEMAP, STATE_VOTETEAM,
                      STATE_CAPTAIN, STATE_KNIFE_ROUND}
  BY StatesDiffer DEF MatchStates
<1>2. /\ \A v \in {"MAP", "TEAM", "SWAP", "END"} : ~m_Vote[v].on
      /\ ~m_Leader.run /\ ~m_Task["MAP_CHANGE"].on /\ ~m_Task["VOTE_SWAP_TEAM"].on
      /\ Quiet /\ ~Churn /\ AdminStates = {} /\ server = "active"
  BY <1>1 DEF FlowInv, Alone, KnifeWaits, Undisturbed, CountInv
<1>3. ~MapChangeFires /\ ~VoteSwapFires /\ ~Picks /\ ~VoteOvertimeFires
  BY <1>2 DEF MapChangeFires, VoteSwapFires, IsDue, Picks, LeaderRunsOut, LeaderPicks,
     VoteOvertimeFires, Quiet
<1>4. ~VoteStops
  BY <1>2 DEF VoteStops, VoteMapStops, VoteTeamStops, VoteSwapStops, VoteOvertimeStops,
     VoteEndStops, Closes, Quiet
<1>5. ~PlayersAct
  BY <1>1, <1>2 DEF PlayersAct, PlayerJoins, PlayerLeavesTeam, PlayerDrops, CaptainDrops,
     Surrender, PickableDrops, SpectatorDrops, PlayersVoteMap, PlayersVote
<1> QED BY <1>2, <1>3, <1>4, <1>5

\* What is left.
LEMMA MatchStep ==
    ASSUME Undisturbed, CountInv, FlowInv, m_State \in MatchStates, Next
    PROVE  \/ Tick \/ RestartRound \/ RoundDraw \/ LO3Fires \/ WaitEnds \/ SetStateFires
           \/ \E winner \in Team : RoundEnd(winner)
BY MatchRests DEF Next, TaskFires, ServerDeactivate, ServerActivate

\* The clock, the restarts and undecided rounds leave the request, and the time to the
\* next round's end, as far apart as they are.
LEMMA TimeWaits ==
    ASSUME TypeOK, Pending, ~m_Task["LO3_RESTART"].on,
           m_Task["SET_STATE"].left < RoundTime, Tick \/ RestartRound \/ RoundDraw \/ LO3Fires
    PROVE  ~m_Task'["LO3_RESTART"].on /\ m_Task'["SET_STATE"].left < RoundTime'
<1>1. m_Task \in SlotTasks /\ m_Task["SET_STATE"].left \in Nat
  BY SlotTypes, SlotNames DEF SlotTasks, Task
<1>2. round \in Phase /\ FreezeTime \in Nat
  BY ConfigAssumption DEF TypeOK, Phase
<1>3. CASE Tick
  <2>1. m_Task' = Elapse(m_Task) /\ NoneDue(m_Task)
    BY <1>3 DEF Tick
  <2>2. m_Task'["LO3_RESTART"].on = m_Task["LO3_RESTART"].on
    BY <1>1, <2>1, SlotNames DEF Elapse, SlotTasks, Task
  <2>3. m_Task'["SET_STATE"].left = m_Task["SET_STATE"].left - 1
    BY <1>1, <2>1, SlotNames DEF Elapse, NoneDue, IsDue, SlotTasks, Task, Pending
  <2>4. RoundTime \in Nat /\ RoundTime' \in Nat /\ RoundTime' >= RoundTime - 1
    BY <1>2, <1>3 DEF Tick, RoundTime, Phase
  <2> QED BY <1>1, <2>2, <2>3, <2>4
<1>4. CASE RestartRound
  <2>1. RoundTime' >= RoundTime /\ RoundTime' \in Nat /\ RoundTime \in Nat
    BY <1>2, <1>4 DEF RestartRound, RestartRoundFrozen, RoundTime, Phase
  <2> QED BY <1>1, <1>4, <2>1 DEF RestartRound, RestartRoundFrozen
<1>5. CASE RoundDraw
  <2>1. RoundTime' >= RoundTime /\ RoundTime' \in Nat /\ RoundTime \in Nat
    BY <1>2, <1>5, ConfigAssumption DEF RoundDraw, RoundOver, RoundTime, Phase
  <2> QED BY <1>1, <1>5, <2>1 DEF RoundDraw
<1>6. ~LO3Fires
  BY DEF LO3Fires, IsDue
<1> QED BY <1>3, <1>4, <1>5, <1>6

\* No round ends while a half waits.
LEMMA WaitingHalf ==
    ASSUME TypeOK, HalfWaits, NEW winner \in Team, RoundEnd(winner), m_State \in Half
    PROVE  ~Pending
<1>1. RoundTime = 0
  BY DEF RoundEnd, RoundTime
<1>2. m_Task["SET_STATE"].left \in Nat
  BY SlotTypes, SlotNames DEF SlotTasks, Task
<1> QED BY <1>1, <1>2 DEF HalfWaits

\* CPugMod::SetState enters a half with nothing asked for.
LEMMA HalfEntered ==
    ASSUME NEW s \in Half, NEW t \in SlotTasks, ~t["SET_STATE"].on, SetState(s, t)
    PROVE  ~Pending' /\ m_Task'["LO3_RESTART"].on /\ m_bGameStarted' = FALSE
<1>1. LO3Init(4, t)
  BY StatesDiffer
     DEF SetState, EnterFirstHalf, EnterKnifeRound, EnterSecondHalf, EnterOvertime, Half
<1>2. m_Task' = Create(t, "LO3_RESTART", 3, FALSE, 3) /\ m_bGameStarted' = FALSE
  BY <1>1 DEF LO3Init
<1>3. m_Task'["LO3_RESTART"].on
  BY <1>2, SlotNames, CreatedOn
<1>4. m_Task'["SET_STATE"] = t["SET_STATE"]
  BY <1>2, SlotNames, CreatedElse
<1> QED BY <1>2, <1>3, <1>4 DEF Pending

\* What fires: another state, from the slot that is switched off.
LEMMA StateFires ==
    ASSUME TypeOK, FlowInv, SetStateFires
    PROVE  /\ Pending /\ m_Task["SET_STATE"].left = 0 /\ m_Task["SET_STATE"].param \in State
           /\ SetState(m_Task["SET_STATE"].param, Rearm(m_Task, "SET_STATE"))
           /\ Rearm(m_Task, "SET_STATE") \in SlotTasks
           /\ ~Rearm(m_Task, "SET_STATE")["SET_STATE"].on
           /\ m_State' = m_Task["SET_STATE"].param
<1>1. OneShot
  BY DEF FlowInv
<1>2. m_Task["SET_STATE"].param \in State
  BY SlotTypes, SlotNames
<1>3. Rearm(m_Task, "SET_STATE") \in SlotTasks /\ ~Rearm(m_Task, "SET_STATE")["SET_STATE"].on
  BY <1>1, SlotNames, SlotsRearmed
<1> QED BY <1>2, <1>3 DEF SetStateFires, IsDue, Pending, SetState

\* Only the slot and a new level change the state.
LEMMA StateStays ==
    ASSUME Undisturbed, CountInv, FlowInv, Next, ~SetStateFires, ~ServerActivate
    PROVE  m_State' = m_State
<1>1. ServerDeactivate => m_State' = m_State
  <2>1. ServerDeactivate => m_State = STATE_VOTEMAP
    BY DEF ServerDeactivate, FlowInv, Alone
  <2>2. ~Live(STATE_VOTEMAP)
    BY StatesDiffer DEF Live
  <2> QED BY <2>1, <2>2 DEF ServerDeactivate
<1>2. Alone
  BY DEF FlowInv
<1> QED BY <1>1, <1>2, UndisturbedStep
        DEF Tick, RestartRound, RestartRoundFrozen, RoundDraw, RoundEnd, MapChangeFires,
            LO3Fires, VoteSwapFires, VoteMapStops, VoteTeamStops, VoteSwapStops, WaitEnds,
            Picks, LeaderRunsOut, LeaderPicks, PlayerJoins

LEMMA NextWaits ==
    ASSUME Undisturbed, FreezeTime >= 2
    PROVE  TypeOK /\ CountInv /\ FlowInv /\ HalfWaits /\ [Next]_vars => HalfWaits'
<1> SUFFICES ASSUME TypeOK, CountInv, FlowInv, HalfWaits, [Next]_vars,
                    m_State' \in Half, Pending'
             PROVE  ~m_Task'["LO3_RESTART"].on /\ m_Task'["SET_STATE"].left < RoundTime'
  BY DEF HalfWaits
<1>1. CASE UNCHANGED vars
  BY <1>1 DEF vars, gameVars, HalfWaits, Pending, RoundTime
<1>2. CASE SetStateFires
  BY <1>2, StateFires, HalfEntered
<1>3. ~ServerActivate
  <2>1. STATE_DEAD \notin Half
    BY StatesDiffer DEF Half
  <2> QED BY <2>1 DEF ServerActivate
<1>4. CASE Next /\ ~SetStateFires
  <2>1. m_State' = m_State /\ m_State \in Half
    BY <1>3, <1>4, StateStays
  <2>2. m_State \in MatchStates /\ ~m_Wait.run
    BY <2>1, PlayingAlone DEF Half, MatchStates, NothingRuns
  <2>3. \/ Tick \/ RestartRound \/ RoundDraw \/ LO3Fires
        \/ \E winner \in Team : RoundEnd(winner)
    BY <1>4, <2>2, MatchStep DEF WaitEnds
  <2>4. CASE Tick \/ RestartRound \/ RoundDraw \/ LO3Fires
    <3>1. Pending
      <4>1. CASE Tick
        BY <4>1, SlotTypes, SlotNames DEF Tick, Elapse, SlotTasks, Task, Pending
      <4>2. CASE RestartRound \/ RoundDraw
        BY <4>2 DEF RestartRound, RestartRoundFrozen, RoundDraw, Pending
      <4>3. CASE LO3Fires
        <5> DEFINE t == Rearm(m_Task, "LO3_RESTART")
                   restart == m_Task["LO3_RESTART"].param
        <5>1. t \in SlotTasks /\ t["SET_STATE"] = m_Task["SET_STATE"]
          BY SlotTypes, SlotNames, RearmKeeps
        <5>2. \/ m_Task' = t
              \/ m_Task' = Create(t, "LO3_RESTART", 3, FALSE, restart - 1)
          BY <4>3 DEF LO3Fires, LO3Init
        <5> HIDE DEF t, restart
        <5>3. CASE m_Task' = Create(t, "LO3_RESTART", 3, FALSE, restart - 1)
          <6>1. m_Task'["SET_STATE"] = t["SET_STATE"]
            BY <5>1, <5>3, SlotNames, CreatedElse
          <6> QED BY <5>1, <6>1 DEF Pending
        <5> QED BY <5>1, <5>2, <5>3 DEF Pending
      <4> QED BY <2>4, <4>1, <4>2, <4>3
    <3> QED BY <2>1, <2>4, <3>1, TimeWaits DEF HalfWaits
  <2>5. ASSUME NEW winner \in Team, RoundEnd(winner)
        PROVE  ~m_Task'["LO3_RESTART"].on /\ m_Task'["SET_STATE"].left < RoundTime'
    <3>1. ~Pending /\ m_Task' # m_Task
      BY <2>1, <2>5, WaitingHalf DEF Pending
    <3>2. PICK next : m_Task' = Create(m_Task, "SET_STATE", RestartDelay + 1, FALSE, next)
      BY <2>1, <2>5, <3>1, HalfRoundWrites DEF Undisturbed
    <3>3. Counts
      BY <2>5, <3>1 DEF RoundEnd
    <3>4. m_Task \in SlotTasks /\ ~m_Task["LO3_RESTART"].on
      BY <3>3, SlotTypes DEF CountInv, Undisturbed, Quiet, Counts
    <3>5. m_Task'["LO3_RESTART"] = m_Task["LO3_RESTART"]
      BY <3>2, <3>4, SlotNames, CreatedElse
    <3>6. m_Task'["SET_STATE"].left = RestartDelay + 1
      BY <3>2, <3>4, SlotNames, CreatedWith
    <3>7. m_State # STATE_KNIFE_ROUND
      BY <2>1, StatesDiffer DEF Half
    <3>8. RoundTime' = RestartDelay + FreezeTime
      BY <2>5, <3>7 DEF RoundEnd, RoundOver, RoundTime
    <3>9. RestartDelay \in Nat /\ FreezeTime \in Nat
      BY ConfigAssumption
    <3> QED BY <3>4, <3>5, <3>6, <3>8, <3>9
  <2> QED BY <2>3, <2>4, <2>5
<1> QED BY <1>1, <1>2, <1>4

LEMMA InitWaits == Init => HalfWaits
BY StatesDiffer DEF Init, HalfWaits, Half

LEMMA WaitsInvariant ==
    ASSUME Undisturbed, FreezeTime >= 2 PROVE Spec => []HalfWaits
BY InitWaits, NextWaits, TypeCorrect, CountInvariant, FlowInvariant, PTL DEF Spec

\* Between the round that completes a half or decides the match and the state change
\* it asked for (CPugMod::RoundEnd, CPugTask::Create) no further round is counted, if
\* rounds are frozen for two seconds or more (esl.cfg: 15).
THEOREM NoRoundTooMany ==
    ASSUME Undisturbed, FreezeTime >= 2 PROVE Spec => NoExtraRound
<1>1. ASSUME TypeOK, CountInv, FlowInv, HalfWaits, [Next]_vars
      PROVE  [HalfComplete /\ m_State' = m_State /\ m_Task["SET_STATE"].on
                 => GetRound(m_Score') <= GetRound(m_Score)]_vars
  <2> SUFFICES ASSUME Next, HalfComplete, m_State' = m_State, m_Task["SET_STATE"].on
               PROVE  GetRound(m_Score') <= GetRound(m_Score)
    BY <1>1
  <2> USE <1>1
  <2>1. m_State \in Half /\ m_State \in MatchStates /\ Pending
    BY DEF HalfComplete, Half, MatchStates, Pending
  <2>2. GetRound(m_Score) \in Nat
    BY ScoreNumbers DEF GetRound, GetScore
  <2>3. CASE m_Score' = m_Score
    BY <2>2, <2>3
  <2>4. CASE RestartRound /\ m_Score' # m_Score
    <3>1. m_Score' = [team \in Team |-> [m_Score[team] EXCEPT ![m_State] = 0]]
      BY <2>4 DEF RestartRound, RestartRoundFrozen, ZeroHalf, scoreVars
    <3>2. \A team \in Team, half \in Half :
             m_Score'[team][half] <= m_Score[team][half] /\ m_Score'[team][half] \in Nat
      BY <2>1, <3>1, ScoreNumbers DEF TypeOK
    <3> QED BY <3>2, ScoreNumbers DEF GetRound, GetScore
  <2>5. CASE SetStateFires
    <3>1. /\ m_State = m_Task["SET_STATE"].param
          /\ SetState(m_State, Rearm(m_Task, "SET_STATE"))
      BY <2>5, StateFires
    <3>2. \/ ClearScores
          \/ m_State = STATE_SECOND_HALF /\ ZeroHalf(STATE_SECOND_HALF)
          \/ m_Score' = m_Score
      BY <2>1, <3>1, StatesDiffer
         DEF SetState, Half, EnterFirstHalf, EnterKnifeRound, EnterSecondHalf, EnterOvertime
    <3>3. CASE ClearScores
      BY <2>2, <3>3 DEF ClearScores, ZeroScore, NoRounds, GetRound, GetScore, Team, Half
    <3>4. CASE ZeroHalf(STATE_SECOND_HALF)
      <4>1. m_Score' = [team \in Team |-> [m_Score[team] EXCEPT ![STATE_SECOND_HALF] = 0]]
        BY <3>4 DEF ZeroHalf
      <4>2. \A team \in Team, half \in Half :
               m_Score'[team][half] <= m_Score[team][half] /\ m_Score'[team][half] \in Nat
        BY <4>1, ScoreNumbers DEF TypeOK
      <4> QED BY <4>2, ScoreNumbers DEF GetRound, GetScore
    <3> QED BY <2>3, <3>2, <3>3, <3>4
  <2>6. \A winner \in Team : ~RoundEnd(winner)
    BY <2>1, WaitingHalf
  <2> QED BY <2>1, <2>3, <2>4, <2>5, <2>6, MatchStep
          DEF Tick, RoundDraw, LO3Fires, WaitEnds, scoreVars
<1> QED BY <1>1, TypeCorrect, CountInvariant, FlowInvariant, WaitsInvariant, PTL
        DEF Spec, NoExtraRound
-----------------------------------------------------------------------------
(***************************************************************************)
(* The course of a match by its rules: what may be won in each state, and  *)
(* what the state asks for.                                                *)
(***************************************************************************)
\* A match that is left alone, of two halves that are pug_rounds together.
RegularMatch == Undisturbed /\ FreezeTime >= 2 /\ Rounds % 2 = 0

\* A tie leads to an overtime: CPugMod::RoundEnd, the second half.
TiesGoOn == OvertimeType = 1 /\ RoundsOT > 1 /\ RoundsOT % 2 = 0

NextState == m_Task["SET_STATE"].param
BeforeMatch == {STATE_DEAD, STATE_DEATHMATCH, STATE_VOTEMAP, STATE_VOTETEAM,
                STATE_CAPTAIN, STATE_KNIFE_ROUND}

Unplayed(half) == \A team \in Team : m_Score[team][half] = 0
NoOvertimeYet == Unplayed(STATE_OVERTIME) /\ \A team \in Team : m_ScoreOT[team] = 0
EvenHalves == \A team \in Team : RegularScore(m_Score, team) = HalfRounds
HalvesWithin == \A team \in Team : RegularScore(m_Score, team) <= HalfRounds
EvenOT == \A team \in Team : m_ScoreOT[team] = HalfRoundsOT
WithinOT == \A team \in Team : m_ScoreOT[team] <= HalfRoundsOT
HalfOT == m_ScoreOT[TERRORIST] + m_ScoreOT[CT] = HalfRoundsOT

\* All overtimes together leave the lead that the last one has.
SameLead == m_Score[TERRORIST][STATE_OVERTIME] + m_ScoreOT[CT]
                = m_Score[CT][STATE_OVERTIME] + m_ScoreOT[TERRORIST]

BeforeRuns ==
    m_State \in BeforeMatch =>
        /\ Pending => NextState \in BeforeMatch \cup {STATE_FIRST_HALF}
        /\ m_Wait.run => m_Wait.next \in BeforeMatch

FirstRuns ==
    m_State = STATE_FIRST_HALF =>
        /\ NoOvertimeYet /\ Unplayed(STATE_SECOND_HALF)
        /\ RoundsOf(STATE_FIRST_HALF) <= HalfRounds
        /\ Pending <=> RoundsOf(STATE_FIRST_HALF) = HalfRounds
        /\ Pending => NextState = STATE_HALFTIME
        /\ m_Task["LO3_RESTART"].on => Unplayed(STATE_FIRST_HALF)

\* The break between the halves, and one of an overtime.
FirstBreak == /\ NoOvertimeYet /\ Unplayed(STATE_SECOND_HALF)
              /\ RoundsOf(STATE_FIRST_HALF) = HalfRounds
LaterBreak == /\ TiesGoOn /\ EvenHalves /\ SameLead /\ WithinOT
              /\ HalfOT \/ m_ScoreOT[TERRORIST] = m_ScoreOT[CT]
AfterBreak == IF GetRound(m_Score) < Rounds THEN STATE_SECOND_HALF ELSE STATE_OVERTIME

BreakRuns ==
    m_State = STATE_HALFTIME =>
        /\ FirstBreak \/ LaterBreak
        /\ Pending => NextState = AfterBreak
        /\ m_Wait.run => m_Wait.next = AfterBreak

SecondRuns ==
    m_State = STATE_SECOND_HALF =>
        /\ NoOvertimeYet /\ RoundsOf(STATE_FIRST_HALF) = HalfRounds
        /\ Pending => \/ NextState = STATE_END /\ (TiesGoOn => ~HalvesWithin)
                      \/ NextState = STATE_HALFTIME /\ EvenHalves /\ TiesGoOn
        /\ ~Pending => HalvesWithin /\ (TiesGoOn => ~EvenHalves)
        /\ m_Task["LO3_RESTART"].on => Unplayed(STATE_SECOND_HALF)

OvertimeRuns ==
    m_State = STATE_OVERTIME =>
        /\ TiesGoOn /\ EvenHalves /\ SameLead
        /\ Pending => \/ NextState = STATE_END /\ ~WithinOT
                      \/ NextState = STATE_HALFTIME /\ WithinOT /\ (HalfOT \/ EvenOT)
        /\ ~Pending => WithinOT /\ ~EvenOT

EndRuns ==
    m_State = STATE_END /\ Pending => NextState \in {STATE_DEATHMATCH, STATE_VOTEMAP}

\* The inductive invariant, next to FlowInv, ScoreInv and HalfWaits.
CourseInv == /\ BeforeRuns /\ FirstRuns /\ BreakRuns
             /\ SecondRuns /\ OvertimeRuns /\ EndRuns
-----------------------------------------------------------------------------
\* The rounds of a match, as numbers.
LEMMA RoundNumbers ==
    ASSUME TypeOK, Rounds % 2 = 0
    PROVE  /\ Rounds = 2 * HalfRounds
           /\ \A half \in Half : RoundsOf(half) \in Nat
           /\ \A team \in Team : RegularScore(m_Score, team) \in Nat
           /\ GetRound(m_Score) = RoundsOf(STATE_FIRST_HALF) + RoundsOf(STATE_SECOND_HALF)
                                      + RoundsOf(STATE_OVERTIME)
           /\ RegularScore(m_Score, TERRORIST) + RegularScore(m_Score, CT)
                = RoundsOf(STATE_FIRST_HALF) + RoundsOf(STATE_SECOND_HALF)
           /\ TiesGoOn => HalfRoundsOT >= 1
<1>1. Rounds = 2 * HalfRounds /\ (TiesGoOn => HalfRoundsOT >= 1)
  BY ConfigAssumption DEF HalfRounds, HalfRoundsOT, TiesGoOn
<1>2. \A half \in Half : RoundsOf(half) \in Nat
  BY ScoreNumbers DEF RoundsOf
<1> QED BY <1>1, <1>2, ScoreNumbers DEF RoundsOf, RegularScore, GetRound, GetScore

\* Callbacks that leave the scores and the request alone.
LEMMA CourseKept ==
    ASSUME CourseInv, UNCHANGED <<m_State, m_Score, m_ScoreOT>>,
           m_Task'["SET_STATE"].on = m_Task["SET_STATE"].on,
           m_Task'["SET_STATE"].param = m_Task["SET_STATE"].param,
           m_Task'["LO3_RESTART"].on => m_Task["LO3_RESTART"].on,
           m_Wait'.run => m_Wait' = m_Wait
    PROVE  CourseInv'
<1>1. /\ Pending' = Pending /\ NextState' = NextState
      /\ \A half : RoundsOf(half)' = RoundsOf(half) /\ Unplayed(half)' = Unplayed(half)
      /\ NoOvertimeYet' = NoOvertimeYet /\ EvenHalves' = EvenHalves
      /\ HalvesWithin' = HalvesWithin
      /\ EvenOT' = EvenOT /\ WithinOT' = WithinOT /\ HalfOT' = HalfOT
      /\ SameLead' = SameLead /\ AfterBreak' = AfterBreak
  BY DEF Pending, NextState, RoundsOf, Unplayed, NoOvertimeYet, EvenHalves, HalvesWithin,
     EvenOT, WithinOT, HalfOT, SameLead, AfterBreak
<1>2. FirstBreak' = FirstBreak /\ LaterBreak' = LaterBreak
  BY <1>1 DEF FirstBreak, LaterBreak
<1>3. BeforeRuns'
  BY <1>1 DEF CourseInv, BeforeRuns
<1>4. FirstRuns'
  BY <1>1 DEF CourseInv, FirstRuns
<1>5. BreakRuns'
  BY <1>1, <1>2 DEF CourseInv, BreakRuns
<1>6. SecondRuns'
  BY <1>1 DEF CourseInv, SecondRuns
<1>7. OvertimeRuns'
  BY <1>1 DEF CourseInv, OvertimeRuns
<1>8. EndRuns'
  BY <1>1 DEF CourseInv, EndRuns
<1> QED BY <1>3, <1>4, <1>5, <1>6, <1>7, <1>8 DEF CourseInv

\* A phase before the match asks for another one, or for the first half.
LEMMA BeforeAsks ==
    ASSUME m_State \in BeforeMatch, m_State' = m_State, ~m_Wait'.run,
           NEW t \in SlotTasks, NEW delay, NEW next \in BeforeMatch \cup {STATE_FIRST_HALF},
           m_Task' = Create(t, "SET_STATE", delay, FALSE, next)
    PROVE  CourseInv'
<1>1. NextState' = next
  BY SlotNames, CreatedWith DEF NextState
<1>2. m_State \notin {STATE_FIRST_HALF, STATE_HALFTIME, STATE_SECOND_HALF,
                      STATE_OVERTIME, STATE_END}
  BY StatesDiffer DEF BeforeMatch
<1> QED BY <1>1, <1>2
        DEF CourseInv, BeforeRuns, FirstRuns, BreakRuns, SecondRuns, OvertimeRuns, EndRuns

\* Nothing is asked for by CPugLO3, which only restarts rounds.
LEMMA LO3FiresKeeps ==
    ASSUME TypeOK, LO3Fires
    PROVE  /\ m_Task'["SET_STATE"] = m_Task["SET_STATE"]
           /\ m_Task["LO3_RESTART"].on
<1> DEFINE t == Rearm(m_Task, "LO3_RESTART")
           restart == m_Task["LO3_RESTART"].param
<1>1. t \in SlotTasks /\ t["SET_STATE"] = m_Task["SET_STATE"]
  BY SlotTypes, SlotNames, RearmKeeps
<1>2. \/ m_Task' = t
      \/ m_Task' = Create(t, "LO3_RESTART", 3, FALSE, restart - 1)
  BY DEF LO3Fires, LO3Init
<1>3. m_Task["LO3_RESTART"].on
  BY DEF LO3Fires, IsDue
<1> HIDE DEF t, restart
<1>4. CASE m_Task' = Create(t, "LO3_RESTART", 3, FALSE, restart - 1)
  BY <1>1, <1>3, <1>4, SlotNames, CreatedElse
<1> QED BY <1>1, <1>2, <1>3, <1>4

\* The restarts of a half that has begun clear nothing: it has no rounds yet.
LEMMA RestartKeeps ==
    ASSUME TypeOK, CountInv, CourseInv, RestartRound
    PROVE  UNCHANGED <<m_Score, m_ScoreOT>>
<1>1. CASE /\ m_bCompleteReset /\ m_State \in {STATE_FIRST_HALF, STATE_SECOND_HALF}
           /\ ZeroHalf(m_State)
  <2>1. m_State \in Half /\ Playing(m_State) /\ Up
    BY <1>1 DEF Half, Playing, RestartRound, RestartRoundFrozen
  <2>2. m_Task["LO3_RESTART"].on
    BY <1>1, <2>1 DEF CountInv, LO3EndsLive, Counts
  <2>3. Unplayed(m_State)
    BY <1>1, <2>2 DEF CourseInv, FirstRuns, SecondRuns
  <2>4. m_Score \in [Team -> [Half -> Nat]]
    BY DEF TypeOK
  <2>5. \A team \in Team : [m_Score[team] EXCEPT ![m_State] = 0] = m_Score[team]
    BY <2>1, <2>3, <2>4 DEF Unplayed
  <2>6. [team \in Team |-> [m_Score[team] EXCEPT ![m_State] = 0]] = m_Score
    BY <2>4, <2>5
  <2> QED BY <1>1, <2>6 DEF ZeroHalf
<1> QED BY <1>1 DEF RestartRound, RestartRoundFrozen, scoreVars

\* What a round does to the rounds of its half.
LEMMA RoundAdds ==
    ASSUME TypeOK, NEW winner \in Team, m_State \in Half, CountRound(winner)
    PROVE  /\ \A half \in Half : half # m_State => /\ RoundsOf(half)' = RoundsOf(half)
                                                   /\ Unplayed(half)' = Unplayed(half)
           /\ \A half \in Half : half = m_State => RoundsOf(half)' = RoundsOf(half) + 1
           /\ m_State # STATE_OVERTIME =>
                 /\ m_ScoreOT' = m_ScoreOT
                 /\ \A team \in Team :
                       RegularScore(m_Score, team)'
                           = RegularScore(m_Score, team) + (IF team = winner THEN 1 ELSE 0)
           /\ m_State = STATE_OVERTIME =>
                 /\ \A team \in Team :
                       /\ RegularScore(m_Score, team)' = RegularScore(m_Score, team)
                       /\ m_ScoreOT'[team] = m_ScoreOT[team] + (IF team = winner THEN 1 ELSE 0)
                 /\ SameLead => SameLead'
<1>1. \A team \in Team, half \in Half :
         m_Score'[team][half] = m_Score[team][half]
                    + (IF team = winner /\ half = m_State THEN 1 ELSE 0)
  BY RoundCounted
<1>2. \A team \in Team :
         m_ScoreOT'[team] = m_ScoreOT[team]
                    + (IF team = winner /\ m_State = STATE_OVERTIME THEN 1 ELSE 0)
  BY RoundCounted
<1>3. \A half \in Half : half # m_State => /\ RoundsOf(half)' = RoundsOf(half)
                                           /\ Unplayed(half)' = Unplayed(half)
  BY <1>1, ScoreNumbers DEF RoundsOf, Unplayed
<1>4. \A half \in Half : half = m_State => RoundsOf(half)' = RoundsOf(half) + 1
  BY <1>1, ScoreNumbers DEF RoundsOf
<1>5. m_State # STATE_OVERTIME => m_ScoreOT' = m_ScoreOT
  BY DEF CountRound
<1>6. \A team \in Team : RegularScore(m_Score, team)' = RegularScore(m_Score, team)
         + (IF team = winner /\ m_State # STATE_OVERTIME THEN 1 ELSE 0)
  BY <1>1, ScoreNumbers, StatesDiffer DEF RegularScore
<1>7. m_State = STATE_OVERTIME /\ SameLead => SameLead'
  BY <1>1, <1>2, ScoreNumbers DEF SameLead
<1>8. \A team \in Team : RegularScore(m_Score, team) \in Nat
  BY ScoreNumbers DEF RegularScore
<1> QED BY <1>2, <1>3, <1>4, <1>5, <1>6, <1>7, <1>8, ScoreNumbers

\* A callback that asks for a state has asked for that one.
LEMMA AsksOn ==
    ASSUME TypeOK, NEW delay, NEW next, m_Task' = Create(m_Task, "SET_STATE", delay, FALSE, next)
    PROVE  Pending' /\ m_Task'["LO3_RESTART"].on = m_Task["LO3_RESTART"].on
<1>1. m_Task'["SET_STATE"].on
  BY SlotTypes, SlotNames, CreatedOn
<1>2. m_Task'["LO3_RESTART"] = m_Task["LO3_RESTART"]
  BY SlotTypes, SlotNames, CreatedElse
<1> QED BY <1>1, <1>2 DEF Pending

LEMMA AsksFor ==
    ASSUME TypeOK, NEW delay, NEW next, m_Task' = Create(m_Task, "SET_STATE", delay, FALSE, next)
    PROVE  NextState' = next
BY SlotTypes, SlotNames, CreatedWith DEF NextState

\* A round that counts in the first half.
LEMMA FirstCounts ==
    ASSUME TypeOK, RegularMatch, CountInv, CourseInv, NEW winner \in Team,
           m_State = STATE_FIRST_HALF, m_State' = m_State, CountRound(winner), ~Pending,
           ~m_Task["LO3_RESTART"].on
    PROVE  FirstRuns'
<1>1. m_State \in Half
  BY DEF Half
<1>2. /\ NoOvertimeYet /\ Unplayed(STATE_SECOND_HALF)
      /\ RoundsOf(STATE_FIRST_HALF) <= HalfRounds /\ RoundsOf(STATE_FIRST_HALF) # HalfRounds
  BY DEF CourseInv, FirstRuns
<1>3. /\ Unplayed(STATE_OVERTIME)' /\ Unplayed(STATE_SECOND_HALF)' /\ m_ScoreOT' = m_ScoreOT
      /\ RoundsOf(STATE_FIRST_HALF)' = RoundsOf(STATE_FIRST_HALF) + 1
  BY <1>1, <1>2, RoundAdds, StatesDiffer DEF NoOvertimeYet, Half
<1>4. RoundsOf(STATE_FIRST_HALF) \in Nat /\ HalfRounds \in Nat
  BY RoundNumbers, ScoreNumbers DEF RegularMatch
<1>5. RoundsOf(STATE_FIRST_HALF)' <= HalfRounds
  BY <1>2, <1>3, <1>4
<1>6. m_Task' = IF RoundsOf(STATE_FIRST_HALF)' = HalfRounds
                THEN Create(m_Task, "SET_STATE", RestartDelay + 1, FALSE, STATE_HALFTIME)
                ELSE m_Task
  BY <1>1, RoundCounted DEF AfterFirstHalf, RoundsOf
<1>7. CASE RoundsOf(STATE_FIRST_HALF)' = HalfRounds
  <2>1. m_Task' = Create(m_Task, "SET_STATE", RestartDelay + 1, FALSE, STATE_HALFTIME)
    BY <1>6, <1>7
  <2>2. NextState' = STATE_HALFTIME
    BY <2>1, AsksFor
  <2>3. Pending' /\ ~m_Task'["LO3_RESTART"].on
    BY <2>1, AsksOn
  <2> QED BY <1>2, <1>3, <1>5, <1>7, <2>2, <2>3 DEF FirstRuns, NoOvertimeYet
<1>8. CASE RoundsOf(STATE_FIRST_HALF)' # HalfRounds
  <2>1. m_Task' = m_Task
    BY <1>6, <1>8
  <2>2. ~Pending' /\ ~m_Task'["LO3_RESTART"].on
    BY <2>1 DEF Pending
  <2> QED BY <1>2, <1>3, <1>5, <1>8, <2>2 DEF FirstRuns, NoOvertimeYet
<1> QED BY <1>7, <1>8

\* A round that counts in the second half.
LEMMA SecondCounts ==
    ASSUME TypeOK, RegularMatch, CountInv, CourseInv, NEW winner \in Team,
           m_State = STATE_SECOND_HALF, m_State' = m_State, CountRound(winner), ~Pending,
           ~m_Task["LO3_RESTART"].on
    PROVE  SecondRuns'
<1>1. m_State \in Half
  BY DEF Half
<1>2. /\ NoOvertimeYet /\ RoundsOf(STATE_FIRST_HALF) = HalfRounds
      /\ HalvesWithin /\ (TiesGoOn => ~EvenHalves)
  BY DEF CourseInv, SecondRuns
<1>3. /\ Unplayed(STATE_OVERTIME)' /\ m_ScoreOT' = m_ScoreOT
      /\ RoundsOf(STATE_FIRST_HALF)' = HalfRounds
  BY <1>1, <1>2, RoundAdds, StatesDiffer DEF NoOvertimeYet, Half
<1>4. NoOvertimeYet'
  BY <1>2, <1>3 DEF NoOvertimeYet
<1>5. m_Task' = AfterSecondHalf(m_Score', m_Task)
  BY <1>1, RoundCounted
<1>6. /\ \A team \in Team : RegularScore(m_Score', team) \in Nat
      /\ HalfRounds \in Nat
  BY <1>1, RoundAdds, RoundNumbers, ScoreNumbers, StatesDiffer DEF RegularMatch
<1>7. /\ EvenHalves' <=> \A team \in Team : RegularScore(m_Score', team) = HalfRounds
      /\ HalvesWithin' <=> ~\E team \in Team : RegularScore(m_Score', team) > HalfRounds
  BY <1>6 DEF EvenHalves, HalvesWithin
<1>8. ASSUME NEW next, m_Task' = Create(m_Task, "SET_STATE", RestartDelay + 1, FALSE, next),
             \/ next = STATE_END /\ (TiesGoOn => ~HalvesWithin')
             \/ next = STATE_HALFTIME /\ EvenHalves' /\ TiesGoOn
      PROVE  SecondRuns'
  <2>1. NextState' = next
    BY <1>8, AsksFor
  <2>2. Pending' /\ ~m_Task'["LO3_RESTART"].on
    BY <1>8, AsksOn
  <2> QED BY <1>3, <1>4, <1>8, <2>1, <2>2 DEF SecondRuns
<1>9. ASSUME m_Task' = m_Task, HalvesWithin', TiesGoOn => ~EvenHalves'
      PROVE  SecondRuns'
  <2>1. ~Pending' /\ ~m_Task'["LO3_RESTART"].on
    BY <1>9 DEF Pending
  <2> QED BY <1>3, <1>4, <1>9, <2>1 DEF SecondRuns
<1>10. CASE ~HalvesWithin'
  <2>1. m_Task' = Create(m_Task, "SET_STATE", RestartDelay + 1, FALSE, STATE_END)
    BY <1>5, <1>7, <1>10 DEF AfterSecondHalf
  <2> QED BY <1>8, <1>10, <2>1
<1>11. CASE HalvesWithin' /\ EvenHalves' /\ RoundsOT > 1 /\ RoundsOT % 2 = 0
  <2>1. m_Task' = CASE OvertimeType = 0 ->
                        Create(m_Task, "VOTE_OVERTIME", RestartDelay + 1, FALSE, 0)
                    [] OvertimeType = 1 ->
                        Create(m_Task, "SET_STATE", RestartDelay + 1, FALSE, STATE_HALFTIME)
                    [] OvertimeType = 2 ->
                        Create(m_Task, "SET_STATE", RestartDelay + 1, FALSE, STATE_END)
                    [] OvertimeType = 3 -> m_Task
    BY <1>5, <1>7, <1>11 DEF AfterSecondHalf
  <2>2. OvertimeType \in {1, 2, 3}
    BY ConfigAssumption DEF RegularMatch, Undisturbed
  <2>3. CASE OvertimeType = 1
    <3>1. m_Task' = Create(m_Task, "SET_STATE", RestartDelay + 1, FALSE, STATE_HALFTIME)
      BY <2>1, <2>3
    <3> QED BY <1>8, <1>11, <2>3, <3>1 DEF TiesGoOn
  <2>4. CASE OvertimeType = 2
    <3>1. m_Task' = Create(m_Task, "SET_STATE", RestartDelay + 1, FALSE, STATE_END)
      BY <2>1, <2>4
    <3>2. ~TiesGoOn
      BY <2>4 DEF TiesGoOn
    <3> QED BY <1>8, <3>1, <3>2
  <2>5. CASE OvertimeType = 3
    <3>1. m_Task' = m_Task
      BY <2>1, <2>5
    <3> QED BY <1>9, <1>11, <2>5, <3>1 DEF TiesGoOn
  <2> QED BY <2>2, <2>3, <2>4, <2>5
<1>12. CASE HalvesWithin' /\ ~(EvenHalves' /\ RoundsOT > 1 /\ RoundsOT % 2 = 0)
  <2>1. m_Task' = m_Task
    BY <1>5, <1>7, <1>12 DEF AfterSecondHalf
  <2> QED BY <1>9, <1>12, <2>1 DEF TiesGoOn
<1> QED BY <1>10, <1>11, <1>12

\* A round that counts in an overtime.
LEMMA OvertimeCounts ==
    ASSUME TypeOK, RegularMatch, CountInv, CourseInv, NEW winner \in Team,
           m_State = STATE_OVERTIME, m_State' = m_State, CountRound(winner), ~Pending
    PROVE  OvertimeRuns'
<1>1. m_State \in Half
  BY DEF Half
<1>2. TiesGoOn /\ EvenHalves /\ SameLead /\ WithinOT /\ ~EvenOT
  BY DEF CourseInv, OvertimeRuns
<1>3. EvenHalves' /\ SameLead'
  BY <1>1, <1>2, RoundAdds DEF EvenHalves
<1>4. m_Task' = AfterOvertime(m_ScoreOT', m_Task)
  BY <1>1, RoundCounted
<1>5. /\ \A team \in Team : m_ScoreOT'[team] \in Nat
      /\ HalfRoundsOT \in Nat /\ HalfRoundsOT >= 1 /\ Team = {TERRORIST, CT}
  BY <1>1, <1>2, RoundAdds, RoundNumbers, ScoreNumbers DEF RegularMatch
<1>6. /\ EvenOT' <=> \A team \in Team : m_ScoreOT'[team] = HalfRoundsOT
      /\ WithinOT' <=> ~\E team \in Team : m_ScoreOT'[team] > HalfRoundsOT
      /\ HalfOT' <=> m_ScoreOT'[TERRORIST] + m_ScoreOT'[CT] = HalfRoundsOT
      /\ HalfOT' => WithinOT'
  BY <1>5 DEF EvenOT, WithinOT, HalfOT
<1>7. ASSUME NEW next, m_Task' = Create(m_Task, "SET_STATE", RestartDelay + 1, FALSE, next),
             \/ next = STATE_END /\ ~WithinOT'
             \/ next = STATE_HALFTIME /\ WithinOT' /\ (HalfOT' \/ EvenOT')
      PROVE  OvertimeRuns'
  <2>1. NextState' = next
    BY <1>7, AsksFor
  <2>2. Pending'
    BY <1>7, AsksOn
  <2> QED BY <1>2, <1>3, <1>7, <2>1, <2>2 DEF OvertimeRuns
<1>8. CASE HalfOT'
  <2>1. m_Task' = Create(m_Task, "SET_STATE", RestartDelay + 1, FALSE, STATE_HALFTIME)
    BY <1>4, <1>6, <1>8 DEF AfterOvertime
  <2> QED BY <1>6, <1>7, <1>8, <2>1
<1>9. CASE ~HalfOT' /\ ~WithinOT'
  <2>1. m_Task' = Create(m_Task, "SET_STATE", RestartDelay + 1, FALSE, STATE_END)
    BY <1>4, <1>6, <1>9 DEF AfterOvertime
  <2> QED BY <1>7, <1>9, <2>1
<1>10. CASE ~HalfOT' /\ WithinOT' /\ EvenOT'
  <2>1. m_Task' = Create(m_Task, "SET_STATE", RestartDelay + 1, FALSE, STATE_HALFTIME)
    <3>1. OvertimeType # 0
      BY <1>2 DEF TiesGoOn
    <3>2. /\ ~(m_ScoreOT'[TERRORIST] + m_ScoreOT'[CT] = HalfRoundsOT)
          /\ ~\E team \in Team : m_ScoreOT'[team] > HalfRoundsOT
          /\ \A team \in Team : m_ScoreOT'[team] = HalfRoundsOT
      BY <1>6, <1>10
    <3> QED BY <1>4, <3>1, <3>2 DEF AfterOvertime
  <2> QED BY <1>7, <1>10, <2>1
<1>11. CASE ~HalfOT' /\ WithinOT' /\ ~EvenOT'
  <2>1. m_Task' = m_Task
    BY <1>4, <1>6, <1>11 DEF AfterOvertime
  <2>2. ~Pending'
    BY <2>1 DEF Pending
  <2> QED BY <1>2, <1>3, <1>11, <2>2 DEF OvertimeRuns
<1> QED BY <1>8, <1>9, <1>10, <1>11

\* The swap of sides at halftime leaves the rounds of the match as they are.
LEMMA SwapKeeps ==
    ASSUME TypeOK, SwapTeams
    PROVE  /\ GetRound(m_Score') = GetRound(m_Score)
           /\ FirstBreak => FirstBreak'
           /\ LaterBreak => LaterBreak'
<1>1. \/ /\ \A team \in Team : m_Score'[team] = m_Score[Other(team)]
         /\ \A team \in Team : m_ScoreOT'[team] = m_ScoreOT[Other(team)]
      \/ UNCHANGED <<m_Score, m_ScoreOT>>
  BY DEF SwapTeams, SwapSides, scoreVars
<1>2. Other(TERRORIST) = CT /\ Other(CT) = TERRORIST
  BY ScoreNumbers DEF Other
<1>3. \/ /\ m_Score'[TERRORIST] = m_Score[CT] /\ m_Score'[CT] = m_Score[TERRORIST]
         /\ m_ScoreOT'[TERRORIST] = m_ScoreOT[CT] /\ m_ScoreOT'[CT] = m_ScoreOT[TERRORIST]
      \/ UNCHANGED <<m_Score, m_ScoreOT>>
  BY <1>1, <1>2, ScoreNumbers
<1>4. GetRound(m_Score') = GetRound(m_Score)
  <2>1. GetScore(m_Score, TERRORIST) \in Nat /\ GetScore(m_Score, CT) \in Nat
    BY ScoreNumbers DEF GetScore
  <2>2. \/ /\ GetScore(m_Score', TERRORIST) = GetScore(m_Score, CT)
           /\ GetScore(m_Score', CT) = GetScore(m_Score, TERRORIST)
        \/ m_Score' = m_Score
    BY <1>3 DEF GetScore
  <2> QED BY <2>1, <2>2 DEF GetRound
<1>5. /\ RoundsOf(STATE_FIRST_HALF)' = RoundsOf(STATE_FIRST_HALF)
      /\ Unplayed(STATE_SECOND_HALF)' = Unplayed(STATE_SECOND_HALF)
      /\ NoOvertimeYet' = NoOvertimeYet
  BY <1>3, ScoreNumbers DEF RoundsOf, Unplayed, NoOvertimeYet
<1>6. EvenHalves' = EvenHalves /\ WithinOT' = WithinOT
  BY <1>3, ScoreNumbers DEF EvenHalves, WithinOT, RegularScore
<1>7. /\ SameLead' = SameLead /\ HalfOT' = HalfOT
      /\ (m_ScoreOT[TERRORIST] = m_ScoreOT[CT])' = (m_ScoreOT[TERRORIST] = m_ScoreOT[CT])
  BY <1>3, ScoreNumbers DEF SameLead, HalfOT
<1>8. FirstBreak => FirstBreak'
  BY <1>5 DEF FirstBreak
<1>9. LaterBreak => LaterBreak'
  BY <1>6, <1>7 DEF LaterBreak
<1> QED BY <1>4, <1>8, <1>9

\* CPugMod::SetState(STATE_HALFTIME): what follows goes by the rounds of the match.
LEMMA BreakEntered ==
    ASSUME TypeOK, NEW t \in SlotTasks, ~t["SET_STATE"].on, ~m_Wait.run,
           EnterHalftime(t), FirstBreak \/ LaterBreak
    PROVE  BreakRuns'
<1> DEFINE next == IF GetRound(m_Score) < Rounds THEN STATE_SECOND_HALF ELSE STATE_OVERTIME
           few == PlayerCount < 2 * PlayersMin
<1>1. /\ SwapTeams
      /\ m_Wait' = IF few /\ ReadyType # 0 THEN Waiting(next) ELSE m_Wait
      /\ m_Task' = IF few THEN t ELSE Create(t, "SET_STATE", 3, FALSE, next)
  BY DEF EnterHalftime
<1>2. AfterBreak' = next
  BY <1>1, SwapKeeps DEF AfterBreak
<1>3. FirstBreak' \/ LaterBreak'
  BY <1>1, SwapKeeps
<1> HIDE DEF next, few
<1>4. m_Wait'.run => m_Wait'.next = next
  BY <1>1 DEF Waiting
<1>5. Pending' => NextState' = next
  <2>1. CASE few
    BY <1>1, <2>1 DEF Pending
  <2>2. CASE ~few
    BY <1>1, <2>2, SlotNames, CreatedWith DEF NextState
  <2> QED BY <2>1, <2>2
<1> QED BY <1>2, <1>3, <1>4, <1>5 DEF BreakRuns

\* At the first break half of the rounds are played.
LEMMA FirstBreakRounds ==
    ASSUME TypeOK, RegularMatch, FirstBreak PROVE GetRound(m_Score) < Rounds
<1>1. Rounds = 2 * HalfRounds /\ HalfRounds \in Nat /\ HalfRounds >= 1
  BY RoundNumbers, ScoreNumbers DEF RegularMatch
<1>2. /\ RoundsOf(STATE_FIRST_HALF) = HalfRounds
      /\ Unplayed(STATE_SECOND_HALF) /\ Unplayed(STATE_OVERTIME)
  BY DEF FirstBreak, NoOvertimeYet
<1>3. RoundsOf(STATE_SECOND_HALF) = 0 /\ RoundsOf(STATE_OVERTIME) = 0
  BY <1>2, ScoreNumbers DEF RoundsOf, Unplayed
<1>4. GetRound(m_Score) = HalfRounds
  BY <1>1, <1>2, <1>3, RoundNumbers DEF RegularMatch
<1> QED BY <1>1, <1>4

\* What a break leads to.
LEMMA BreakLeadsTo ==
    ASSUME TypeOK, RegularMatch, FirstBreak \/ LaterBreak
    PROVE  /\ AfterBreak = STATE_SECOND_HALF => FirstBreak
           /\ AfterBreak = STATE_OVERTIME => LaterBreak
<1>1. Rounds = 2 * HalfRounds /\ HalfRounds \in Nat /\ HalfRounds >= 1
  BY RoundNumbers, ScoreNumbers DEF RegularMatch
<1>2. ASSUME FirstBreak PROVE AfterBreak = STATE_SECOND_HALF
  BY <1>2, FirstBreakRounds DEF AfterBreak
<1>3. ASSUME LaterBreak PROVE AfterBreak = STATE_OVERTIME
  <2>1. /\ RegularScore(m_Score, TERRORIST) = HalfRounds
        /\ RegularScore(m_Score, CT) = HalfRounds
    BY <1>3, ScoreNumbers DEF LaterBreak, EvenHalves
  <2>2. RoundsOf(STATE_OVERTIME) \in Nat
    BY ScoreNumbers, RoundNumbers DEF RegularMatch
  <2>3. GetRound(m_Score) >= Rounds /\ GetRound(m_Score) \in Nat /\ Rounds \in Nat
    BY <1>1, <2>1, <2>2, RoundNumbers DEF RegularMatch
  <2> QED BY <2>3 DEF AfterBreak
<1>4. STATE_SECOND_HALF # STATE_OVERTIME
  BY StatesDiffer
<1> QED BY <1>2, <1>3, <1>4

\* CPugMod::SetState of a state that clears the scores.
LEMMA FirstEntered ==
    ASSUME TypeOK', ClearScores, m_State' = STATE_FIRST_HALF, ~Pending'
    PROVE  CourseInv'
<1>1. \A team \in Team : /\ m_ScoreOT'[team] = 0
                         /\ \A half \in Half : m_Score'[team][half] = 0
  BY DEF ClearScores, ZeroScore, ZeroOT, NoRounds
<1>2. /\ NoOvertimeYet' /\ Unplayed(STATE_SECOND_HALF)' /\ Unplayed(STATE_FIRST_HALF)'
  BY <1>1 DEF NoOvertimeYet, Unplayed, Half
<1>3. RoundsOf(STATE_FIRST_HALF)' = 0
  BY <1>1 DEF RoundsOf, Half, Team
<1>4. HalfRounds \in Nat /\ HalfRounds >= 1
  BY ConfigAssumption DEF HalfRounds
<1>5. FirstRuns'
  BY <1>2, <1>3, <1>4 DEF FirstRuns
<1>6. m_State' \notin BeforeMatch /\ m_State' \notin {STATE_HALFTIME, STATE_SECOND_HALF,
                                                      STATE_OVERTIME, STATE_END}
  BY StatesDiffer DEF BeforeMatch
<1> QED BY <1>5, <1>6
        DEF CourseInv, BeforeRuns, BreakRuns, SecondRuns, OvertimeRuns, EndRuns

\* The team vote leads to the captains, the knife round or the match.
LEMMA TeamAsks ==
    ASSUME NEW type, NEW t, ChangeTeam(type, t)
    PROVE  \E next \in BeforeMatch \cup {STATE_FIRST_HALF} :
               m_Task' = Create(t, "SET_STATE", 2, FALSE, next)
<1> DEFINE next == CASE type = VOTE_TEAM_CAPTAIN -> STATE_CAPTAIN
                     [] type = VOTE_TEAM_KNIFE_ROUND -> STATE_KNIFE_ROUND
                     [] OTHER -> IF KnifeRound THEN STATE_KNIFE_ROUND ELSE STATE_FIRST_HALF
<1>1. m_Task' = Create(t, "SET_STATE", 2, FALSE, next)
  BY DEF ChangeTeam
<1>2. next \in {STATE_CAPTAIN, STATE_KNIFE_ROUND, STATE_FIRST_HALF}
  BY DEF VOTE_TEAM_CAPTAIN, VOTE_TEAM_KNIFE_ROUND
<1>3. next \in BeforeMatch \cup {STATE_FIRST_HALF}
  BY <1>2 DEF BeforeMatch
<1> HIDE DEF next
<1> QED BY <1>1, <1>3

\* CPugMod::SetState of what follows the match, or precedes it.
LEMMA BeforeEntered ==
    ASSUME NEW s \in BeforeMatch, NEW t \in SlotTasks, ~t["SET_STATE"].on, SetState(s, t)
    PROVE  CourseInv'
<1>1. m_State' = s /\ s \notin {STATE_FIRST_HALF, STATE_HALFTIME, STATE_SECOND_HALF,
                                STATE_OVERTIME, STATE_END}
  BY StatesDiffer DEF SetState, BeforeMatch
<1>2. ASSUME ~Pending' \/ NextState' \in BeforeMatch \cup {STATE_FIRST_HALF},
             m_Wait'.run => m_Wait'.next \in BeforeMatch
      PROVE  CourseInv'
  BY <1>1, <1>2
     DEF CourseInv, BeforeRuns, FirstRuns, BreakRuns, SecondRuns, OvertimeRuns, EndRuns
<1>3. ASSUME NEW next \in BeforeMatch \cup {STATE_FIRST_HALF}, NEW delay,
             m_Task' = Create(t, "SET_STATE", delay, FALSE, next)
      PROVE  NextState' \in BeforeMatch \cup {STATE_FIRST_HALF}
  BY <1>3, SlotNames, CreatedWith DEF NextState
<1>4. m_Task' = t => ~Pending'
  BY DEF Pending
<1>5. ~Idle.run
  BY DEF Idle
<1>6. CASE s = STATE_DEAD
  <2>1. EnterDead(t)
    BY <1>6, StatesDiffer DEF SetState
  <2> QED BY <1>2, <1>4, <1>5, <2>1 DEF EnterDead, StopWaiting
<1>7. CASE s = STATE_DEATHMATCH
  <2>1. EnterDeathmatch(t)
    BY <1>7, StatesDiffer DEF SetState
  <2>2. m_Wait'.run => m_Wait'.next \in {STATE_VOTEMAP, STATE_VOTETEAM}
    BY <1>5, <2>1 DEF EnterDeathmatch, Waiting
  <2> QED BY <1>2, <1>4, <2>1, <2>2 DEF EnterDeathmatch, BeforeMatch
<1>8. CASE s = STATE_VOTEMAP
  <2>1. EnterVoteMap(t)
    BY <1>8, StatesDiffer DEF SetState
  <2>2. \/ m_Task' = t
        \/ m_Task' = Create(t, "SET_STATE", 1, FALSE, STATE_VOTETEAM)
    BY <2>1 DEF EnterVoteMap
  <2>3. ~m_Wait'.run
    BY <1>5, <2>1 DEF EnterVoteMap, StopWaiting
  <2>4. STATE_VOTETEAM \in BeforeMatch
    BY DEF BeforeMatch
  <2> QED BY <1>2, <1>3, <1>4, <2>2, <2>3, <2>4
<1>9. CASE s = STATE_VOTETEAM
  <2>1. EnterVoteTeam(t)
    BY <1>9, StatesDiffer DEF SetState
  <2>2. \/ m_Task' = t
        \/ ChangeTeam(TeamType, t)
    BY <2>1 DEF EnterVoteTeam
  <2>3. ~m_Wait'.run
    BY <1>5, <2>1 DEF EnterVoteTeam, StopWaiting
  <2>4. CASE ChangeTeam(TeamType, t)
    BY <1>2, <1>3, <2>3, <2>4, TeamAsks
  <2> QED BY <1>2, <1>4, <2>2, <2>3, <2>4
<1>10. CASE s = STATE_CAPTAIN
  <2>1. EnterCaptain(t)
    BY <1>10, StatesDiffer DEF SetState
  <2>2. \/ m_Task' = t
        \/ m_Task' = Create(t, "SET_STATE", 2, FALSE, STATE_DEATHMATCH)
    BY <2>1 DEF EnterCaptain
  <2>3. ~m_Wait'.run
    BY <1>5, <2>1 DEF EnterCaptain, StopWaiting
  <2>4. STATE_DEATHMATCH \in BeforeMatch
    BY DEF BeforeMatch
  <2> QED BY <1>2, <1>3, <1>4, <2>2, <2>3, <2>4
<1>11. CASE s = STATE_KNIFE_ROUND
  <2>1. EnterKnifeRound(t)
    BY <1>11, StatesDiffer DEF SetState
  <2>2. m_Task' = Create(t, "LO3_RESTART", 3, FALSE, 3)
    BY <2>1 DEF EnterKnifeRound, LO3Init
  <2>3. m_Task'["SET_STATE"] = t["SET_STATE"]
    BY <2>2, SlotNames, CreatedElse
  <2>4. ~m_Wait'.run
    BY <1>5, <2>1 DEF EnterKnifeRound, StopWaiting
  <2> QED BY <1>2, <2>3, <2>4 DEF Pending
<1> QED BY <1>6, <1>7, <1>8, <1>9, <1>10, <1>11 DEF BeforeMatch

\* The end asks for the warm-up or the vote of the next map.
LEMMA EndEntered ==
    ASSUME NEW t \in SlotTasks, m_State' = STATE_END, EnterEnd(t)
    PROVE  CourseInv'
<1>1. PICK next \in {STATE_VOTEMAP, STATE_DEATHMATCH} :
         m_Task' = Create(t, "SET_STATE", RestartDelay + 1, FALSE, next)
  BY DEF EnterEnd
<1>2. NextState' = next
  BY <1>1, SlotNames, CreatedWith DEF NextState
<1>3. m_State' \notin BeforeMatch /\ m_State' \notin {STATE_FIRST_HALF, STATE_HALFTIME,
                                                     STATE_SECOND_HALF, STATE_OVERTIME}
  BY StatesDiffer DEF BeforeMatch
<1> QED BY <1>1, <1>2, <1>3
        DEF CourseInv, BeforeRuns, FirstRuns, BreakRuns, SecondRuns, OvertimeRuns, EndRuns

\* The second half begins without rounds of its own, as the break left it.
LEMMA SecondEntered ==
    ASSUME TypeOK, TypeOK', RegularMatch, NEW t, m_State' = STATE_SECOND_HALF, ~Pending',
           EnterSecondHalf(t), FirstBreak
    PROVE  CourseInv' /\ UNCHANGED <<m_Score, m_ScoreOT>>
<1>1. ZeroHalf(STATE_SECOND_HALF) /\ Unplayed(STATE_SECOND_HALF) /\ NoOvertimeYet
      /\ RoundsOf(STATE_FIRST_HALF) = HalfRounds
  BY DEF EnterSecondHalf, FirstBreak
<1>2. UNCHANGED <<m_Score, m_ScoreOT>>
  <2>1. m_Score \in [Team -> [Half -> Nat]] /\ STATE_SECOND_HALF \in Half
    BY DEF TypeOK, Half
  <2>2. \A team \in Team : [m_Score[team] EXCEPT ![STATE_SECOND_HALF] = 0] = m_Score[team]
    BY <1>1, <2>1 DEF Unplayed
  <2>3. [team \in Team |-> [m_Score[team] EXCEPT ![STATE_SECOND_HALF] = 0]] = m_Score
    BY <2>1, <2>2
  <2> QED BY <1>1, <2>3 DEF ZeroHalf
<1>3. /\ Unplayed(STATE_SECOND_HALF)' /\ NoOvertimeYet'
      /\ RoundsOf(STATE_FIRST_HALF)' = HalfRounds
  BY <1>1, <1>2 DEF Unplayed, NoOvertimeYet, RoundsOf
<1>4. HalvesWithin' /\ ~EvenHalves'
  <2>1. /\ HalfRounds \in Nat /\ HalfRounds >= 1 /\ TERRORIST \in Team /\ CT \in Team
        /\ \A team \in Team : RegularScore(m_Score, team) = m_Score[team][STATE_FIRST_HALF]
        /\ \A team \in Team : m_Score[team][STATE_FIRST_HALF] \in Nat
        /\ m_Score[TERRORIST][STATE_FIRST_HALF] + m_Score[CT][STATE_FIRST_HALF] = HalfRounds
    BY <1>1, ScoreNumbers DEF RegularScore, Unplayed, RoundsOf
  <2>2. HalvesWithin
    BY <2>1, ScoreNumbers DEF HalvesWithin
  <2>3. ~EvenHalves
    BY <2>1 DEF EvenHalves
  <2> QED BY <1>2, <2>2, <2>3 DEF HalvesWithin, EvenHalves
<1>5. SecondRuns'
  BY <1>3, <1>4 DEF SecondRuns
<1>6. m_State' \notin BeforeMatch /\ m_State' \notin {STATE_FIRST_HALF, STATE_HALFTIME,
                                                      STATE_OVERTIME, STATE_END}
  BY StatesDiffer DEF BeforeMatch
<1> QED BY <1>2, <1>5, <1>6
        DEF CourseInv, BeforeRuns, FirstRuns, BreakRuns, OvertimeRuns, EndRuns

\* An overtime begins even, or goes on after its halftime.
LEMMA OvertimeEntered ==
    ASSUME TypeOK, TypeOK', RegularMatch, NEW t, m_State' = STATE_OVERTIME, ~Pending',
           EnterOvertime(t), LaterBreak
    PROVE  CourseInv'
<1>1. m_Score' = m_Score /\ TiesGoOn /\ EvenHalves /\ SameLead /\ WithinOT
  BY DEF EnterOvertime, LaterBreak
<1>2. HalfRoundsOT \in Nat /\ HalfRoundsOT >= 1
  BY <1>1, RoundNumbers, ScoreNumbers DEF RegularMatch
<1>3. EvenHalves'
  BY <1>1 DEF EvenHalves
<1>4. ASSUME m_ScoreOT[TERRORIST] + m_ScoreOT[CT] >= 2 * HalfRoundsOT
      PROVE  SameLead' /\ WithinOT' /\ ~EvenOT'
  <2>1. m_ScoreOT' = ZeroOT
    BY <1>4 DEF EnterOvertime
  <2>2. \A team \in Team : m_ScoreOT'[team] = 0
    BY <2>1 DEF ZeroOT
  <2>3. m_ScoreOT[TERRORIST] = m_ScoreOT[CT]
    BY <1>1, <1>2, <1>4, ScoreNumbers DEF WithinOT
  <2>4. SameLead'
    BY <1>1, <2>2, <2>3, ScoreNumbers DEF SameLead
  <2>5. WithinOT' /\ ~EvenOT'
    BY <1>2, <2>2, ScoreNumbers DEF WithinOT, EvenOT
  <2> QED BY <2>4, <2>5
<1>5. ASSUME ~(m_ScoreOT[TERRORIST] + m_ScoreOT[CT] >= 2 * HalfRoundsOT)
      PROVE  SameLead' /\ WithinOT' /\ ~EvenOT'
  <2>1. m_ScoreOT' = m_ScoreOT
    BY <1>5 DEF EnterOvertime
  <2>2. ~EvenOT
    BY <1>2, <1>5, ScoreNumbers DEF EvenOT
  <2> QED BY <1>1, <2>1, <2>2 DEF SameLead, WithinOT, EvenOT
<1>6. SameLead' /\ WithinOT' /\ ~EvenOT'
  BY <1>4, <1>5
<1>7. OvertimeRuns'
  BY <1>1, <1>3, <1>6 DEF OvertimeRuns
<1>8. m_State' \notin BeforeMatch /\ m_State' \notin {STATE_FIRST_HALF, STATE_HALFTIME,
                                                      STATE_SECOND_HALF, STATE_END}
  BY StatesDiffer DEF BeforeMatch
<1> QED BY <1>7, <1>8
        DEF CourseInv, BeforeRuns, FirstRuns, BreakRuns, SecondRuns, EndRuns

LEMMA StateIs ==
    ASSUME TypeOK
    PROVE  \/ m_State \in BeforeMatch
           \/ m_State \in {STATE_FIRST_HALF, STATE_HALFTIME, STATE_SECOND_HALF,
                           STATE_OVERTIME, STATE_END}
BY StatesDiffer DEF TypeOK, State, BeforeMatch

\* A second half or an overtime is only asked for in a break.
LEMMA OnlyBreakLeads ==
    ASSUME TypeOK, CourseInv, Pending, NextState \in {STATE_SECOND_HALF, STATE_OVERTIME}
    PROVE  m_State = STATE_HALFTIME
<1>1. NextState \notin BeforeMatch \cup {STATE_FIRST_HALF, STATE_HALFTIME, STATE_END}
  BY StatesDiffer DEF BeforeMatch
<1>2. /\ m_State \in BeforeMatch => NextState \in BeforeMatch \cup {STATE_FIRST_HALF}
      /\ m_State = STATE_FIRST_HALF => NextState = STATE_HALFTIME
      /\ m_State \in {STATE_SECOND_HALF, STATE_OVERTIME} =>
            NextState \in {STATE_HALFTIME, STATE_END}
      /\ m_State = STATE_END => NextState \in {STATE_DEATHMATCH, STATE_VOTEMAP}
  BY DEF CourseInv, BeforeRuns, FirstRuns, SecondRuns, OvertimeRuns, EndRuns
<1>3. NextState \notin {STATE_DEATHMATCH, STATE_VOTEMAP}
  BY StatesDiffer
<1> QED BY <1>1, <1>2, <1>3, StateIs

\* A break is only asked for by a half, and the end by one that may be decided.
LEMMA OnlyHalvesLead ==
    ASSUME TypeOK, CourseInv, Pending, NextState \in {STATE_HALFTIME, STATE_END}
    PROVE  m_State \in Half /\ (NextState = STATE_END => m_State # STATE_FIRST_HALF)
<1>1. /\ NextState \notin BeforeMatch \cup {STATE_FIRST_HALF, STATE_SECOND_HALF,
                                             STATE_OVERTIME}
      /\ NextState \notin {STATE_DEATHMATCH, STATE_VOTEMAP}
      /\ STATE_HALFTIME # STATE_END
  BY StatesDiffer DEF BeforeMatch
<1>2. /\ m_State \in BeforeMatch => NextState \in BeforeMatch \cup {STATE_FIRST_HALF}
      /\ m_State = STATE_FIRST_HALF => NextState = STATE_HALFTIME
      /\ m_State = STATE_HALFTIME => NextState \in {STATE_SECOND_HALF, STATE_OVERTIME}
      /\ m_State = STATE_END => NextState \in {STATE_DEATHMATCH, STATE_VOTEMAP}
  BY DEF CourseInv, BeforeRuns, FirstRuns, BreakRuns, AfterBreak, EndRuns
<1> QED BY <1>1, <1>2, StateIs DEF Half

\* What the slot fires is what the phase asked for.
LEMMA StateFiresCourse ==
    ASSUME TypeOK, TypeOK', RegularMatch, CountInv, FlowInv, CourseInv, SetStateFires
    PROVE  CourseInv'
<1> DEFINE s == m_Task["SET_STATE"].param
           t == Rearm(m_Task, "SET_STATE")
<1>1. /\ Pending /\ SetState(s, t) /\ t \in SlotTasks /\ ~t["SET_STATE"].on
      /\ m_State' = s /\ s \in State /\ s = NextState
  BY StateFires DEF NextState
<1>2. ~m_Wait.run
  BY <1>1, PendingAlone DEF NothingRuns
<1> HIDE DEF s, t
<1>3. CASE s \in BeforeMatch
  BY <1>1, <1>3, BeforeEntered
<1>4. CASE s = STATE_FIRST_HALF
  <2>1. ClearScores
    BY <1>1, <1>4, SetStateClears
  <2>2. ~Pending'
    BY <1>1, <1>4, HalfEntered DEF Half
  <2> QED BY <1>1, <1>4, <2>1, <2>2, FirstEntered
<1>5. CASE s = STATE_HALFTIME
  <2>1. EnterHalftime(t)
    BY <1>1, <1>5, StatesDiffer DEF SetState
  <2>2. FirstBreak \/ LaterBreak
    <3>1. CASE m_State = STATE_FIRST_HALF
      BY <1>1, <3>1 DEF CourseInv, FirstRuns, FirstBreak
    <3>2. CASE m_State = STATE_SECOND_HALF
      <4>1. NoOvertimeYet /\ EvenHalves /\ TiesGoOn
        BY <1>1, <1>5, <3>2, StatesDiffer DEF CourseInv, SecondRuns
      <4>2. SameLead /\ WithinOT /\ m_ScoreOT[TERRORIST] = m_ScoreOT[CT]
        BY <4>1, ScoreNumbers DEF NoOvertimeYet, Unplayed, SameLead, WithinOT
      <4> QED BY <4>1, <4>2 DEF LaterBreak
    <3>3. CASE m_State = STATE_OVERTIME
      <4>1. /\ TiesGoOn /\ EvenHalves /\ SameLead /\ WithinOT
            /\ HalfOT \/ EvenOT
        BY <1>1, <1>5, <3>3, StatesDiffer DEF CourseInv, OvertimeRuns
      <4>2. EvenOT => m_ScoreOT[TERRORIST] = m_ScoreOT[CT]
        BY ScoreNumbers DEF EvenOT
      <4> QED BY <4>1, <4>2 DEF LaterBreak
    <3> QED BY <1>1, <1>5, <3>1, <3>2, <3>3, OnlyHalvesLead DEF Half
  <2>3. BreakRuns'
    BY <1>1, <1>2, <2>1, <2>2, BreakEntered
  <2>4. m_State' \notin BeforeMatch /\ m_State' \notin {STATE_FIRST_HALF, STATE_SECOND_HALF,
                                                        STATE_OVERTIME, STATE_END}
    BY <1>1, <1>5, StatesDiffer DEF BeforeMatch
  <2> QED BY <2>3, <2>4
          DEF CourseInv, BeforeRuns, FirstRuns, SecondRuns, OvertimeRuns, EndRuns
<1>6. ASSUME s \in {STATE_SECOND_HALF, STATE_OVERTIME}
      PROVE  AfterBreak = s /\ (FirstBreak \/ LaterBreak)
  <2>1. m_State = STATE_HALFTIME
    BY <1>1, <1>6, OnlyBreakLeads
  <2> QED BY <1>1, <2>1 DEF CourseInv, BreakRuns
<1>7. s \in {STATE_SECOND_HALF, STATE_OVERTIME} => ~Pending'
  BY <1>1, HalfEntered DEF Half
<1>8. CASE s = STATE_SECOND_HALF
  <2>1. EnterSecondHalf(t)
    BY <1>1, <1>8, StatesDiffer DEF SetState
  <2>2. FirstBreak
    BY <1>6, <1>8, BreakLeadsTo
  <2> QED BY <1>1, <1>7, <1>8, <2>1, <2>2, SecondEntered
<1>9. CASE s = STATE_OVERTIME
  <2>1. EnterOvertime(t)
    BY <1>1, <1>9, StatesDiffer DEF SetState
  <2>2. LaterBreak
    BY <1>6, <1>9, BreakLeadsTo
  <2> QED BY <1>1, <1>7, <1>9, <2>1, <2>2, OvertimeEntered
<1>10. CASE s = STATE_END
  <2>1. EnterEnd(t)
    BY <1>1, <1>10, StatesDiffer DEF SetState
  <2> QED BY <1>1, <1>10, <2>1, EndEntered
<1>11. s \in BeforeMatch \cup {STATE_FIRST_HALF, STATE_HALFTIME, STATE_SECOND_HALF,
                               STATE_OVERTIME, STATE_END}
  BY <1>1, StatesDiffer DEF State, BeforeMatch
<1> QED BY <1>3, <1>4, <1>5, <1>8, <1>9, <1>10, <1>11

\* A round that counts, or not.
LEMMA RoundCourse ==
    ASSUME TypeOK, RegularMatch, CountInv, FlowInv, HalfWaits, CourseInv,
           NEW winner \in Team, RoundEnd(winner)
    PROVE  CourseInv'
<1>1. UNCHANGED <<m_State, m_Wait>>
  BY DEF RoundEnd
<1>2. CASE Counts /\ m_State = STATE_KNIFE_ROUND /\ CountKnife(winner)
  <2>1. /\ m_Task' = Create(m_Task, "VOTE_SWAP_TEAM", 1, FALSE, winner)
        /\ UNCHANGED <<m_Score, m_ScoreOT>>
    BY <1>2 DEF CountKnife, scoreVars
  <2>2. /\ m_Task'["SET_STATE"] = m_Task["SET_STATE"]
        /\ m_Task'["LO3_RESTART"] = m_Task["LO3_RESTART"]
    BY <2>1, SlotTypes, SlotNames, CreatedElse
  <2> QED BY <1>1, <2>1, <2>2, CourseKept
<1>3. CASE Counts /\ m_State # STATE_KNIFE_ROUND /\ CountRound(winner)
  <2>1. m_State \in Half
    BY <1>3 DEF RoundEnd, Playing
  <2>2. ~Pending /\ ~m_Task["LO3_RESTART"].on
    <3>1. Quiet
      BY DEF CountInv, RegularMatch, Undisturbed
    <3>2. ~m_Task["LO3_RESTART"].on
      BY <1>3, <3>1 DEF Quiet, Counts
    <3> QED BY <2>1, <3>2, WaitingHalf
  <2>3. m_State \notin BeforeMatch /\ m_State \notin {STATE_HALFTIME, STATE_END}
    BY <2>1, StatesDiffer DEF BeforeMatch, Half
  <2>4. CASE m_State = STATE_FIRST_HALF
    <3>1. FirstRuns'
      BY <1>1, <1>3, <2>2, <2>4, FirstCounts
    <3> QED BY <1>1, <2>3, <2>4, <3>1, StatesDiffer
            DEF CourseInv, BeforeRuns, BreakRuns, SecondRuns, OvertimeRuns, EndRuns
  <2>5. CASE m_State = STATE_SECOND_HALF
    <3>1. SecondRuns'
      BY <1>1, <1>3, <2>2, <2>5, SecondCounts
    <3> QED BY <1>1, <2>3, <2>5, <3>1, StatesDiffer
            DEF CourseInv, BeforeRuns, FirstRuns, BreakRuns, OvertimeRuns, EndRuns
  <2>6. CASE m_State = STATE_OVERTIME
    <3>1. OvertimeRuns'
      BY <1>1, <1>3, <2>2, <2>6, OvertimeCounts
    <3> QED BY <1>1, <2>3, <2>6, <3>1, StatesDiffer
            DEF CourseInv, BeforeRuns, FirstRuns, BreakRuns, SecondRuns, EndRuns
  <2> QED BY <2>1, <2>4, <2>5, <2>6 DEF Half
<1>4. CASE ~Counts /\ UNCHANGED <<scoreVars, m_Task>>
  BY <1>1, <1>4, CourseKept DEF scoreVars
<1> QED BY <1>2, <1>3, <1>4 DEF RoundEnd

\* The clock, the restarts, and rounds that nobody wins.
LEMMA TimeCourse ==
    ASSUME TypeOK, CountInv, CourseInv,
           Tick \/ RestartRound \/ RoundDraw \/ LO3Fires \/ MapChangeFires
           \/ \E team \in Team : PlayerJoins(team)
    PROVE  CourseInv' /\ UNCHANGED <<m_State, m_Score, m_ScoreOT>>
<1>1. CASE Tick
  <2>1. /\ m_Task' = Elapse(m_Task)
        /\ UNCHANGED <<m_State, m_Score, m_ScoreOT, m_Wait>>
    BY <1>1 DEF Tick, scoreVars
  <2>2. \A i \in Slot : /\ m_Task'[i].on = m_Task[i].on
                        /\ m_Task'[i].param = m_Task[i].param
    BY <2>1, SlotTypes DEF Elapse, SlotTasks, Task
  <2> QED BY <2>1, <2>2, SlotNames, CourseKept
<1>2. CASE RestartRound
  <2>1. UNCHANGED <<m_State, m_Score, m_ScoreOT, m_Wait, m_Task>>
    BY <1>2, RestartKeeps DEF RestartRound, RestartRoundFrozen
  <2> QED BY <2>1, CourseKept
<1>3. CASE RoundDraw \/ \E team \in Team : PlayerJoins(team)
  <2>1. UNCHANGED <<m_State, m_Score, m_ScoreOT, m_Wait, m_Task>>
    BY <1>3 DEF RoundDraw, PlayerJoins, scoreVars
  <2> QED BY <2>1, CourseKept
<1>4. CASE LO3Fires
  <2>1. UNCHANGED <<m_State, m_Score, m_ScoreOT, m_Wait>>
    BY <1>4 DEF LO3Fires, scoreVars
  <2> QED BY <1>4, <2>1, LO3FiresKeeps, CourseKept
<1>5. CASE MapChangeFires
  <2>1. /\ m_Task' = Rearm(m_Task, "MAP_CHANGE")
        /\ UNCHANGED <<m_State, m_Score, m_ScoreOT, m_Wait>>
    BY <1>5 DEF MapChangeFires, scoreVars
  <2>2. /\ m_Task'["SET_STATE"] = m_Task["SET_STATE"]
        /\ m_Task'["LO3_RESTART"] = m_Task["LO3_RESTART"]
    BY <2>1, SlotTypes, SlotNames, RearmKeeps
  <2> QED BY <2>1, <2>2, CourseKept
<1> QED BY <1>1, <1>2, <1>3, <1>4, <1>5

\* Votes and captains, before the match.
LEMMA VotesCourse ==
    ASSUME TypeOK, FlowInv, CourseInv,
           \/ \E voted \in BOOLEAN : VoteMapStops(voted)
           \/ \E type \in 1..6 : VoteTeamStops(type)
           \/ \E choice \in 0..2 : VoteSwapStops(choice)
           \/ Picks \/ VoteSwapFires
    PROVE  CourseInv' /\ UNCHANGED <<m_State, m_Score, m_ScoreOT>>
<1>1. UNCHANGED <<m_State, m_Score, m_ScoreOT, m_Wait>>
  BY DEF VoteMapStops, VoteTeamStops, VoteSwapStops, Picks, LeaderRunsOut, LeaderPicks,
     VoteSwapFires, scoreVars
<1>2. m_State \in {STATE_VOTEMAP, STATE_VOTETEAM, STATE_CAPTAIN, STATE_KNIFE_ROUND}
  BY DEF VoteMapStops, VoteTeamStops, VoteSwapStops, Closes, Picks, LeaderRunsOut,
     LeaderPicks, VoteSwapFires, IsDue, FlowInv, Alone, KnifeWaits
<1>3. m_State \in BeforeMatch /\ ~m_Wait'.run
  BY <1>1, <1>2, StatesDiffer DEF BeforeMatch, FlowInv, Alone
<1>4. ASSUME NEW t \in SlotTasks, NEW delay, NEW next \in BeforeMatch \cup {STATE_FIRST_HALF},
             m_Task' = Create(t, "SET_STATE", delay, FALSE, next)
      PROVE  CourseInv'
  BY <1>1, <1>3, <1>4, BeforeAsks
<1>5. m_Task \in SlotTasks
  BY SlotTypes
<1>6. /\ STATE_VOTEMAP \in BeforeMatch /\ STATE_DEATHMATCH \in BeforeMatch
      /\ STATE_KNIFE_ROUND \in BeforeMatch
  BY DEF BeforeMatch
<1>7. ASSUME NEW voted \in BOOLEAN, VoteMapStops(voted) PROVE CourseInv'
  <2>1. CASE m_Task' = Create(m_Task, "MAP_CHANGE", 5, FALSE, 0)
    <3>1. /\ m_Task'["SET_STATE"] = m_Task["SET_STATE"]
          /\ m_Task'["LO3_RESTART"] = m_Task["LO3_RESTART"]
      BY <1>5, <2>1, SlotNames, CreatedElse
    <3> QED BY <1>1, <3>1, CourseKept
  <2>2. CASE m_Task' = Create(m_Task, "SET_STATE", 1, FALSE, STATE_VOTEMAP)
    BY <1>4, <1>5, <1>6, <2>2
  <2> QED BY <1>7, <2>1, <2>2 DEF VoteMapStops
<1>8. ASSUME NEW type \in 1..6, VoteTeamStops(type) PROVE CourseInv'
  BY <1>4, <1>5, <1>8, TeamAsks DEF VoteTeamStops
<1>9. ASSUME NEW choice \in 0..2, VoteSwapStops(choice) PROVE CourseInv'
  BY <1>4, <1>5, <1>9 DEF VoteSwapStops
<1>10. ASSUME NEW counted, NEW p, NEW n, LeaderStop(counted, p, n) PROVE CourseInv'
  BY <1>4, <1>5, <1>6, <1>10 DEF LeaderStop
<1>11. CASE Picks
  <2>1. \/ \E counted, p, n : LeaderStop(counted, p, n)
        \/ m_Task' = m_Task
    BY <1>11 DEF Picks, LeaderRunsOut, LeaderPicks
  <2> QED BY <1>1, <1>10, <2>1, CourseKept
<1>12. CASE VoteSwapFires
  <2> DEFINE t == Rearm(m_Task, "VOTE_SWAP_TEAM")
  <2>1. \/ m_Task' = t
        \/ m_Task' = Create(t, "SET_STATE", 2, FALSE, STATE_FIRST_HALF)
    BY <1>12 DEF VoteSwapFires
  <2>2. /\ t \in SlotTasks /\ t["SET_STATE"] = m_Task["SET_STATE"]
        /\ t["LO3_RESTART"] = m_Task["LO3_RESTART"]
    BY SlotTypes, SlotNames, RearmKeeps
  <2> HIDE DEF t
  <2> QED BY <1>1, <1>4, <2>1, <2>2, CourseKept
<1> QED BY <1>1, <1>7, <1>8, <1>9, <1>11, <1>12

\* The waiting phase goes on with what it waited for.
LEMMA WaitCourse ==
    ASSUME TypeOK, FlowInv, CourseInv, WaitEnds
    PROVE  CourseInv'
<1>1. /\ UNCHANGED <<m_State, m_Score, m_ScoreOT>> /\ m_Wait.run /\ ~m_Wait'.run
      /\ m_Task' = Create(m_Task, "SET_STATE", 2, FALSE, m_Wait.next)
  BY DEF WaitEnds, Idle, scoreVars
<1>2. m_State \in {STATE_DEATHMATCH, STATE_HALFTIME}
  BY <1>1 DEF FlowInv, Alone
<1>3. CASE m_State = STATE_DEATHMATCH
  <2>1. m_State \in BeforeMatch
    BY <1>3 DEF BeforeMatch
  <2>2. m_Wait.next \in BeforeMatch
    BY <1>1, <2>1 DEF CourseInv, BeforeRuns
  <2> QED BY <1>1, <2>1, <2>2, SlotTypes, BeforeAsks
<1>4. CASE m_State = STATE_HALFTIME
  <2>1. m_Wait.next = AfterBreak /\ (FirstBreak \/ LaterBreak)
    BY <1>1, <1>4 DEF CourseInv, BreakRuns
  <2>2. NextState' = m_Wait.next
    BY <1>1, AsksFor
  <2>3. AfterBreak' = AfterBreak
    BY <1>1 DEF AfterBreak
  <2>4. (FirstBreak \/ LaterBreak)'
    BY <1>1, <2>1 DEF FirstBreak, LaterBreak, NoOvertimeYet, Unplayed, RoundsOf,
       EvenHalves, SameLead, WithinOT, HalfOT
  <2>5. BreakRuns'
    BY <1>1, <2>1, <2>2, <2>3, <2>4 DEF BreakRuns
  <2>6. m_State' \notin BeforeMatch /\ m_State' \notin {STATE_FIRST_HALF,
                            STATE_SECOND_HALF, STATE_OVERTIME, STATE_END}
    BY <1>1, <1>4, StatesDiffer DEF BeforeMatch
  <2> QED BY <2>5, <2>6
          DEF CourseInv, BeforeRuns, FirstRuns, SecondRuns, OvertimeRuns, EndRuns
<1> QED BY <1>2, <1>3, <1>4

\* A new level.
LEMMA ServerCourse ==
    ASSUME TypeOK, FlowInv, CourseInv, ServerDeactivate \/ ServerActivate
    PROVE  CourseInv' /\ m_State \in BeforeMatch /\ m_State' \in BeforeMatch
<1>1. m_State = STATE_VOTEMAP /\ ~m_Wait'.run
  <2>1. server # "active" /\ m_Wait' = Idle
    BY DEF ServerDeactivate, ServerActivate
  <2> QED BY <2>1 DEF FlowInv, Alone, Idle
<1>2. CASE ServerDeactivate
  <2>1. ~Live(m_State)
    BY <1>1, StatesDiffer DEF Live
  <2>2. m_Task' = Cleared(Slot) /\ m_State' = STATE_VOTEMAP
    BY <1>1, <1>2, <2>1 DEF ServerDeactivate
  <2>3. ~Pending'
    BY <2>2, SlotNames DEF Cleared, NoTask, Pending
  <2>4. m_State' \notin {STATE_FIRST_HALF, STATE_HALFTIME, STATE_SECOND_HALF,
                         STATE_OVERTIME, STATE_END}
    BY <2>2, StatesDiffer
  <2> QED BY <1>1, <2>2, <2>3, <2>4
          DEF CourseInv, BeforeRuns, FirstRuns, BreakRuns, SecondRuns, OvertimeRuns,
              EndRuns, BeforeMatch
<1>3. CASE ServerActivate
  <2>1. /\ m_Task' = Create(Cleared(Slot), "SET_STATE", 5, FALSE, STATE_DEATHMATCH)
        /\ m_State' = STATE_DEAD
    BY <1>3 DEF ServerActivate
  <2>2. Cleared(Slot) \in SlotTasks
    BY ClearedType, StateNames DEF SlotTasks
  <2>3. NextState' = STATE_DEATHMATCH
    BY <2>1, <2>2, SlotNames, CreatedWith DEF NextState
  <2>4. m_State' \notin {STATE_FIRST_HALF, STATE_HALFTIME, STATE_SECOND_HALF,
                         STATE_OVERTIME, STATE_END}
    BY <2>1, StatesDiffer
  <2> QED BY <1>1, <2>1, <2>3, <2>4
          DEF CourseInv, BeforeRuns, FirstRuns, BreakRuns, SecondRuns, OvertimeRuns,
              EndRuns, BeforeMatch
<1> QED BY <1>2, <1>3

LEMMA NextCourse ==
    ASSUME RegularMatch
    PROVE  TypeOK /\ TypeOK' /\ CountInv /\ FlowInv /\ HalfWaits /\ CourseInv /\ [Next]_vars
             => CourseInv'
<1> SUFFICES ASSUME TypeOK, TypeOK', CountInv, FlowInv, HalfWaits, CourseInv, [Next]_vars
             PROVE  CourseInv'
  OBVIOUS
<1>1. CASE UNCHANGED vars
  BY <1>1, CourseKept DEF vars, scoreVars
<1>2. Undisturbed /\ Alone
  BY DEF RegularMatch, FlowInv
<1> QED BY <1>1, <1>2, UndisturbedStep, StateFiresCourse, RoundCourse, TimeCourse,
           VotesCourse, WaitCourse, ServerCourse

LEMMA InitCourse == Init => CourseInv
<1> SUFFICES ASSUME Init PROVE CourseInv
  OBVIOUS
<1>1. Cleared(Slot) \in SlotTasks
  BY ClearedType, StateNames DEF SlotTasks
<1>2. m_Task["SET_STATE"].param = STATE_DEATHMATCH /\ ~m_Wait.run /\ m_State = STATE_DEAD
  BY <1>1, SlotNames DEF Init, Create, Idle, SlotTasks
<1>3. m_State \notin {STATE_FIRST_HALF, STATE_HALFTIME, STATE_SECOND_HALF,
                      STATE_OVERTIME, STATE_END}
  BY <1>2, StatesDiffer
<1> QED BY <1>2, <1>3
        DEF CourseInv, BeforeRuns, FirstRuns, BreakRuns, SecondRuns, OvertimeRuns,
            EndRuns, BeforeMatch, NextState

LEMMA CourseFlows == ASSUME RegularMatch PROVE Spec => []FlowInv /\ []HalfWaits
<1>1. Undisturbed /\ FreezeTime >= 2
  BY DEF RegularMatch
<1> QED BY <1>1, FlowInvariant, WaitsInvariant

LEMMA CourseInvariant == ASSUME RegularMatch PROVE Spec => []CourseInv
<1>1. TypeOK /\ TypeOK' /\ CountInv /\ FlowInv /\ HalfWaits /\ CourseInv /\ [Next]_vars
        => CourseInv'
  BY NextCourse
<1> QED BY <1>1, CourseFlows, InitCourse, TypeCorrect, CountInvariant, PTL DEF Spec

\* A number of overtime rounds that is odd, or less than two, means sudden death: no match
\* leads to an overtime then (CPugMod::RoundEnd, the second half).
THEOREM OvertimeIsEven == ASSUME RegularMatch PROVE Spec => []OvertimeNeedsEvenRounds
<1>1. CourseInv => OvertimeNeedsEvenRounds
  BY DEF CourseInv, OvertimeRuns, TiesGoOn, OvertimeNeedsEvenRounds
<1> QED BY <1>1, CourseInvariant, PTL

\* What the scores of the overtimes say of the match, once the halves are even.
LEMMA EvenHalvesCount ==
    ASSUME TypeOK, RegularMatch, EvenHalves
    PROVE  /\ GetRound(m_Score) >= Rounds /\ GetRound(m_Score) \in Nat /\ Rounds \in Nat
           /\ SameLead => (Tied <=> m_ScoreOT[TERRORIST] = m_ScoreOT[CT])
<1>1. /\ RegularScore(m_Score, TERRORIST) = HalfRounds
      /\ RegularScore(m_Score, CT) = HalfRounds
  BY ScoreNumbers DEF EvenHalves
<1>2. /\ RoundsOf(STATE_OVERTIME) \in Nat /\ HalfRounds \in Nat /\ Rounds = 2 * HalfRounds
      /\ m_Score[TERRORIST][STATE_OVERTIME] \in Nat /\ m_Score[CT][STATE_OVERTIME] \in Nat
      /\ m_ScoreOT[TERRORIST] \in Nat /\ m_ScoreOT[CT] \in Nat
  BY ScoreNumbers, RoundNumbers DEF RegularMatch
<1>3. GetRound(m_Score) >= Rounds /\ GetRound(m_Score) \in Nat /\ Rounds \in Nat
  BY <1>1, <1>2, RoundNumbers DEF RegularMatch
<1>4. /\ GetScore(m_Score, TERRORIST) = HalfRounds + m_Score[TERRORIST][STATE_OVERTIME]
      /\ GetScore(m_Score, CT) = HalfRounds + m_Score[CT][STATE_OVERTIME]
  BY <1>1, ScoreNumbers DEF GetScore, RegularScore
<1>5. SameLead => (Tied <=> m_ScoreOT[TERRORIST] = m_ScoreOT[CT])
  <2>1. Tied <=> m_Score[TERRORIST][STATE_OVERTIME] = m_Score[CT][STATE_OVERTIME]
    BY <1>2, <1>4 DEF Tied
  <2>2. SameLead => (m_Score[TERRORIST][STATE_OVERTIME] = m_Score[CT][STATE_OVERTIME]
                        <=> m_ScoreOT[TERRORIST] = m_ScoreOT[CT])
    BY <1>2 DEF SameLead
  <2> QED BY <2>1, <2>2
<1> QED BY <1>3, <1>5

\* A state that is entered was asked for, in a match that is left alone.
LEMMA EnteredByTask ==
    ASSUME TypeOK, RegularMatch, CountInv, FlowInv, Next,
           m_State' # m_State, m_State' \notin BeforeMatch
    PROVE  SetStateFires /\ Pending /\ NextState = m_State'
<1>1. ~ServerActivate
  BY DEF ServerActivate, BeforeMatch
<1>2. Undisturbed
  BY DEF RegularMatch
<1>3. SetStateFires
  BY <1>1, <1>2, StateStays
<1> QED BY <1>3, StateFires DEF NextState

\* An overtime starts from a tie, and goes on at its own halftime: CPugMod::SetState
\* enters it from nowhere else, if ties are not put to a vote.
THEOREM OvertimeAfterTies == ASSUME RegularMatch PROVE Spec => OvertimeFromTie
<1>1. ASSUME TypeOK, CountInv, FlowInv, CourseInv, [Next]_vars
      PROVE  [m_State # STATE_OVERTIME /\ m_State' = STATE_OVERTIME
                 => \/ Tied
                    \/ m_ScoreOT[TERRORIST] + m_ScoreOT[CT] = HalfRoundsOT]_vars
  <2> SUFFICES ASSUME Next, m_State # STATE_OVERTIME, m_State' = STATE_OVERTIME, ~HalfOT
               PROVE  Tied
    BY <1>1 DEF HalfOT
  <2> USE <1>1
  <2>1. m_State' \notin BeforeMatch
    BY StatesDiffer DEF BeforeMatch
  <2>2. Pending /\ NextState = STATE_OVERTIME
    BY <2>1, EnteredByTask
  <2>3. m_State = STATE_HALFTIME
    BY <2>2, OnlyBreakLeads
  <2>4. AfterBreak = STATE_OVERTIME /\ (FirstBreak \/ LaterBreak)
    BY <2>2, <2>3 DEF CourseInv, BreakRuns
  <2>5. EvenHalves /\ SameLead /\ m_ScoreOT[TERRORIST] = m_ScoreOT[CT]
    BY <2>4, BreakLeadsTo DEF LaterBreak
  <2> QED BY <2>5, EvenHalvesCount
<1> QED BY <1>1, TypeCorrect, CountInvariant, CourseInvariant, CourseFlows, PTL
        DEF Spec, OvertimeFromTie

\* The sides swap at the halftime of the match and of an overtime with halves of an odd
\* number of rounds, and stay as they are at the break before an overtime
\* (CPugMod::SwapTeams tells these apart by the tied score).
THEOREM HalftimeSwaps ==
    ASSUME RegularMatch, HalfRoundsOT % 2 = 1 PROVE Spec => OvertimeHalfSwaps
<1>1. ASSUME TypeOK, CountInv, FlowInv, CourseInv, [Next]_vars
      PROVE  [m_State # STATE_HALFTIME /\ m_State' = STATE_HALFTIME
                => (roster' = roster <=>
                     /\ m_State # STATE_FIRST_HALF
                     /\ m_ScoreOT[TERRORIST] + m_ScoreOT[CT] # HalfRoundsOT)]_vars
  <2> SUFFICES ASSUME Next, m_State # STATE_HALFTIME, m_State' = STATE_HALFTIME
               PROVE  roster' = roster <=> m_State # STATE_FIRST_HALF /\ ~HalfOT
    BY <1>1 DEF HalfOT
  <2> USE <1>1
  <2>1. m_State' \notin BeforeMatch
    BY StatesDiffer DEF BeforeMatch
  <2>2. SetStateFires /\ Pending /\ NextState = STATE_HALFTIME
    BY <2>1, EnteredByTask
  <2>3. SwapTeams
    <3>1. PICK t : EnterHalftime(t)
      BY <2>2, StateFires, StatesDiffer DEF SetState, NextState
    <3> QED BY <3>1 DEF EnterHalftime
  <2>4. roster' = roster <=> ~TeamsSwap
    BY <2>3 DEF SwapTeams, SwapAllPlayers, OtherRoster, teamVars, TypeOK, Roster
  <2>5. CASE m_State = STATE_FIRST_HALF
    <3>1. FirstBreak
      BY <2>2, <2>5 DEF CourseInv, FirstRuns, FirstBreak
    <3>2. GetRound(m_Score) < Rounds
      BY <3>1, FirstBreakRounds
    <3> QED BY <2>4, <2>5, <3>2 DEF TeamsSwap
  <2>6. CASE m_State = STATE_SECOND_HALF
    <3>1. NoOvertimeYet /\ EvenHalves
      BY <2>2, <2>6, StatesDiffer DEF CourseInv, SecondRuns
    <3>2. ~HalfOT /\ SameLead /\ m_ScoreOT[TERRORIST] = m_ScoreOT[CT]
      BY <3>1, ScoreNumbers DEF NoOvertimeYet, Unplayed, SameLead, HalfOT
    <3>3. Tied /\ ~(GetRound(m_Score) < Rounds)
      BY <3>1, <3>2, EvenHalvesCount
    <3>4. m_State # STATE_FIRST_HALF
      BY <2>6, StatesDiffer
    <3> QED BY <2>4, <3>2, <3>3, <3>4 DEF TeamsSwap, Tied
  <2>7. CASE m_State = STATE_OVERTIME
    <3>1. EvenHalves /\ SameLead /\ (HalfOT \/ EvenOT)
      BY <2>2, <2>7, StatesDiffer DEF CourseInv, OvertimeRuns
    <3>2. HalfOT <=> m_ScoreOT[TERRORIST] # m_ScoreOT[CT]
      <4>1. /\ m_ScoreOT[TERRORIST] \in Nat /\ m_ScoreOT[CT] \in Nat
            /\ HalfRoundsOT \in Nat /\ HalfRoundsOT % 2 = 1
        BY ScoreNumbers
      <4>2. EvenOT => m_ScoreOT[TERRORIST] = HalfRoundsOT /\ m_ScoreOT[CT] = HalfRoundsOT
        BY ScoreNumbers DEF EvenOT
      <4> QED BY <3>1, <4>1, <4>2 DEF HalfOT
    <3>3. ~(GetRound(m_Score) < Rounds) /\ (Tied <=> ~HalfOT)
      BY <3>1, <3>2, EvenHalvesCount
    <3>4. m_State # STATE_FIRST_HALF
      BY <2>7, StatesDiffer
    <3> QED BY <2>4, <3>3, <3>4 DEF TeamsSwap, Tied
  <2> QED BY <2>2, <2>5, <2>6, <2>7, OnlyHalvesLead DEF Half
<1> QED BY <1>1, TypeCorrect, CountInvariant, CourseInvariant, CourseFlows, PTL
        DEF Spec, OvertimeHalfSwaps
-----------------------------------------------------------------------------
(***************************************************************************)
(* CPugMod plays by MatchRules: the scores of the sides, read as those of  *)
(* the rosters on them, take the steps of the rules or stutter.            *)
(***************************************************************************)
\* The rosters' rounds, which the rules are about.
WonByRoster == [r \in Roster |-> WonOf(r)]
WonByRosterOT == [r \in Roster |-> m_ScoreOT[SideOf(r)]]

LEMMA HalfIs ==
    /\ m_State \in BeforeMatch => HalfOfMatch = "none"
    /\ m_State = STATE_FIRST_HALF => HalfOfMatch = "first"
    /\ m_State = STATE_HALFTIME => HalfOfMatch = "break"
    /\ m_State = STATE_SECOND_HALF => HalfOfMatch = "second"
    /\ m_State = STATE_OVERTIME => HalfOfMatch = "overtime"
    /\ m_State = STATE_END => HalfOfMatch = "over"
<1>1. m_State \in BeforeMatch => /\ m_State # STATE_FIRST_HALF /\ m_State # STATE_HALFTIME
                                 /\ m_State # STATE_SECOND_HALF /\ m_State # STATE_OVERTIME
                                 /\ m_State # STATE_END
  BY StatesDiffer DEF BeforeMatch
<1> QED BY <1>1, StatesDiffer DEF HalfOfMatch

\* Either roster is on one side.
LEMMA SidesOfRosters ==
    ASSUME TypeOK
    PROVE  /\ Roster = Rules!Rosters /\ Roster = {"A", "B"} /\ roster \in Roster
           /\ \/ SideOf("A") = TERRORIST /\ SideOf("B") = CT
              \/ SideOf("A") = CT /\ SideOf("B") = TERRORIST
           /\ \A r \in Roster : /\ SideOf(r) \in Team /\ RosterOf(SideOf(r)) = r
                                /\ WonByRoster[r] = WonOf(r)
                                /\ WonByRosterOT[r] = m_ScoreOT[SideOf(r)]
           /\ \A team \in Team : RosterOf(team) \in Roster /\ SideOf(RosterOf(team)) = team
<1>1. Roster = {"A", "B"} /\ Rules!Rosters = {"A", "B"} /\ roster \in {"A", "B"}
  BY DEF Roster, Rules!Rosters, TypeOK
<1>2. Team = {TERRORIST, CT} /\ TERRORIST # CT
  BY ScoreNumbers
<1> QED BY <1>1, <1>2 DEF SideOf, RosterOf, OtherRoster, WonByRoster, WonByRosterOT

\* The rosters' rounds, as those of the sides.
LEMMA RoundsRead ==
    ASSUME TypeOK
    PROVE  /\ Rules!Played("first") = RoundsOf(STATE_FIRST_HALF)
           /\ Rules!Played("second") = RoundsOf(STATE_SECOND_HALF)
           /\ Rules!PlayedOT = m_ScoreOT[TERRORIST] + m_ScoreOT[CT]
           /\ \A r \in Roster : Rules!Regular(r) = RegularScore(m_Score, SideOf(r))
<1>1. \A r \in Roster : /\ WonOf(r)["first"] = m_Score[SideOf(r)][STATE_FIRST_HALF]
                        /\ WonOf(r)["second"] = m_Score[SideOf(r)][STATE_SECOND_HALF]
  BY DEF WonOf
<1>2. /\ Rules!Played("first") = WonByRoster["A"]["first"] + WonByRoster["B"]["first"]
      /\ Rules!Played("second") = WonByRoster["A"]["second"] + WonByRoster["B"]["second"]
      /\ Rules!PlayedOT = WonByRosterOT["A"] + WonByRosterOT["B"]
      /\ \A r \in Roster : Rules!Regular(r) = WonByRoster[r]["first"] + WonByRoster[r]["second"]
  BY DEF Rules!Played, Rules!PlayedOT, Rules!Regular, WonByRoster, WonByRosterOT
<1>3. "A" \in Roster /\ "B" \in Roster
  BY DEF Roster
<1>4. Rules!Played("first") = RoundsOf(STATE_FIRST_HALF)
  BY <1>1, <1>2, <1>3, SidesOfRosters, ScoreNumbers DEF RoundsOf
<1>5. Rules!Played("second") = RoundsOf(STATE_SECOND_HALF)
  BY <1>1, <1>2, <1>3, SidesOfRosters, ScoreNumbers DEF RoundsOf
<1>6. Rules!PlayedOT = m_ScoreOT[TERRORIST] + m_ScoreOT[CT]
  BY <1>2, <1>3, SidesOfRosters, ScoreNumbers
<1>7. \A r \in Roster : Rules!Regular(r) = RegularScore(m_Score, SideOf(r))
  BY <1>1, <1>2, SidesOfRosters DEF RegularScore
<1> QED BY <1>4, <1>5, <1>6, <1>7

\* When the rules take a half, or the match, for over.
LEMMA OverRead ==
    ASSUME TypeOK
    PROVE  /\ m_State = STATE_FIRST_HALF =>
                 /\ Rules!FirstOver <=> RoundsOf(STATE_FIRST_HALF) = HalfRounds
                 /\ ~Rules!Decided /\ ~Rules!TiedUp
           /\ m_State = STATE_SECOND_HALF =>
                 /\ ~Rules!FirstOver
                 /\ Rules!Decided <=> ~HalvesWithin
                 /\ Rules!TiedUp <=> EvenHalves
           /\ m_State = STATE_OVERTIME =>
                 /\ ~Rules!FirstOver
                 /\ Rules!Decided <=> ~WithinOT
                 /\ Rules!TiedUp <=> EvenOT
<1>1. /\ (\E r \in Rules!Rosters : Rules!Regular(r) > HalfRounds) <=> ~HalvesWithin
      /\ (\A r \in Rules!Rosters : Rules!Regular(r) = HalfRounds) <=> EvenHalves
  <2>1. \A team \in Team : RegularScore(m_Score, team) \in Nat
    BY ScoreNumbers DEF RegularScore
  <2> QED BY <2>1, RoundsRead, SidesOfRosters, ScoreNumbers DEF HalvesWithin, EvenHalves
<1>2. /\ (\E r \in Rules!Rosters : WonByRosterOT[r] > HalfRoundsOT) <=> ~WithinOT
      /\ (\A r \in Rules!Rosters : WonByRosterOT[r] = HalfRoundsOT) <=> EvenOT
  BY SidesOfRosters, ScoreNumbers DEF WithinOT, EvenOT
<1>3. /\ Rules!FirstOver <=> HalfOfMatch = "first" /\ Rules!Played("first") = HalfRounds
      /\ Rules!Decided <=>
            \/ HalfOfMatch = "second" /\ \E r \in Rules!Rosters : Rules!Regular(r) > HalfRounds
            \/ HalfOfMatch = "overtime"
                  /\ \E r \in Rules!Rosters : WonByRosterOT[r] > HalfRoundsOT
      /\ Rules!TiedUp <=>
            \/ HalfOfMatch = "second" /\ \A r \in Rules!Rosters : Rules!Regular(r) = HalfRounds
            \/ HalfOfMatch = "overtime"
                  /\ \A r \in Rules!Rosters : WonByRosterOT[r] = HalfRoundsOT
  BY DEF Rules!FirstOver, Rules!Decided, Rules!TiedUp, WonByRosterOT
<1>4. CASE m_State = STATE_FIRST_HALF
  BY <1>3, <1>4, HalfIs, RoundsRead, StatesDiffer
<1>5. CASE m_State = STATE_SECOND_HALF
  BY <1>1, <1>3, <1>5, HalfIs, StatesDiffer
<1>6. CASE m_State = STATE_OVERTIME
  BY <1>2, <1>3, <1>6, HalfIs, StatesDiffer
<1> QED BY <1>4, <1>5, <1>6

\* Nothing that the rules are about changes.
LEMMA RulesStutter ==
    ASSUME UNCHANGED <<HalfOfMatch, WonByRoster, WonByRosterOT>>
    PROVE  [Rules!Next]_(Rules!rulesVars)
BY DEF Rules!rulesVars, WonByRoster, WonByRosterOT

\* Before a match, nothing is won by any roster, wherever it plays.
LEMMA NothingRead ==
    ASSUME TypeOK, m_Score = ZeroScore, m_ScoreOT = ZeroOT
    PROVE  WonByRoster = Rules!NoRounds /\ WonByRosterOT = Rules!NoRoundsOT
<1>1. \A r \in Roster : m_ScoreOT[SideOf(r)] = 0
  BY SidesOfRosters DEF ZeroOT
<1>2. \A team \in Team : m_Score[team][STATE_FIRST_HALF] = 0 /\ m_Score[team][STATE_SECOND_HALF] = 0
  BY DEF ZeroScore, NoRounds, Half
<1>3. \A r \in Roster : WonOf(r) = [h \in {"first", "second"} |-> 0]
  BY <1>2, SidesOfRosters DEF WonOf
<1>4. WonByRosterOT = Rules!NoRoundsOT
  BY <1>1, SidesOfRosters DEF WonByRosterOT, Rules!NoRoundsOT
<1>5. WonByRoster = Rules!NoRounds
  BY <1>3, SidesOfRosters DEF WonByRoster, Rules!NoRounds
<1> QED BY <1>4, <1>5

\* The sides swap scores and rosters together.
LEMMA SwapRead ==
    ASSUME TypeOK, TypeOK', SwapTeams
    PROVE  UNCHANGED <<WonByRoster, WonByRosterOT>>
<1>1. CASE /\ roster' = OtherRoster(roster)
           /\ m_Score' = SwapSides(m_Score) /\ m_ScoreOT' = SwapSides(m_ScoreOT)
  <2>1. \A r \in Roster : SideOf(r)' = Other(SideOf(r)) /\ SideOf(r)' \in Team
    BY <1>1 DEF SideOf, Other, OtherRoster, Roster, TypeOK, Team, TERRORIST, CT
  <2>2. \A team \in Team : /\ m_Score'[Other(team)] = m_Score[team]
                           /\ m_ScoreOT'[Other(team)] = m_ScoreOT[team]
    BY <1>1 DEF SwapSides, Other, Team, TERRORIST, CT
  <2>3. \A r \in Roster : /\ m_Score'[SideOf(r)'] = m_Score[SideOf(r)]
                          /\ m_ScoreOT'[SideOf(r)'] = m_ScoreOT[SideOf(r)]
    BY <2>1, <2>2, SidesOfRosters
  <2>4. \A r \in Roster : WonOf(r)' = WonOf(r)
    BY <2>3 DEF WonOf
  <2> QED BY <2>3, <2>4 DEF WonByRoster, WonByRosterOT
<1>2. CASE UNCHANGED <<roster, m_Score, m_ScoreOT>>
  BY <1>2 DEF WonByRoster, WonByRosterOT, WonOf, SideOf
<1> QED BY <1>1, <1>2 DEF SwapTeams, SwapAllPlayers, teamVars, scoreVars

\* Before a match the rules are in their initial state.
NothingOn == /\ HalfOfMatch = "none"
             /\ WonByRoster = Rules!NoRounds /\ WonByRosterOT = Rules!NoRoundsOT

LEMMA BeforeReads == TypeOK /\ ScoreInv /\ m_State \in BeforeMatch => NothingOn
<1> SUFFICES ASSUME TypeOK, ScoreInv, m_State \in BeforeMatch PROVE NothingOn
  OBVIOUS
<1>1. m_State \notin MatchStates
  BY StatesDiffer DEF BeforeMatch, MatchStates
<1>2. m_Score = ZeroScore /\ m_ScoreOT = ZeroOT
  BY <1>1 DEF ScoreInv, WonInMatch, NothingWon
<1> QED BY <1>2, HalfIs, NothingRead DEF NothingOn

LEMMA HalfWillBe ==
    /\ m_State' \in BeforeMatch => HalfOfMatch' = "none"
    /\ m_State' = STATE_FIRST_HALF => HalfOfMatch' = "first"
    /\ m_State' = STATE_HALFTIME => HalfOfMatch' = "break"
    /\ m_State' = STATE_SECOND_HALF => HalfOfMatch' = "second"
    /\ m_State' = STATE_OVERTIME => HalfOfMatch' = "overtime"
    /\ m_State' = STATE_END => HalfOfMatch' = "over"
<1>1. m_State' \in BeforeMatch => /\ m_State' # STATE_FIRST_HALF /\ m_State' # STATE_HALFTIME
                                  /\ m_State' # STATE_SECOND_HALF /\ m_State' # STATE_OVERTIME
                                  /\ m_State' # STATE_END
  BY StatesDiffer DEF BeforeMatch
<1> QED BY <1>1, StatesDiffer DEF HalfOfMatch

LEMMA NothingReads ==
    TypeOK /\ m_Score = ZeroScore /\ m_ScoreOT = ZeroOT
        => WonByRoster = Rules!NoRounds /\ WonByRosterOT = Rules!NoRoundsOT
BY NothingRead

LEMMA ClearedReads ==
    ASSUME TypeOK', ClearScores
    PROVE  WonByRoster' = Rules!NoRounds /\ WonByRosterOT' = Rules!NoRoundsOT
<1>1. (TypeOK /\ m_Score = ZeroScore /\ m_ScoreOT = ZeroOT
         => WonByRoster = Rules!NoRounds /\ WonByRosterOT = Rules!NoRoundsOT)'
  BY NothingReads, PTL
<1> QED BY <1>1 DEF ClearScores, ZeroScore, ZeroOT, Rules!NoRounds, Rules!NoRoundsOT

\* Scores that stay with players who stay.
LEMMA SameRead ==
    ASSUME UNCHANGED <<m_Score, m_ScoreOT, roster>>
    PROVE  UNCHANGED <<WonByRoster, WonByRosterOT>>
<1>1. \A r : SideOf(r)' = SideOf(r)
  BY DEF SideOf
<1>2. \A r : WonOf(r)' = WonOf(r)
  BY <1>1 DEF WonOf
<1> QED BY <1>1, <1>2 DEF WonByRoster, WonByRosterOT

\* A round of a side is one of the roster on it.
LEMMA WinRead ==
    ASSUME TypeOK, NEW winner \in Team, m_State \in Half, roster' = roster,
           CountRound(winner), NEW r, r = RosterOf(winner)
    PROVE  /\ m_State = STATE_FIRST_HALF =>
                 /\ WonByRoster' = [WonByRoster EXCEPT ![r]["first"] = @ + 1]
                 /\ WonByRosterOT' = WonByRosterOT
           /\ m_State = STATE_SECOND_HALF =>
                 /\ WonByRoster' = [WonByRoster EXCEPT ![r]["second"] = @ + 1]
                 /\ WonByRosterOT' = WonByRosterOT
           /\ m_State = STATE_OVERTIME =>
                 /\ WonByRoster' = WonByRoster
                 /\ WonByRosterOT' = [WonByRosterOT EXCEPT ![r] = @ + 1]
<1>1. \A q \in Roster : /\ SideOf(q)' = SideOf(q) /\ SideOf(q) \in Team
                        /\ SideOf(q) = winner <=> q = r
  BY SidesOfRosters DEF SideOf
<1>2. \A q \in Roster, half \in Half :
         m_Score'[SideOf(q)][half] = m_Score[SideOf(q)][half]
                    + (IF q = r /\ half = m_State THEN 1 ELSE 0)
  BY <1>1, RoundCounted
<1>3. \A q \in Roster, half \in Half : m_Score[SideOf(q)][half] \in Nat
  BY <1>1, ScoreNumbers
<1>4. \A q \in Roster :
         m_ScoreOT'[SideOf(q)] = m_ScoreOT[SideOf(q)]
                    + (IF q = r /\ m_State = STATE_OVERTIME THEN 1 ELSE 0)
  BY <1>1, RoundCounted
<1>5. \A q \in Roster : m_ScoreOT[SideOf(q)] \in Nat
  BY <1>1, ScoreNumbers
<1>6. STATE_FIRST_HALF \in Half /\ STATE_SECOND_HALF \in Half /\ r \in Roster
  BY SidesOfRosters DEF Half
<1>7. \A q \in Roster :
         /\ WonOf(q)' = [h \in {"first", "second"} |->
               m_Score'[SideOf(q)][IF h = "first" THEN STATE_FIRST_HALF
                                                  ELSE STATE_SECOND_HALF]]
         /\ WonOf(q) = [h \in {"first", "second"} |->
               m_Score[SideOf(q)][IF h = "first" THEN STATE_FIRST_HALF
                                                 ELSE STATE_SECOND_HALF]]
  BY <1>1 DEF WonOf
<1>8. /\ WonByRoster = [q \in Roster |-> WonOf(q)]
      /\ WonByRoster' = [q \in Roster |-> WonOf(q)']
  BY DEF WonByRoster
<1>9. /\ WonByRosterOT = [q \in Roster |-> m_ScoreOT[SideOf(q)]]
      /\ WonByRosterOT' = [q \in Roster |-> m_ScoreOT'[SideOf(q)]]
  BY <1>1 DEF WonByRosterOT
<1>10. ASSUME m_State # STATE_OVERTIME PROVE WonByRosterOT' = WonByRosterOT
  BY <1>4, <1>5, <1>9, <1>10
<1>11. CASE m_State = STATE_FIRST_HALF
  <2>1. /\ WonOf(r)' = [WonOf(r) EXCEPT !["first"] = @ + 1]
        /\ \A q \in Roster : q # r => WonOf(q)' = WonOf(q)
    BY <1>2, <1>3, <1>6, <1>7, <1>11, StatesDiffer
  <2>2. WonByRoster' = [WonByRoster EXCEPT ![r]["first"] = @ + 1]
    BY <1>6, <1>8, <2>1
  <2> QED BY <1>10, <1>11, <2>2, StatesDiffer
<1>12. CASE m_State = STATE_SECOND_HALF
  <2>1. /\ WonOf(r)' = [WonOf(r) EXCEPT !["second"] = @ + 1]
        /\ \A q \in Roster : q # r => WonOf(q)' = WonOf(q)
    BY <1>2, <1>3, <1>6, <1>7, <1>12, StatesDiffer
  <2>2. WonByRoster' = [WonByRoster EXCEPT ![r]["second"] = @ + 1]
    BY <1>6, <1>8, <2>1
  <2> QED BY <1>10, <1>12, <2>2, StatesDiffer
<1>13. CASE m_State = STATE_OVERTIME
  <2>1. \A q \in Roster : WonOf(q)' = WonOf(q)
    BY <1>2, <1>3, <1>6, <1>7, <1>13, StatesDiffer
  <2>2. WonByRosterOT' = [WonByRosterOT EXCEPT ![r] = @ + 1]
    BY <1>4, <1>5, <1>6, <1>9, <1>13
  <2> QED BY <1>8, <1>13, <2>1, <2>2, StatesDiffer
<1> QED BY <1>11, <1>12, <1>13 DEF Half

\* The steps of the rules, in terms of the rosters' rounds.
LEMMA RulesSteps ==
    ASSUME UNCHANGED <<WonByRoster, WonByRosterOT>>
    PROVE  /\ HalfOfMatch = "none" /\ HalfOfMatch' = "first" => Rules!Next
           /\ (\/ Rules!FirstOver \/ Rules!TiedUp
               \/ HalfOfMatch = "overtime" /\ Rules!PlayedOT = HalfRoundsOT)
                  /\ HalfOfMatch' = "break" => Rules!Next
           /\ HalfOfMatch = "break" /\ HalfOfMatch' = "second"
                  /\ Rules!Played("first") + Rules!Played("second") < 2 * HalfRounds
                  => Rules!Next
           /\ Rules!Decided /\ HalfOfMatch' = "over" => Rules!Next
<1>1. HalfOfMatch = "none" /\ HalfOfMatch' = "first" => Rules!Start
  BY DEF Rules!Start, WonByRoster, WonByRosterOT
<1>2. (\/ Rules!FirstOver \/ Rules!TiedUp
       \/ HalfOfMatch = "overtime" /\ Rules!PlayedOT = HalfRoundsOT)
          /\ HalfOfMatch' = "break" => Rules!Break
  BY DEF Rules!Break, WonByRoster, WonByRosterOT
<1>3. HalfOfMatch = "break" /\ HalfOfMatch' = "second"
         /\ Rules!Played("first") + Rules!Played("second") < 2 * HalfRounds
         => Rules!Resume
  BY DEF Rules!Resume, WonByRoster, WonByRosterOT
<1>4. Rules!Decided /\ HalfOfMatch' = "over" => Rules!Finish
  BY DEF Rules!Finish, WonByRoster, WonByRosterOT
<1> QED BY <1>1, <1>2, <1>3, <1>4 DEF Rules!Next

\* An overtime begins, or goes on after its halftime.
LEMMA OvertimeStep ==
    ASSUME HalfOfMatch = "break", HalfOfMatch' = "overtime", WonByRoster' = WonByRoster,
           Rules!Played("first") + Rules!Played("second") >= 2 * HalfRounds,
           \/ /\ Rules!PlayedOT = 2 * HalfRoundsOT
              /\ WonByRosterOT' = Rules!NoRoundsOT
           \/ /\ Rules!PlayedOT # 2 * HalfRoundsOT
              /\ WonByRosterOT' = WonByRosterOT
    PROVE  Rules!Next
<1>1. Rules!Resume
  BY DEF Rules!Resume, WonByRoster, WonByRosterOT
<1> QED BY <1>1 DEF Rules!Next

\* The next match starts from nothing.
LEMMA ForgetStep ==
    ASSUME HalfOfMatch = "over", HalfOfMatch' = "none",
           WonByRoster' = Rules!NoRounds, WonByRosterOT' = Rules!NoRoundsOT
    PROVE  Rules!Next
<1>1. Rules!Forget
  BY DEF Rules!Forget, WonByRoster, WonByRosterOT
<1> QED BY <1>1 DEF Rules!Next

\* A roster wins a round.
LEMMA WinStep ==
    ASSUME HalfOfMatch' = HalfOfMatch, NEW r \in Rules!Rosters,
           ~Rules!FirstOver, ~Rules!Decided, ~Rules!TiedUp,
           \/ /\ HalfOfMatch \in {"first", "second"}
              /\ WonByRoster' = [WonByRoster EXCEPT ![r][HalfOfMatch] = @ + 1]
              /\ WonByRosterOT' = WonByRosterOT
           \/ /\ HalfOfMatch = "overtime"
              /\ WonByRoster' = WonByRoster
              /\ WonByRosterOT' = [WonByRosterOT EXCEPT ![r] = @ + 1]
    PROVE  Rules!Next
<1>1. Rules!Win(r)
  BY DEF Rules!Win, WonByRoster, WonByRosterOT
<1> QED BY <1>1 DEF Rules!Next

\* What happens before the match the rules do not see.
LEMMA BeforePlays ==
    ASSUME TypeOK, TypeOK', ScoreInv, ScoreInv', m_State \in BeforeMatch, m_State' \in BeforeMatch
    PROVE  UNCHANGED <<HalfOfMatch, WonByRoster, WonByRosterOT>>
<1>1. NothingOn
  BY BeforeReads
<1>2. (TypeOK /\ ScoreInv /\ m_State \in BeforeMatch => NothingOn)'
  BY BeforeReads, PTL
<1>3. NothingOn'
  BY <1>2 DEF BeforeMatch
<1> QED BY <1>1, <1>3 DEF NothingOn, Rules!NoRounds, Rules!NoRoundsOT

\* A round that counts is one of the rules; no other is.
LEMMA RoundPlays ==
    ASSUME TypeOK, RegularMatch, TiesGoOn, CountInv, HalfWaits, CourseInv,
           NEW winner \in Team, RoundEnd(winner)
    PROVE  [Rules!Next]_(Rules!rulesVars)
<1>1. UNCHANGED <<m_State, roster>> /\ HalfOfMatch' = HalfOfMatch
  BY DEF RoundEnd, teamVars, HalfOfMatch
<1>2. CASE UNCHANGED scoreVars
  BY <1>1, <1>2, SameRead, RulesStutter DEF scoreVars
<1>3. CASE Counts /\ m_State # STATE_KNIFE_ROUND /\ CountRound(winner)
  <2>1. m_State \in Half
    BY <1>3 DEF RoundEnd, Playing
  <2>2. ~Pending
    BY <2>1, WaitingHalf
  <2> DEFINE r == RosterOf(winner)
  <2>3. r \in Rules!Rosters
    BY SidesOfRosters
  <2>4. /\ m_State = STATE_FIRST_HALF =>
             /\ WonByRoster' = [WonByRoster EXCEPT ![r]["first"] = @ + 1]
             /\ WonByRosterOT' = WonByRosterOT
        /\ m_State = STATE_SECOND_HALF =>
             /\ WonByRoster' = [WonByRoster EXCEPT ![r]["second"] = @ + 1]
             /\ WonByRosterOT' = WonByRosterOT
        /\ m_State = STATE_OVERTIME =>
             /\ WonByRoster' = WonByRoster
             /\ WonByRosterOT' = [WonByRosterOT EXCEPT ![r] = @ + 1]
    BY <1>1, <1>3, <2>1, WinRead
  <2> HIDE DEF r
  <2>5. CASE m_State = STATE_FIRST_HALF
    <3>1. RoundsOf(STATE_FIRST_HALF) # HalfRounds
      BY <2>2, <2>5 DEF CourseInv, FirstRuns
    <3>2. ~Rules!FirstOver /\ ~Rules!Decided /\ ~Rules!TiedUp /\ HalfOfMatch = "first"
      BY <2>5, <3>1, OverRead, HalfIs
    <3> QED BY <1>1, <2>3, <2>4, <2>5, <3>2, WinStep
  <2>6. CASE m_State = STATE_SECOND_HALF
    <3>1. HalvesWithin /\ ~EvenHalves
      BY <2>2, <2>6 DEF CourseInv, SecondRuns
    <3>2. ~Rules!FirstOver /\ ~Rules!Decided /\ ~Rules!TiedUp /\ HalfOfMatch = "second"
      BY <2>6, <3>1, OverRead, HalfIs
    <3> QED BY <1>1, <2>3, <2>4, <2>6, <3>2, WinStep
  <2>7. CASE m_State = STATE_OVERTIME
    <3>1. WithinOT /\ ~EvenOT
      BY <2>2, <2>7 DEF CourseInv, OvertimeRuns
    <3>2. ~Rules!FirstOver /\ ~Rules!Decided /\ ~Rules!TiedUp /\ HalfOfMatch = "overtime"
      BY <2>7, <3>1, OverRead, HalfIs
    <3> QED BY <1>1, <2>3, <2>4, <2>7, <3>2, WinStep
  <2> QED BY <2>1, <2>5, <2>6, <2>7 DEF Half
<1> QED BY <1>2, <1>3 DEF RoundEnd, CountKnife

\* The match is only begun before it, and only left after it.
LEMMA OnlyEndLeads ==
    ASSUME TypeOK, CourseInv, Pending
    PROVE  /\ NextState = STATE_FIRST_HALF => m_State \in BeforeMatch
           /\ NextState \in BeforeMatch => m_State \in BeforeMatch \/ m_State = STATE_END
<1>1. /\ STATE_HALFTIME \notin BeforeMatch /\ STATE_SECOND_HALF \notin BeforeMatch
      /\ STATE_OVERTIME \notin BeforeMatch /\ STATE_END \notin BeforeMatch
      /\ STATE_FIRST_HALF \notin {STATE_HALFTIME, STATE_SECOND_HALF, STATE_OVERTIME, STATE_END}
      /\ STATE_FIRST_HALF \notin {STATE_DEATHMATCH, STATE_VOTEMAP}
  BY StatesDiffer DEF BeforeMatch
<1>2. /\ m_State = STATE_FIRST_HALF => NextState = STATE_HALFTIME
      /\ m_State = STATE_HALFTIME => NextState \in {STATE_SECOND_HALF, STATE_OVERTIME}
      /\ m_State \in {STATE_SECOND_HALF, STATE_OVERTIME} =>
            NextState \in {STATE_HALFTIME, STATE_END}
      /\ m_State = STATE_END => NextState \in {STATE_DEATHMATCH, STATE_VOTEMAP}
  BY DEF CourseInv, FirstRuns, BreakRuns, AfterBreak, SecondRuns, OvertimeRuns, EndRuns
<1> QED BY <1>1, <1>2, StateIs

\* The breaks of the match and of its overtimes.
LEMMA BreakPlays ==
    ASSUME TypeOK, TypeOK', TiesGoOn, CourseInv, Pending, NextState = STATE_HALFTIME,
           m_State' = STATE_HALFTIME, NEW t, EnterHalftime(t)
    PROVE  [Rules!Next]_(Rules!rulesVars)
<1>1. UNCHANGED <<WonByRoster, WonByRosterOT>> /\ HalfOfMatch' = "break"
  BY SwapRead, HalfWillBe DEF EnterHalftime
<1>2. m_State \in Half
  BY OnlyHalvesLead
<1>3. CASE m_State = STATE_FIRST_HALF
  <2>1. Rules!FirstOver
    BY <1>3, OverRead DEF CourseInv, FirstRuns
  <2> QED BY <1>1, <2>1, RulesSteps
<1>4. CASE m_State = STATE_SECOND_HALF
  <2>1. EvenHalves
    BY <1>4, StatesDiffer DEF CourseInv, SecondRuns
  <2>2. Rules!TiedUp
    BY <1>4, <2>1, OverRead
  <2> QED BY <1>1, <2>2, RulesSteps
<1>5. CASE m_State = STATE_OVERTIME
  <2>1. HalfOT \/ EvenOT
    BY <1>5, StatesDiffer DEF CourseInv, OvertimeRuns
  <2>2. HalfOT => HalfOfMatch = "overtime" /\ Rules!PlayedOT = HalfRoundsOT
    BY <1>5, HalfIs, RoundsRead DEF HalfOT
  <2>3. EvenOT => Rules!TiedUp
    BY <1>5, OverRead
  <2> QED BY <1>1, <2>1, <2>2, <2>3, RulesSteps
<1> QED BY <1>2, <1>3, <1>4, <1>5 DEF Half

\* The second half, after a first one that is over.
LEMMA SecondPlays ==
    ASSUME TypeOK, TypeOK', RegularMatch, m_State = STATE_HALFTIME,
           m_State' = STATE_SECOND_HALF, ~Pending', NEW t, EnterSecondHalf(t), FirstBreak
    PROVE  [Rules!Next]_(Rules!rulesVars)
<1>1. UNCHANGED <<WonByRoster, WonByRosterOT>>
  BY SecondEntered, SameRead DEF EnterSecondHalf
<1>2. HalfOfMatch = "break" /\ HalfOfMatch' = "second"
  BY HalfIs, HalfWillBe
<1>3. RoundsOf(STATE_FIRST_HALF) = HalfRounds /\ RoundsOf(STATE_SECOND_HALF) = 0
  BY ScoreNumbers DEF FirstBreak, Unplayed, RoundsOf
<1>4. Rules!Played("first") + Rules!Played("second") < 2 * HalfRounds
  BY <1>3, RoundsRead, ScoreNumbers
<1> QED BY <1>1, <1>2, <1>4, RulesSteps

\* An overtime, after halves that are even.
LEMMA OvertimePlays ==
    ASSUME TypeOK, TypeOK', RegularMatch, m_State = STATE_HALFTIME,
           m_State' = STATE_OVERTIME, NEW t, EnterOvertime(t), LaterBreak
    PROVE  [Rules!Next]_(Rules!rulesVars)
<1>1. UNCHANGED <<m_Score, roster>> /\ EvenHalves /\ WithinOT
  BY DEF EnterOvertime, teamVars, LaterBreak
<1>2. HalfOfMatch = "break" /\ HalfOfMatch' = "overtime"
  BY HalfIs, HalfWillBe
<1>3. \A r : SideOf(r)' = SideOf(r)
  BY <1>1 DEF SideOf
<1>4. WonByRoster' = WonByRoster
  BY <1>1, <1>3 DEF WonByRoster, WonOf
<1>5. Rules!Played("first") + Rules!Played("second") >= 2 * HalfRounds
  <2>1. /\ RegularScore(m_Score, TERRORIST) = HalfRounds
        /\ RegularScore(m_Score, CT) = HalfRounds
    BY <1>1, ScoreNumbers DEF EvenHalves
  <2> QED BY <2>1, RoundsRead, RoundNumbers, ScoreNumbers DEF RegularMatch
<1>6. /\ Rules!PlayedOT = m_ScoreOT[TERRORIST] + m_ScoreOT[CT]
      /\ m_ScoreOT[TERRORIST] + m_ScoreOT[CT] >= 2 * HalfRoundsOT
            <=> m_ScoreOT[TERRORIST] + m_ScoreOT[CT] = 2 * HalfRoundsOT
  BY <1>1, RoundsRead, ScoreNumbers DEF WithinOT
<1>7. CASE Rules!PlayedOT = 2 * HalfRoundsOT
  <2>1. m_ScoreOT' = ZeroOT
    BY <1>6, <1>7 DEF EnterOvertime
  <2>2. \A r \in Roster : SideOf(r) \in Team
    BY SidesOfRosters
  <2>3. \A r \in Roster : m_ScoreOT'[SideOf(r)'] = 0
    BY <1>3, <2>1, <2>2 DEF ZeroOT
  <2>4. WonByRosterOT' = Rules!NoRoundsOT
    BY <2>3, SidesOfRosters DEF WonByRosterOT, Rules!NoRoundsOT
  <2> QED BY <1>2, <1>4, <1>5, <1>7, <2>4, OvertimeStep
<1>8. CASE Rules!PlayedOT # 2 * HalfRoundsOT
  <2>1. m_ScoreOT' = m_ScoreOT
    BY <1>6, <1>8 DEF EnterOvertime
  <2>2. WonByRosterOT' = WonByRosterOT
    BY <1>1, <2>1, SameRead
  <2> QED BY <1>2, <1>4, <1>5, <1>8, <2>2, OvertimeStep
<1> QED BY <1>7, <1>8

\* CPugMod::SetState takes the match from half to half as the rules do.
LEMMA StatePlays ==
    ASSUME TypeOK, TypeOK', RegularMatch, TiesGoOn, FlowInv, ScoreInv, ScoreInv',
           CourseInv, SetStateFires
    PROVE  [Rules!Next]_(Rules!rulesVars)
<1> DEFINE s == m_Task["SET_STATE"].param
           t == Rearm(m_Task, "SET_STATE")
<1>1. /\ Pending /\ SetState(s, t) /\ t \in SlotTasks /\ ~t["SET_STATE"].on
      /\ m_State' = s /\ s \in State /\ s = NextState
  BY StateFires DEF NextState
<1> HIDE DEF s, t
<1>2. CASE s \in BeforeMatch
  <2>1. m_State \in BeforeMatch \/ m_State = STATE_END
    BY <1>1, <1>2, OnlyEndLeads
  <2>2. CASE m_State \in BeforeMatch
    BY <1>1, <1>2, <2>2, BeforePlays, RulesStutter
  <2>3. CASE m_State = STATE_END
    <3>1. s \notin MatchStates
      BY <1>2, StatesDiffer DEF BeforeMatch, MatchStates
    <3>2. ClearScores
      BY <1>1, <3>1, SetStateClears
    <3>3. WonByRoster' = Rules!NoRounds /\ WonByRosterOT' = Rules!NoRoundsOT
      BY <3>2, ClearedReads
    <3>4. HalfOfMatch = "over" /\ HalfOfMatch' = "none"
      BY <1>1, <1>2, <2>3, HalfIs, HalfWillBe
    <3> QED BY <3>3, <3>4, ForgetStep
  <2> QED BY <2>1, <2>2, <2>3
<1>3. CASE s = STATE_FIRST_HALF
  <2>1. m_State \in BeforeMatch
    BY <1>1, <1>3, OnlyEndLeads
  <2>2. NothingOn
    BY <2>1, BeforeReads
  <2>3. ClearScores
    BY <1>1, <1>3, SetStateClears
  <2>4. UNCHANGED <<WonByRoster, WonByRosterOT>>
    BY <2>2, <2>3, ClearedReads DEF NothingOn
  <2>5. HalfOfMatch = "none" /\ HalfOfMatch' = "first"
    BY <1>1, <1>3, <2>2, HalfWillBe DEF NothingOn
  <2> QED BY <2>4, <2>5, RulesSteps
<1>4. CASE s = STATE_HALFTIME
  <2>1. EnterHalftime(t)
    BY <1>1, <1>4, StatesDiffer DEF SetState
  <2> QED BY <1>1, <1>4, <2>1, BreakPlays
<1>5. ASSUME s \in {STATE_SECOND_HALF, STATE_OVERTIME}
      PROVE  m_State = STATE_HALFTIME /\ AfterBreak = s /\ (FirstBreak \/ LaterBreak)
  <2>1. m_State = STATE_HALFTIME
    BY <1>1, <1>5, OnlyBreakLeads
  <2> QED BY <1>1, <2>1 DEF CourseInv, BreakRuns
<1>6. CASE s = STATE_SECOND_HALF
  <2>1. EnterSecondHalf(t)
    BY <1>1, <1>6, StatesDiffer DEF SetState
  <2>2. FirstBreak
    BY <1>5, <1>6, BreakLeadsTo
  <2>3. ~Pending'
    BY <1>1, <1>6, HalfEntered DEF Half
  <2> QED BY <1>1, <1>5, <1>6, <2>1, <2>2, <2>3, SecondPlays
<1>7. CASE s = STATE_OVERTIME
  <2>1. EnterOvertime(t)
    BY <1>1, <1>7, StatesDiffer DEF SetState
  <2>2. LaterBreak
    BY <1>5, <1>7, BreakLeadsTo
  <2> QED BY <1>1, <1>5, <1>7, <2>1, <2>2, OvertimePlays
<1>8. CASE s = STATE_END
  <2>1. EnterEnd(t)
    BY <1>1, <1>8, StatesDiffer DEF SetState
  <2>2. UNCHANGED <<WonByRoster, WonByRosterOT>>
    BY <2>1, SameRead DEF EnterEnd, scoreVars, teamVars
  <2>3. m_State \in {STATE_SECOND_HALF, STATE_OVERTIME}
    BY <1>1, <1>8, OnlyHalvesLead DEF Half
  <2>4. Rules!Decided
    <3>1. CASE m_State = STATE_SECOND_HALF
      <4>1. ~HalvesWithin
        BY <1>1, <1>8, <3>1, StatesDiffer DEF CourseInv, SecondRuns
      <4> QED BY <3>1, <4>1, OverRead
    <3>2. CASE m_State = STATE_OVERTIME
      <4>1. ~WithinOT
        BY <1>1, <1>8, <3>2, StatesDiffer DEF CourseInv, OvertimeRuns
      <4> QED BY <3>2, <4>1, OverRead
    <3> QED BY <2>3, <3>1, <3>2
  <2> QED BY <1>1, <1>8, <2>2, <2>4, HalfWillBe, RulesSteps
<1>9. s \in BeforeMatch \cup {STATE_FIRST_HALF, STATE_HALFTIME, STATE_SECOND_HALF,
                              STATE_OVERTIME, STATE_END}
  BY <1>1, StatesDiffer DEF State, BeforeMatch
<1> QED BY <1>2, <1>3, <1>4, <1>6, <1>7, <1>8, <1>9

\* Every step of CPugMod is one of the rules, or none.
LEMMA NextPlays ==
    ASSUME RegularMatch, TiesGoOn
    PROVE  TypeOK /\ TypeOK' /\ CountInv /\ FlowInv /\ HalfWaits /\ ScoreInv /\ ScoreInv'
              /\ CourseInv /\ [Next]_vars => [Rules!Next]_(Rules!rulesVars)
<1> SUFFICES ASSUME TypeOK, TypeOK', CountInv, FlowInv, HalfWaits, ScoreInv, ScoreInv',
                    CourseInv, [Next]_vars
             PROVE  [Rules!Next]_(Rules!rulesVars)
  OBVIOUS
<1>1. ASSUME UNCHANGED <<m_State, m_Score, m_ScoreOT, roster>>
      PROVE  [Rules!Next]_(Rules!rulesVars)
  <2>1. HalfOfMatch' = HalfOfMatch
    BY <1>1 DEF HalfOfMatch
  <2> QED BY <1>1, <2>1, SameRead, RulesStutter
<1>2. CASE UNCHANGED vars
  BY <1>1, <1>2 DEF vars, scoreVars, teamVars
<1>3. CASE SetStateFires
  BY <1>3, StatePlays
<1>4. CASE Next /\ ~SetStateFires /\ m_State \in BeforeMatch
  <2>1. ServerActivate => m_State' = STATE_DEAD
    BY DEF ServerActivate
  <2>2. m_State' \in BeforeMatch
    BY <1>4, <2>1, StateStays DEF RegularMatch, BeforeMatch
  <2> QED BY <1>4, <2>2, BeforePlays, RulesStutter
<1>5. CASE Next /\ ~SetStateFires /\ m_State \notin BeforeMatch
  <2>1. m_State \in MatchStates
    BY <1>5, StateIs DEF MatchStates
  <2>2. \/ Tick \/ RestartRound \/ RoundDraw \/ LO3Fires \/ WaitEnds
        \/ \E winner \in Team : RoundEnd(winner)
    BY <1>5, <2>1, MatchStep DEF RegularMatch
  <2>3. CASE Tick \/ RestartRound \/ RoundDraw \/ LO3Fires
    <3>1. roster' = roster
      BY <2>3 DEF Tick, RestartRound, RestartRoundFrozen, RoundDraw, LO3Fires, teamVars
    <3> QED BY <1>1, <2>3, <3>1, TimeCourse
  <2>4. CASE WaitEnds
    BY <1>1, <2>4 DEF WaitEnds, scoreVars, teamVars
  <2>5. ASSUME NEW winner \in Team, RoundEnd(winner) PROVE [Rules!Next]_(Rules!rulesVars)
    BY <2>5, RoundPlays
  <2> QED BY <2>2, <2>3, <2>4, <2>5
<1> QED BY <1>2, <1>3, <1>4, <1>5

LEMMA InitPlays == Init => Rules!Init
<1> SUFFICES ASSUME Init PROVE Rules!Init
  OBVIOUS
<1>1. TypeOK /\ ScoreInv
  BY InitFollows, InitType
<1>2. m_State \in BeforeMatch
  BY DEF Init, BeforeMatch
<1> QED BY <1>1, <1>2, BeforeReads DEF NothingOn, Rules!Init, WonByRoster, WonByRosterOT

\* CPugMod implements the rules of a match between two rosters, for every number of
\* rounds that is even, regular and overtime, and every delay that leaves the knife
\* round's vote its time: whatever the slots, votes, restarts and round ends do, the
\* scores of the sides are those of the rosters on them, the halves follow each other as
\* the rules say, and nobody wins but by the rules.
THEOREM PlaysByTheRules ==
    ASSUME RegularMatch, TiesGoOn PROVE Spec => KeepsTheRules
<1>1. Undisturbed
  BY DEF RegularMatch
<1>2. Spec => []ScoreInv
  BY <1>1, ScoreInvariant
<1>3. TypeOK /\ TypeOK' /\ CountInv /\ FlowInv /\ HalfWaits /\ ScoreInv /\ ScoreInv'
         /\ CourseInv /\ [Next]_vars => [Rules!Next]_(Rules!rulesVars)
  BY NextPlays
<1> QED BY <1>2, <1>3, InitPlays, TypeCorrect, CountInvariant, CourseFlows,
           CourseInvariant, PTL DEF Spec, KeepsTheRules, Rules!Spec
-----------------------------------------------------------------------------
(***************************************************************************)
(* The report of the match follows the score, if rounds are frozen for     *)
(* three seconds or more: CPugStats counts every round that a side wins,   *)
(* in the LO3 too, and then no round ends between two of the restarts.     *)
(***************************************************************************)
\* The next of the restarts that a half begins with is nearer than any round's end.
WarmupWaits ==
    m_State \in Half /\ m_Task["LO3_RESTART"].on =>
        m_Task["LO3_RESTART"].left < RoundTime

\* A restart of CPugLO3::Init is three seconds before the next, and restarts the round.
LEMMA RestartWaits ==
    ASSUME FreezeTime >= 3, NEW t \in SlotTasks, NEW restart, LO3Init(restart, t),
           restart > 0 \/ ~t["LO3_RESTART"].on
    PROVE  WarmupWaits'
<1>1. CASE restart > 0
  <2>1. /\ m_Task' = Create(t, "LO3_RESTART", 3, FALSE, restart - 1)
        /\ round' = [phase |-> "restart", left |-> 1]
    BY <1>1 DEF LO3Init
  <2>2. m_Task'["LO3_RESTART"].left = 3
    <3>1. PICK param : m_Task' = Create(t, "LO3_RESTART", 3, FALSE, param)
      BY <2>1
    <3> QED BY <3>1, SlotNames DEF Create, SlotTasks
  <2>3. RoundTime' = 1 + FreezeTime /\ FreezeTime \in Nat
    BY <2>1, ConfigAssumption DEF RoundTime
  <2> QED BY <2>2, <2>3 DEF WarmupWaits
<1>2. CASE ~(restart > 0)
  BY <1>2 DEF LO3Init, WarmupWaits
<1> QED BY <1>1, <1>2

\* No round ends while the restarts last.
LEMMA WarmupHolds ==
    ASSUME TypeOK, WarmupWaits, m_State \in Half, round = [phase |-> "play", left |-> 0]
    PROVE  ~m_Task["LO3_RESTART"].on
<1>1. RoundTime = 0
  BY DEF RoundTime
<1>2. m_Task["LO3_RESTART"].left \in Nat
  BY SlotTypes, SlotNames DEF SlotTasks, Task
<1> QED BY <1>1, <1>2 DEF WarmupWaits

LEMMA NextWarms ==
    ASSUME Undisturbed, FreezeTime >= 3
    PROVE  TypeOK /\ CountInv /\ FlowInv /\ WarmupWaits /\ [Next]_vars => WarmupWaits'
<1> SUFFICES ASSUME TypeOK, CountInv, FlowInv, WarmupWaits, [Next]_vars, m_State' \in Half
             PROVE  WarmupWaits'
  BY DEF WarmupWaits
<1>1. CASE UNCHANGED vars
  BY <1>1 DEF vars, gameVars, WarmupWaits, RoundTime
<1>2. CASE SetStateFires
  <2> DEFINE s == m_Task["SET_STATE"].param
             t == Rearm(m_Task, "SET_STATE")
  <2>1. SetState(s, t) /\ t \in SlotTasks /\ m_State' = s /\ Pending
    BY <1>2, StateFires
  <2> HIDE DEF s, t
  <2>2. LO3Init(4, t)
    BY <2>1, StatesDiffer
       DEF SetState, EnterFirstHalf, EnterKnifeRound, EnterSecondHalf, EnterOvertime, Half
  <2> QED BY <2>1, <2>2, RestartWaits
<1>3. ~ServerActivate
  <2>1. STATE_DEAD \notin Half
    BY StatesDiffer DEF Half
  <2> QED BY <2>1 DEF ServerActivate
<1>4. CASE Next /\ ~SetStateFires
  <2>1. m_State' = m_State /\ m_State \in Half
    BY <1>3, <1>4, StateStays
  <2>2. m_State \in MatchStates /\ ~m_Wait.run
    BY <2>1, PlayingAlone DEF Half, MatchStates, NothingRuns
  <2>3. \/ Tick \/ RestartRound \/ RoundDraw \/ LO3Fires
        \/ \E winner \in Team : RoundEnd(winner)
    BY <1>4, <2>2, MatchStep DEF WaitEnds
  <2>4. /\ m_Task \in SlotTasks /\ m_Task["LO3_RESTART"].left \in Nat
        /\ round \in Phase /\ FreezeTime \in Nat
    BY SlotTypes, SlotNames, ConfigAssumption DEF SlotTasks, Task, TypeOK, Phase
  <2>5. CASE Tick
    <3>1. m_Task' = Elapse(m_Task) /\ NoneDue(m_Task)
      BY <2>5 DEF Tick
    <3>2. /\ m_Task'["LO3_RESTART"].on = m_Task["LO3_RESTART"].on
          /\ m_Task["LO3_RESTART"].on =>
                m_Task'["LO3_RESTART"].left = m_Task["LO3_RESTART"].left - 1
      BY <2>4, <3>1, SlotNames DEF Elapse, NoneDue, IsDue, SlotTasks, Task
    <3>3. RoundTime \in Nat /\ RoundTime' \in Nat /\ RoundTime' >= RoundTime - 1
      BY <2>4, <2>5 DEF Tick, RoundTime, Phase
    <3> QED BY <2>1, <2>4, <3>2, <3>3 DEF WarmupWaits
  <2>6. CASE RestartRound
    <3>1. RoundTime' >= RoundTime /\ RoundTime' \in Nat /\ RoundTime \in Nat
      BY <2>4, <2>6 DEF RestartRound, RestartRoundFrozen, RoundTime, Phase
    <3> QED BY <2>4, <2>6, <3>1 DEF RestartRound, RestartRoundFrozen, WarmupWaits
  <2>7. CASE RoundDraw
    <3>1. ~m_Task["LO3_RESTART"].on
      BY <2>1, <2>7, WarmupHolds DEF RoundDraw
    <3> QED BY <2>7, <3>1 DEF RoundDraw, WarmupWaits
  <2>8. CASE LO3Fires
    <3>1. Rearm(m_Task, "LO3_RESTART") \in SlotTasks
          /\ ~Rearm(m_Task, "LO3_RESTART")["LO3_RESTART"].on
      BY SlotNames, SlotsRearmed DEF FlowInv
    <3> QED BY <2>8, <3>1, RestartWaits DEF LO3Fires
  <2>9. ASSUME NEW winner \in Team, RoundEnd(winner) PROVE WarmupWaits'
    <3>1. ~m_Task["LO3_RESTART"].on
      BY <2>1, <2>9, WarmupHolds DEF RoundEnd
    <3>2. ~m_Task'["LO3_RESTART"].on
      <4>1. CASE m_Task' = m_Task
        BY <3>1, <4>1
      <4>2. ASSUME NEW next,
                   m_Task' = Create(m_Task, "SET_STATE", RestartDelay + 1, FALSE, next)
            PROVE  ~m_Task'["LO3_RESTART"].on
        <5>1. m_Task'["LO3_RESTART"] = m_Task["LO3_RESTART"]
          BY <2>4, <4>2, SlotNames, CreatedElse
        <5> QED BY <3>1, <5>1
      <4> QED BY <2>1, <2>9, <4>1, <4>2, HalfRoundWrites DEF Undisturbed
    <3> QED BY <3>2 DEF WarmupWaits
  <2> QED BY <2>3, <2>5, <2>6, <2>7, <2>8, <2>9
<1> QED BY <1>1, <1>2, <1>4

LEMMA InitWarms == Init => WarmupWaits
BY StatesDiffer DEF Init, WarmupWaits, Half

LEMMA WarmupInvariant ==
    ASSUME Undisturbed, FreezeTime >= 3 PROVE Spec => []WarmupWaits
BY InitWarms, NextWarms, TypeCorrect, CountInvariant, FlowInvariant, PTL DEF Spec
-----------------------------------------------------------------------------
\* CPugStats only listens: beside it the match goes on as it does alone.
LEMMA ReportStep == [ReportNext]_reportVars => [Next]_vars
<1>1. ReportNext => Next
  BY DEF ReportNext, StateChanges, LevelEnds, LevelStarts, SideWins, Unheard, Next,
     TaskFires, VoteStops, PlayersAct
<1> QED BY <1>1 DEF reportVars

LEMMA ReportRefines == ReportSpec => Spec
BY ReportStep, PTL DEF ReportSpec, ReportInit, Spec

\* The report is one of the match, whose winner is known when a half asks for the end.
ReportType == m_Match \in [Score : [Team -> Nat], Rounds : Nat, Winner : {0} \cup Team]
SameScore == /\ \A team \in Team : m_Match.Score[team] = GetScore(m_Score, team)
             /\ m_Match.Rounds = GetRound(m_Score)
WinnerNamed == m_Match.Winner = Ahead([team \in Team |-> GetScore(m_Score, team)])

\* The inductive invariant of the report, next to CourseInv and WarmupWaits.
ReportInv == /\ ReportType
             /\ m_State \in MatchStates => SameScore
             /\ m_State = STATE_END => WinnerNamed
             /\ m_State \in Half /\ Pending => WinnerNamed

LEMMA ReportKept ==
    ASSUME ReportInv, UNCHANGED <<m_State, m_Score, m_Match>>,
           m_State \in Half /\ Pending' => Pending
    PROVE  ReportInv'
<1>1. ReportType' /\ SameScore' = SameScore /\ WinnerNamed' = WinnerNamed
  BY DEF ReportInv, ReportType, SameScore, WinnerNamed
<1> QED BY <1>1 DEF ReportInv

\* Outside a match the report is not compared.
LEMMA NotReported ==
    ASSUME ReportType', m_State' \notin MatchStates PROVE ReportInv'
BY DEF ReportInv, MatchStates, Half

LEMMA NoMatchType == NoMatch \in [Score : [Team -> Nat], Rounds : Nat, Winner : {0} \cup Team]
BY DEF NoMatch

\* In a match CPugStats misses only the clock and the restarts of rounds.
LEMMA MatchUnheard ==
    ASSUME Undisturbed, CountInv, FlowInv, m_State \in MatchStates, Unheard
    PROVE  Tick \/ RestartRound \/ RoundDraw \/ LO3Fires \/ WaitEnds
BY MatchRests DEF Unheard

\* The state is not changed without CPugStats.
LEMMA UnheardState ==
    ASSUME Unheard PROVE m_State' = m_State /\ m_Match' = m_Match
BY DEF Unheard, Tick, RestartRound, RestartRoundFrozen, RoundDraw, MapChangeFires,
   LO3Fires, VoteSwapFires, VoteOvertimeFires, VoteStops, VoteMapStops, VoteTeamStops,
   VoteSwapStops, VoteOvertimeStops, VoteEndStops, WaitEnds, Picks, LeaderRunsOut,
   LeaderPicks, PlayersAct, PlayerJoins, PlayerLeavesTeam, PlayerDrops, CaptainDrops,
   Surrender, PickableDrops, PlayersVoteMap, PlayersVote, AdminSetState

\* A round that a side wins counts in the report and in the score.
LEMMA WinReported ==
    ASSUME TypeOK, CountInv, FlowInv, WarmupWaits, ReportInv,
           NEW winner \in Team, SideWins(winner), m_State \in Half
    PROVE  ReportType' /\ SameScore' /\ WinnerNamed'
<1>1. CountRound(winner)
  <2>1. RoundEnd(winner) /\ Playing(m_State) /\ Up /\ m_State # STATE_KNIFE_ROUND
    BY StatesDiffer DEF SideWins, RoundEnd, Half
  <2>2. ~m_Task["LO3_RESTART"].on
    BY <2>1, WarmupHolds DEF RoundEnd
  <2>3. Counts
    BY <2>1, <2>2 DEF CountInv, LO3EndsLive
  <2> QED BY <2>1, <2>3 DEF RoundEnd
<1>2. \A team \in Team, half \in Half :
         m_Score'[team][half] = m_Score[team][half]
                    + (IF team = winner /\ half = m_State THEN 1 ELSE 0)
  BY <1>1, RoundCounted
<1>3. \A team \in Team : /\ GetScore(m_Score, team) \in Nat
                        /\ GetScore(m_Score', team)
                              = GetScore(m_Score, team) + (IF team = winner THEN 1 ELSE 0)
  BY <1>2, ScoreNumbers, StatesDiffer DEF GetScore
<1>4. GetRound(m_Score') = GetRound(m_Score) + 1
  BY <1>3, ScoreNumbers DEF GetRound
<1>5. /\ m_Match \in [Score : [Team -> Nat], Rounds : Nat, Winner : {0} \cup Team]
      /\ SameScore
  BY DEF ReportInv, ReportType, MatchStates, Half
<1> DEFINE score == [m_Match.Score EXCEPT ![winner] = @ + 1]
<1>6. m_Match' = [Score |-> score, Rounds |-> m_Match.Rounds + 1, Winner |-> Ahead(score)]
  BY DEF SideWins, ReportRound
<1>7. /\ score \in [Team -> Nat]
      /\ \A team \in Team : score[team] = GetScore(m_Score', team)
  BY <1>3, <1>5 DEF SameScore
<1> HIDE DEF score
<1>8. Ahead(score) \in {0} \cup Team
      /\ Ahead(score) = Ahead([team \in Team |-> GetScore(m_Score', team)])
  BY <1>7, ScoreNumbers DEF Ahead
<1> QED BY <1>4, <1>5, <1>6, <1>7, <1>8 DEF ReportType, SameScore, WinnerNamed

\* The report hears of a state when CPugMod has entered it.
LEMMA StateReported ==
    ASSUME TypeOK, TypeOK', RegularMatch, FlowInv, CourseInv, ReportInv,
           SetStateFires, m_Match' = Report(m_State')
    PROVE  ReportInv'
<1> DEFINE s == m_Task["SET_STATE"].param
           t == Rearm(m_Task, "SET_STATE")
<1>1. /\ Pending /\ SetState(s, t) /\ t \in SlotTasks /\ ~t["SET_STATE"].on
      /\ m_State' = s /\ s \in State /\ s = NextState
  BY StateFires DEF NextState
<1> HIDE DEF s, t
<1>2. m_Match \in [Score : [Team -> Nat], Rounds : Nat, Winner : {0} \cup Team]
  BY DEF ReportInv, ReportType
<1>3. s \in Half => ~Pending'
  BY <1>1, HalfEntered
<1>4. CASE s \notin MatchStates
  <2>1. m_Match' = NoMatch
    BY <1>1, <1>4, StatesDiffer DEF Report, MatchStates
  <2> QED BY <1>1, <1>4, <2>1, NoMatchType, NotReported DEF ReportType
<1>5. CASE s = STATE_FIRST_HALF
  <2>1. m_Match' = NoMatch /\ s \in Half /\ s # STATE_END
    BY <1>1, <1>5, StatesDiffer DEF Report, Half
  <2>2. m_Score' = ZeroScore
    BY <1>1, <1>5, SetStateClears DEF ClearScores
  <2>3. \A team \in Team : GetScore(m_Score', team) = 0
    BY <2>2, ScoreNumbers DEF GetScore, ZeroScore, NoRounds
  <2>4. SameScore'
    BY <2>1, <2>3, ScoreNumbers DEF SameScore, NoMatch, GetRound
  <2> QED BY <1>1, <1>3, <2>1, <2>4, NoMatchType DEF ReportInv, ReportType
<1>6. ASSUME s \in {STATE_SECOND_HALF, STATE_OVERTIME}
      PROVE  m_State = STATE_HALFTIME /\ AfterBreak = s /\ (FirstBreak \/ LaterBreak)
  <2>1. m_State = STATE_HALFTIME
    BY <1>1, <1>6, OnlyBreakLeads
  <2> QED BY <1>1, <2>1 DEF CourseInv, BreakRuns
<1>7. s \in {STATE_HALFTIME, STATE_END} => m_State \in Half
  BY <1>1, OnlyHalvesLead
<1>8. s \in {STATE_HALFTIME, STATE_SECOND_HALF, STATE_OVERTIME, STATE_END} => SameScore
  BY <1>6, <1>7 DEF ReportInv, MatchStates, Half
<1>9. CASE s = STATE_HALFTIME
  <2>1. SwapTeams
    BY <1>1, <1>9, StatesDiffer DEF SetState, EnterHalftime
  <2>2. ASSUME TeamsSwap PROVE SameScore' /\ ReportType'
    <3>1. \A team \in Team : m_Score'[team] = m_Score[Other(team)]
      BY <2>1, <2>2 DEF SwapTeams, SwapSides
    <3>2. m_Match' = [m_Match EXCEPT !.Score = SwapSides(@)]
      BY <1>1, <1>9, <2>2, StatesDiffer DEF Report
    <3>3. \A team \in Team : Other(team) \in Team
      BY ScoreNumbers DEF Other
    <3>4. \A team \in Team : GetScore(m_Score', team) = GetScore(m_Score, Other(team))
      BY <3>1 DEF GetScore
    <3>5. /\ m_Match'.Score \in [Team -> Nat]
          /\ \A team \in Team : m_Match'.Score[team] = m_Match.Score[Other(team)]
      BY <1>2, <3>2, <3>3 DEF SwapSides
    <3>6. m_Match'.Rounds = m_Match.Rounds /\ ReportType'
      BY <1>2, <3>2, <3>5 DEF ReportType
    <3>7. GetRound(m_Score') = GetRound(m_Score)
      BY <2>1, SwapKeeps
    <3> QED BY <1>8, <1>9, <3>3, <3>4, <3>5, <3>6, <3>7 DEF SameScore
  <2>3. ASSUME ~TeamsSwap PROVE SameScore' /\ ReportType'
    <3>1. m_Score' = m_Score /\ m_Match' = m_Match
      BY <1>1, <1>9, <2>1, <2>3, StatesDiffer DEF SwapTeams, scoreVars, Report
    <3> QED BY <1>2, <1>8, <1>9, <3>1 DEF SameScore, ReportType
  <2>4. SameScore' /\ ReportType'
    BY <2>2, <2>3
  <2> QED BY <1>1, <1>9, <2>4, StatesDiffer DEF ReportInv, Half
<1>10. s \in {STATE_SECOND_HALF, STATE_OVERTIME, STATE_END} => m_Match' = m_Match
  BY <1>1, StatesDiffer DEF Report
<1>11. CASE s \in {STATE_SECOND_HALF, STATE_OVERTIME}
  <2>1. m_Score' = m_Score
    <3>1. CASE s = STATE_SECOND_HALF
      <4>1. EnterSecondHalf(t) /\ FirstBreak
        BY <1>1, <1>6, <3>1, BreakLeadsTo, StatesDiffer DEF SetState
      <4> QED BY <1>1, <1>3, <3>1, <4>1, SecondEntered DEF Half
    <3>2. CASE s = STATE_OVERTIME
      BY <1>1, <3>2, StatesDiffer DEF SetState, EnterOvertime
    <3> QED BY <1>11, <3>1, <3>2
  <2>2. s \in Half /\ s # STATE_END
    BY <1>11, StatesDiffer DEF Half
  <2> QED BY <1>1, <1>2, <1>3, <1>8, <1>10, <1>11, <2>1, <2>2 DEF ReportInv, ReportType, SameScore
<1>12. CASE s = STATE_END
  <2>1. m_Score' = m_Score
    BY <1>1, <1>12, StatesDiffer DEF SetState, EnterEnd, scoreVars
  <2>2. WinnerNamed
    BY <1>1, <1>7, <1>12 DEF ReportInv
  <2>3. s \notin Half
    BY <1>12, StatesDiffer DEF Half
  <2> QED BY <1>1, <1>2, <1>8, <1>10, <1>12, <2>1, <2>2, <2>3
          DEF ReportInv, ReportType, SameScore, WinnerNamed
<1> QED BY <1>4, <1>5, <1>9, <1>11, <1>12 DEF MatchStates

LEMMA NextReports ==
    ASSUME RegularMatch, FreezeTime >= 3
    PROVE  /\ TypeOK /\ TypeOK' /\ CountInv /\ FlowInv /\ HalfWaits /\ CourseInv
           /\ WarmupWaits /\ ReportInv /\ [ReportNext]_reportVars
           => ReportInv'
<1> SUFFICES ASSUME TypeOK, TypeOK', CountInv, FlowInv, HalfWaits, CourseInv, WarmupWaits,
                    ReportInv, [ReportNext]_reportVars
             PROVE  ReportInv'
  OBVIOUS
<1>0. Undisturbed /\ ~Churn
  BY DEF RegularMatch, Undisturbed
<1>1. CASE UNCHANGED reportVars
  <2>1. UNCHANGED <<m_State, m_Score, m_Match, m_Task>>
    BY <1>1 DEF reportVars, vars, scoreVars
  <2> QED BY <2>1, ReportKept DEF Pending
<1>2. CASE StateChanges
  BY <1>0, <1>2, StateReported DEF StateChanges, SpectatorDrops
<1>3. CASE LevelEnds
  <2>1. m_State = STATE_VOTEMAP
    BY <1>3 DEF LevelEnds, ServerDeactivate, FlowInv, Alone
  <2>2. ~Live(m_State) /\ m_State \notin MatchStates
    BY <2>1, StatesDiffer DEF Live, MatchStates
  <2>3. m_State' = m_State /\ m_Match' = m_Match
    BY <1>3, <2>2 DEF LevelEnds, ServerDeactivate
  <2> QED BY <2>2, <2>3, NotReported DEF ReportInv, ReportType
<1>4. CASE LevelStarts
  <2>1. m_State' = STATE_DEAD /\ m_Match' = NoMatch /\ STATE_DEAD \notin MatchStates
    BY <1>4, StatesDiffer DEF LevelStarts, ServerActivate, MatchStates
  <2> QED BY <2>1, NoMatchType, NotReported DEF ReportType
<1>5. CASE Unheard /\ m_State \notin MatchStates
  BY <1>5, UnheardState, NotReported DEF ReportInv, ReportType
<1>6. CASE Unheard /\ m_State \in MatchStates
  <2>1. Tick \/ RestartRound \/ RoundDraw \/ LO3Fires \/ WaitEnds
    BY <1>0, <1>6, MatchUnheard
  <2>2. m_State' = m_State /\ m_Match' = m_Match
    BY <1>6, UnheardState
  <2>3. m_State \in Half => ~m_Wait.run
    BY PlayingAlone DEF NothingRuns
  <2>4. m_Score' = m_Score
    BY <2>1, TimeCourse DEF WaitEnds, scoreVars
  <2>5. m_State \in Half /\ Pending' => Pending
    <3>1. CASE Tick
      BY <3>1, SlotTypes, SlotNames DEF Tick, Elapse, SlotTasks, Task, Pending
    <3>2. CASE RestartRound \/ RoundDraw
      BY <3>2 DEF RestartRound, RestartRoundFrozen, RoundDraw, Pending
    <3>3. CASE LO3Fires
      BY <3>3, LO3FiresKeeps DEF Pending
    <3>4. CASE WaitEnds
      BY <2>3, <3>4 DEF WaitEnds
    <3> QED BY <2>1, <3>1, <3>2, <3>3, <3>4
  <2> QED BY <2>2, <2>4, <2>5, ReportKept
<1>7. ASSUME NEW winner \in Team, SideWins(winner) PROVE ReportInv'
  <2>1. m_State' = m_State /\ Playing(m_State)
    BY <1>7 DEF SideWins, RoundEnd
  <2>2. CASE m_State \in Half
    BY <1>7, <2>2, WinReported DEF ReportInv
  <2>3. CASE m_State \notin Half
    <3>1. m_State \notin MatchStates /\ m_Match' = m_Match
      BY <1>7, <2>1, <2>3, StatesDiffer DEF Playing, MatchStates, Half, SideWins, ReportRound
    <3> QED BY <2>1, <3>1, NotReported DEF ReportInv, ReportType
  <2> QED BY <2>2, <2>3
<1> QED BY <1>1, <1>2, <1>3, <1>4, <1>5, <1>6, <1>7 DEF ReportNext

LEMMA InitReports == ReportInit => ReportInv
<1>1. STATE_DEAD \notin MatchStates /\ STATE_DEAD # STATE_END /\ STATE_DEAD \notin Half
  BY StatesDiffer DEF MatchStates, Half
<1> QED BY <1>1, NoMatchType DEF ReportInit, Init, ReportInv, ReportType

\* CPugStats and CPugMod, which count rounds and swap sides each for itself and hear of
\* them from the same callbacks, agree on the score of every side through halves, swaps
\* and overtimes, and the report names who won, if nobody disturbs the match and rounds
\* are frozen for three seconds or more (esl.cfg: 15).
THEOREM ReportedAsPlayed ==
    ASSUME RegularMatch, FreezeTime >= 3 PROVE ReportSpec => []ReportFollowsScore
<1>1. Undisturbed
  BY DEF RegularMatch
<1>2. Spec => []WarmupWaits
  BY <1>1, WarmupInvariant
<1>3. /\ TypeOK /\ TypeOK' /\ CountInv /\ FlowInv /\ HalfWaits /\ CourseInv
      /\ WarmupWaits /\ ReportInv /\ [ReportNext]_reportVars
      => ReportInv'
  BY NextReports
<1>4. ReportSpec => []ReportInv
  BY <1>2, <1>3, InitReports, ReportRefines, TypeCorrect, CountInvariant, CourseFlows,
     CourseInvariant, PTL DEF ReportSpec
<1>5. ReportInv => ReportFollowsScore
  BY DEF ReportInv, ReportFollowsScore, ReportNamesWinner, SameScore, WinnerNamed,
     MatchStates, Half
<1> QED BY <1>4, <1>5, PTL
=============================================================================
