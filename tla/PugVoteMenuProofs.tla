------------------------- MODULE PugVoteMenuProofs -------------------------
(***************************************************************************)
(* A ballot of the vote menu never passes to whoever takes over the slot   *)
(* it was cast from, or the slot it was cast against; and a vote on the    *)
(* match takes the share that is asked for in votes of this half: for any  *)
(* number of slots and connections.                                        *)
(***************************************************************************)
EXTENDS PugVoteMenu, TLAPS

\* The slots hold connections, and the ballots of the table name slots that were
\* occupied when they were cast.
SlotInv == who \in [Slot -> Client \cup {Nobody}]

BallotOK(b) ==
    /\ b.by \in Slot /\ b.voter = who[b.by] /\ b.voter # Nobody
    /\ item = "KICK" => /\ b.for \in Slot /\ b.against = who[b.for]
                        /\ b.against # Nobody
BallotInv == \A b \in m_Vote : BallotOK(b)

IInv == SlotInv /\ BallotInv

\* A ballot that a player casts is his, and one to kick is about a player.
LEMMA CastIsOwn ==
    ASSUME BallotInv, NEW s \in Slot, who[s] # Nobody, NEW for,
           item = "KICK" => for \in Slot /\ who[for] # Nobody
    PROVE  \A b \in Cast(s, for) : BallotOK(b)
<1>1. BallotOK(Ballot(s, for))
  BY DEF BallotOK, Ballot
<1> QED BY <1>1 DEF Cast, BallotInv

\* A step that adds no ballots, and keeps the slots and the item.
LEMMA FewerBallots ==
    ASSUME IInv, who' = who, item' = item, m_Vote' \subseteq m_Vote
    PROVE  IInv'
BY DEF IInv, SlotInv, BallotInv, BallotOK

\* A change of state makes the ballots older, and changes nothing else about them.
LEMMA AgedBallots ==
    ASSUME IInv, who' = who, item' = item, m_Vote' = Aged(m_Vote)
    PROVE  IInv'
<1>1. ASSUME NEW b \in m_Vote' PROVE BallotOK(b)'
  <2>1. PICK a \in m_Vote : b = [a EXCEPT !.old = TRUE]
    BY <1>1 DEF Aged
  <2>2. BallotOK(a)
    BY DEF IInv, BallotInv
  <2>3. b.by = a.by /\ b.for = a.for /\ b.voter = a.voter /\ b.against = a.against
    BY <2>1
  <2> QED BY <2>2, <2>3 DEF BallotOK
<1> QED BY <1>1 DEF IInv, SlotInv, BallotInv

LEMMA SetStateKeeps ==
    ASSUME IInv, who' = who, item' = item, NEW next, SetState(next)
    PROVE  IInv'
<1>1. m_Vote' = Aged(m_Vote) \/ m_Vote' \subseteq m_Vote
  BY DEF SetState, RestartRound
<1> QED BY <1>1, AgedBallots, FewerBallots

\* A step that casts one ballot or none, of a player in s.
LEMMA OneBallot ==
    ASSUME IInv, who' = who, item' = item,
           NEW s \in Slot, who[s] # Nobody, NEW for,
           item = "KICK" => for \in Slot /\ who[for] # Nobody,
           m_Vote' \subseteq Cast(s, for)
    PROVE  IInv'
<1>1. \A b \in Cast(s, for) : BallotOK(b)
  BY CastIsOwn DEF IInv
<1> QED BY <1>1 DEF IInv, SlotInv, BallotInv, BallotOK

\* A client that leaves takes its ballots along, and those about it.
LEMMA LeavingKeeps ==
    ASSUME IInv, NEW s \in Slot, Leaves(s), item' = item
    PROVE  IInv'
<1>1. SlotInv'
  BY DEF IInv, SlotInv, Leaves
<1>2. ASSUME NEW b \in m_Vote' PROVE BallotOK(b)'
  <2>1. b \in m_Vote /\ b.by # s /\ b.for # s
    BY <1>2 DEF Leaves, BallotsWithout
  <2>2. BallotOK(b)
    BY <2>1 DEF IInv, BallotInv
  <2> QED BY <2>1, <2>2 DEF BallotOK, Leaves, IInv, SlotInv
<1> QED BY <1>1, <1>2 DEF IInv, BallotInv

\* A vote on the match, which a success clears.
LEMMA DecidingKeeps ==
    ASSUME IInv, NEW s \in Slot, who[s] # Nobody, item # "KICK",
           NEW for, NEW votes, NEW needs, Decide(s, for, votes, needs)
    PROVE  IInv'
<1>1. m_Vote' \subseteq Cast(s, for) /\ who' = who /\ item' = item
  BY DEF Decide
<1> QED BY <1>1, OneBallot

LEMMA InitIInv == Init => IInv
BY DEF Init, IInv, SlotInv, BallotInv, BallotOK

LEMMA StepIInv == IInv /\ [Next]_voteMenuVars => IInv'
<1> SUFFICES ASSUME IInv, [Next]_voteMenuVars PROVE IInv'
  OBVIOUS
<1>1. ASSUME NEW s \in Slot, VoteKick(s) PROVE IInv'
  BY <1>1, FewerBallots DEF VoteKick, ShowMenu
<1>2. ASSUME NEW s \in Slot, VoteKickHandle(s) PROVE IInv'
  <2>1. PICK i \in menu[s], t \in Player :
           /\ s \in Player /\ who' = who /\ item' = item
           /\ m_Vote' = Cast(s, t) \/ m_Vote' = m_Vote
    BY <1>2 DEF VoteKickHandle
  <2>2. t \in Slot /\ who[t] # Nobody /\ who[s] # Nobody
    BY <2>1 DEF Player
  <2>3. m_Vote' \subseteq Cast(s, t)
    BY <2>1 DEF Cast
  <2> QED BY <2>1, <2>2, <2>3, OneBallot
<1>3. ASSUME NEW s \in Slot, VoteMap(s) PROVE IInv'
  BY <1>3, FewerBallots DEF VoteMap, ShowMenu
<1>4. ASSUME NEW s \in Slot, VoteMapHandle(s) PROVE IInv'
  <2>1. PICK i \in menu[s] :
           /\ s \in Player /\ item = "MAP" /\ who' = who /\ item' = item
           /\ m_Vote' = Cast(s, i.map) \/ m_Vote' = m_Vote
    BY <1>4 DEF VoteMapHandle
  <2>2. m_Vote' \subseteq Cast(s, i.map)
    BY <2>1 DEF Cast
  <2>3. who[s] # Nobody /\ item # "KICK"
    BY <2>1 DEF Player
  <2> QED BY <2>1, <2>2, <2>3, OneBallot
<1>5. ASSUME NEW s \in Slot, VotePause(s) \/ VoteSurrender(s) PROVE IInv'
  <2>1. DecideTeam(s) /\ who[s] # Nobody /\ item # "KICK"
    BY <1>5 DEF VotePause, VoteSurrender, InTeams, Player
  <2> QED BY <2>1, DecidingKeeps DEF DecideTeam
<1>6. ASSUME NEW s \in Slot, VoteRestart(s) PROVE IInv'
  <2>1. who[s] # Nobody /\ item # "KICK"
    BY <1>6 DEF VoteRestart, InTeams, Player
  <2> QED BY <1>6, <2>1, DecidingKeeps DEF VoteRestart
<1>7. ASSUME NEW s \in Slot, DropClient(s) PROVE IInv'
  BY <1>7, LeavingKeeps DEF DropClient
\* The slot is free, so no ballot names it.
<1>8. ASSUME NEW s \in Slot, NEW c \in Client, Connect(s, c) PROVE IInv'
  <2>1. SlotInv'
    BY <1>8 DEF Connect, IInv, SlotInv
  <2>2. ASSUME NEW b \in m_Vote' PROVE BallotOK(b)'
    <3>1. BallotOK(b) /\ who[s] = Nobody
      BY <1>8, <2>2 DEF Connect, IInv, BallotInv, Player
    <3>2. b.by # s /\ (item = "KICK" => b.for # s)
      BY <3>1 DEF BallotOK
    <3> QED BY <1>8, <3>1, <3>2 DEF Connect, BallotOK, IInv, SlotInv
  <2> QED BY <2>1, <2>2 DEF IInv, BallotInv
<1>9. ASSUME NEW s \in Slot, NEW to, ChooseTeam(s, to) PROVE IInv'
  BY <1>9, FewerBallots DEF ChooseTeam
<1>14. ASSUME NEW s \in Slot, NEW to, TeamHandle(s, to) PROVE IInv'
  BY <1>14, FewerBallots DEF TeamHandle
<1>10. CASE Restarts
  BY <1>10, FewerBallots DEF Restarts, RestartRound
<1>11. CASE MatchGoesOn
  BY <1>11, SetStateKeeps DEF MatchGoesOn
<1>12. CASE TakesEffect
  <2>1. CASE \E s \in Slot : Leaves(s)
    BY <1>12, <2>1, LeavingKeeps DEF TakesEffect
  <2>2. CASE ServerActivate
    BY <1>12, <2>2, FewerBallots DEF TakesEffect, ServerActivate
  <2>3. CASE \E next \in {STATE_FIRST_HALF, STATE_DEATHMATCH, STATE_END} : Takes(next)
    BY <1>12, <2>3, SetStateKeeps DEF Takes, TakesEffect
  <2>4. CASE UNCHANGED <<who, m_Vote>>
    BY <1>12, <2>4, FewerBallots DEF TakesEffect
  <2> QED BY <1>12, <2>1, <2>2, <2>3, <2>4 DEF TakesEffect
<1>13. CASE UNCHANGED voteMenuVars
  BY <1>13, FewerBallots DEF voteMenuVars
<1> QED BY <1>1, <1>2, <1>3, <1>4, <1>5, <1>6, <1>7, <1>8, <1>9, <1>10, <1>11,
           <1>12, <1>13, <1>14 DEF Next

\* Whoever comes, goes and takes over slots, a ballot is one of the player in its
\* slot, and one to kick is about the player in the target's slot.
THEOREM BallotsBelong == Spec => []VotesBelong
<1>1. IInv => VotesBelong
  BY DEF IInv, BallotInv, BallotOK, VotesBelong
<1> QED BY <1>1, InitIInv, StepIInv, PTL DEF Spec
-----------------------------------------------------------------------------
(***************************************************************************)
(* Types.                                                                  *)
(***************************************************************************)
\* The side of a voter is an option, and so are the other things to vote for.
BallotType(b) == b.by \in Slot /\ b.for \in Option /\ b.voter \in Client

\* Decide casts the ballot of a player, or clears the table.
LEMMA CastType ==
    ASSUME VoteMenuTypeOK, NEW s \in Player, NEW for \in Option
    PROVE  \A b \in Cast(s, for) : BallotType(b)
<1>1. who[s] \in Client /\ s \in Slot
  BY DEF VoteMenuTypeOK, Player
<1>2. BallotType(Ballot(s, for))
  BY <1>1 DEF BallotType, Ballot
<1> QED BY <1>2 DEF Cast, VoteMenuTypeOK, BallotType

\* Nobody comes or goes, and the match goes on as before.
LEMMA VotingType ==
    ASSUME VoteMenuTypeOK, UNCHANGED <<item, m_State, who, m_iTeam, restarts>>,
           \A b \in m_Vote' : BallotType(b),
           menu' \in [Slot -> SUBSET MenuItem]
    PROVE  VoteMenuTypeOK'
BY DEF VoteMenuTypeOK, BallotType, Player, MenuItem

LEMMA DecideType ==
    ASSUME VoteMenuTypeOK, NEW s \in Player, NEW for \in Option, NEW votes, NEW needs,
           Decide(s, for, votes, needs)
    PROVE  VoteMenuTypeOK'
<1>1. \A b \in m_Vote' : BallotType(b)
  BY CastType DEF Decide
<1> QED BY <1>1, VotingType DEF Decide, VoteMenuTypeOK

LEMMA LeavesType ==
    ASSUME VoteMenuTypeOK, NEW s \in Slot, Leaves(s),
           UNCHANGED <<item, m_State, menu, restarts>>
    PROVE  VoteMenuTypeOK'
<1>1. m_Vote' \subseteq m_Vote
  BY DEF Leaves, BallotsWithout
<1>2. who' \in [Slot -> Client \cup {Nobody}]
      /\ m_iTeam' \in [Slot -> Side \cup {"none"}]
  BY DEF Leaves, VoteMenuTypeOK
<1>3. \A t \in Slot : t \in Player' => t \in Player /\ who'[t] = who[t]
  BY DEF Leaves, Player, VoteMenuTypeOK
<1> QED BY <1>1, <1>2, <1>3 DEF VoteMenuTypeOK, Player, MenuItem

\* The swap and the balance of sides keep everyone on some side or none.
LEMMA SidesType ==
    ASSUME VoteMenuTypeOK
    PROVE  /\ SwappedSides \in [Slot -> Side \cup {"none"}]
           /\ BalancedSides \subseteq [Slot -> Side \cup {"none"}]
<1>1. \A s \in Slot : m_iTeam[s] \in Side \cup {"none"}
  BY DEF VoteMenuTypeOK
<1>2. \A side : OtherSide(side) \in Side
  BY DEF OtherSide, Side
<1> QED BY <1>1, <1>2 DEF SwappedSides, BalancedSides

LEMMA SetStateType ==
    ASSUME VoteMenuTypeOK, UNCHANGED <<item, who, menu>>,
           NEW next \in {STATE_DEATHMATCH, STATE_FIRST_HALF, STATE_HALFTIME,
                         STATE_SECOND_HALF, STATE_END},
           SetState(next)
    PROVE  VoteMenuTypeOK'
<1>1. m_iTeam' \in [Slot -> Side \cup {"none"}]
  <2>1. m_iTeam' = m_iTeam \/ m_iTeam' = SwappedSides \/ m_iTeam' \in BalancedSides
    BY DEF SetState
  <2> QED BY <2>1, SidesType DEF VoteMenuTypeOK
<1>3. \A b \in m_Vote' : b.by \in Slot /\ b.for \in Option /\ b.voter \in Client
  <2>1. ASSUME NEW b \in Aged(m_Vote)
        PROVE  b.by \in Slot /\ b.for \in Option /\ b.voter \in Client
    <3>1. PICK a \in m_Vote : b = [a EXCEPT !.old = TRUE]
      BY <2>1 DEF Aged
    <3>2. b.by = a.by /\ b.for = a.for /\ b.voter = a.voter
      BY <3>1
    <3> QED BY <3>2 DEF VoteMenuTypeOK
  <2>2. m_Vote' = Aged(m_Vote) \/ m_Vote' = {}
    BY DEF SetState, RestartRound
  <2> QED BY <2>1, <2>2
<1>2. restarts' \in 0 .. LO3Restarts /\ m_State' = next
  BY VoteMenuAssumption DEF SetState, VoteMenuTypeOK
<1> QED BY <1>1, <1>2, <1>3 DEF VoteMenuTypeOK, Player, MenuItem

\* The table, the menus and the counter of restarts stay in bounds, and no connection
\* holds two slots.
THEOREM VoteMenuTypeCorrect == Spec => []VoteMenuTypeOK
<1>1. Init => VoteMenuTypeOK
  BY VoteMenuAssumption DEF Init, VoteMenuTypeOK, NoMenus, Player, MenuItem
<1>2. VoteMenuTypeOK /\ [Next]_voteMenuVars => VoteMenuTypeOK'
  <2> SUFFICES ASSUME VoteMenuTypeOK, [Next]_voteMenuVars PROVE VoteMenuTypeOK'
    OBVIOUS
  <2>0. \A b \in m_Vote : BallotType(b)
    BY DEF VoteMenuTypeOK, BallotType
  <2>1. ASSUME NEW s \in Slot, VoteKick(s) PROVE VoteMenuTypeOK'
    <3> DEFINE items == {[userid |-> who[t], disabled |-> Voted(s, t)] :
                            t \in {u \in Team(s) \ {s} : who[u] \notin Immune}}
    <3>1. ASSUME NEW t \in Team(s)
          PROVE  [userid |-> who[t], disabled |-> Voted(s, t)] \in MenuItem
      <4>1. who[t] \in Client
        BY DEF Team, Player, VoteMenuTypeOK
      <4>2. Voted(s, t) \in BOOLEAN
        BY DEF Voted
      <4>3. item = "KICK"
        BY <2>1 DEF VoteKick
      <4> QED BY <4>1, <4>2, <4>3 DEF MenuItem
    <3>2. menu' = [menu EXCEPT ![s] = items] /\ m_Vote' = m_Vote
          /\ UNCHANGED <<item, m_State, who, m_iTeam, restarts>>
      BY <2>1 DEF VoteKick, ShowMenu
    <3>3. menu' \in [Slot -> SUBSET MenuItem]
      BY <3>1, <3>2 DEF VoteMenuTypeOK
    <3> QED BY <2>0, <3>2, <3>3, VotingType
  <2>2. ASSUME NEW s \in Slot, VoteKickHandle(s) PROVE VoteMenuTypeOK'
    <3>1. PICK t \in Player :
             /\ s \in Player /\ menu' = [menu EXCEPT ![s] = {}]
             /\ UNCHANGED <<item, m_State, who, m_iTeam, restarts>>
             /\ m_Vote' = Cast(s, t) \/ m_Vote' = m_Vote
      BY <2>2 DEF VoteKickHandle
    <3>2. t \in Option
      BY DEF Option, Player
    <3>3. menu' \in [Slot -> SUBSET MenuItem]
      BY <3>1 DEF VoteMenuTypeOK
    <3> QED BY <2>0, <3>1, <3>2, <3>3, CastType, VotingType
  <2>3. ASSUME NEW s \in Slot, VoteMap(s) PROVE VoteMenuTypeOK'
    <3> DEFINE items == {[map |-> map, disabled |-> Voted(s, map)] : map \in Map}
    <3>1. ASSUME NEW map \in Map
          PROVE  [map |-> map, disabled |-> Voted(s, map)] \in MenuItem
      <4>1. Voted(s, map) \in BOOLEAN
        BY DEF Voted
      <4>2. item = "MAP"
        BY <2>3 DEF VoteMap
      <4> QED BY <4>1, <4>2 DEF MenuItem
    <3>2. menu' = [menu EXCEPT ![s] = items] /\ m_Vote' = m_Vote
          /\ UNCHANGED <<item, m_State, who, m_iTeam, restarts>>
      BY <2>3 DEF VoteMap, ShowMenu
    <3>3. menu' \in [Slot -> SUBSET MenuItem]
      BY <3>1, <3>2 DEF VoteMenuTypeOK
    <3> QED BY <2>0, <3>2, <3>3, VotingType
  <2>4. ASSUME NEW s \in Slot, VoteMapHandle(s) PROVE VoteMenuTypeOK'
    <3>1. PICK i \in menu[s] :
             /\ s \in Player /\ item = "MAP" /\ menu' = [menu EXCEPT ![s] = {}]
             /\ UNCHANGED <<item, m_State, who, m_iTeam, restarts>>
             /\ m_Vote' = Cast(s, i.map) \/ m_Vote' = m_Vote
      BY <2>4 DEF VoteMapHandle
    <3>2. i.map \in Option
      BY <3>1 DEF Option, VoteMenuTypeOK, MenuItem
    <3>3. menu' \in [Slot -> SUBSET MenuItem]
      BY <3>1 DEF VoteMenuTypeOK
    <3> QED BY <2>0, <3>1, <3>2, <3>3, CastType, VotingType
  <2>5. ASSUME NEW s \in Slot, VotePause(s) \/ VoteSurrender(s) PROVE VoteMenuTypeOK'
    <3>1. DecideTeam(s) /\ s \in Player /\ m_iTeam[s] \in Option
      BY <2>5 DEF VotePause, VoteSurrender, InTeams, Option
    <3> QED BY <3>1, DecideType DEF DecideTeam
  <2>6. ASSUME NEW s \in Slot, VoteRestart(s) PROVE VoteMenuTypeOK'
    <3>1. s \in Player /\ item \in Option
      BY <2>6 DEF VoteRestart, InTeams, Option
    <3> QED BY <2>6, <3>1, DecideType DEF VoteRestart
  <2>7. ASSUME NEW s \in Slot, DropClient(s) PROVE VoteMenuTypeOK'
    BY <2>7, LeavesType DEF DropClient
  <2>8. ASSUME NEW s \in Slot, NEW c \in Client, Connect(s, c) PROVE VoteMenuTypeOK'
    <3>1. who' = [who EXCEPT ![s] = c] /\ \A t \in Slot : who[t] # c
          /\ menu' = [menu EXCEPT ![s] = {}]
          /\ UNCHANGED <<item, m_State, m_iTeam, m_Vote, restarts>>
      BY <2>8 DEF Connect
    <3>2. \A t, u \in Slot : who'[t] # Nobody /\ who'[t] = who'[u] => t = u
      BY <3>1 DEF VoteMenuTypeOK, Player, MenuItem
    <3> QED BY <3>1, <3>2 DEF VoteMenuTypeOK, Player, MenuItem
  <2>9. ASSUME NEW s \in Slot, NEW to \in Side \cup {"none"}, ChooseTeam(s, to)
        PROVE VoteMenuTypeOK'
    BY <2>9 DEF ChooseTeam, VoteMenuTypeOK, Player, MenuItem
  <2>14. ASSUME NEW s \in Slot, NEW to \in Side \cup {"none"}, TeamHandle(s, to)
         PROVE VoteMenuTypeOK'
    BY <2>14 DEF TeamHandle, VoteMenuTypeOK, Player, MenuItem
  <2>10. CASE Restarts
    BY <2>10, VoteMenuAssumption DEF Restarts, RestartRound, VoteMenuTypeOK, Player, MenuItem
  <2>11. CASE MatchGoesOn
    <3>1. PICK next \in {STATE_DEATHMATCH, STATE_FIRST_HALF, STATE_HALFTIME,
                         STATE_SECOND_HALF, STATE_END} : SetState(next)
      BY <2>11 DEF MatchGoesOn, FollowedBy
    <3> QED BY <2>11, <3>1, SetStateType DEF MatchGoesOn
  <2>12. CASE TakesEffect
    <3>0. item' = item
      BY <2>12 DEF TakesEffect
    <3>1. CASE \E s \in Slot : Leaves(s) /\ UNCHANGED <<m_State, menu, restarts>>
      BY <3>0, <3>1, LeavesType
    <3>2. CASE ServerActivate
      BY <3>0, <3>2, VoteMenuAssumption
         DEF ServerActivate, VoteMenuTypeOK, Player, NoMenus, MenuItem
    <3>3. CASE \E next \in {STATE_FIRST_HALF, STATE_DEATHMATCH, STATE_END} : Takes(next)
      BY <3>0, <3>3, SetStateType DEF Takes
    <3>4. CASE UNCHANGED <<m_State, who, m_iTeam, m_Vote, menu, restarts>>
      BY <3>0, <3>4 DEF VoteMenuTypeOK, Player, MenuItem
    <3> QED BY <2>12, <3>1, <3>2, <3>3, <3>4 DEF TakesEffect
  <2>13. CASE UNCHANGED voteMenuVars
    BY <2>13 DEF voteMenuVars, VoteMenuTypeOK, Player, MenuItem
  <2> QED BY <2>1, <2>2, <2>3, <2>4, <2>5, <2>6, <2>7, <2>8, <2>9, <2>10, <2>11,
             <2>12, <2>13, <2>14 DEF Next
<1> QED BY <1>1, <1>2, PTL DEF Spec
-----------------------------------------------------------------------------
(***************************************************************************)
(* Votes on the match.                                                     *)
(***************************************************************************)
OnTheMatch == item \notin {"KICK", "MAP"}

\* In a half that has begun to restart, every ballot is one of this half: the
\* restart cleared the table.
BallotsAreNew ==
    m_State \in Half /\ restarts < LO3Restarts => \A b \in m_Vote : ~b.old

\* A ballot that is cast is new, and the match stays as it is.
LEMMA CastIsNew ==
    ASSUME BallotsAreNew, UNCHANGED <<m_State, restarts>>, NEW s, NEW for,
           m_Vote' \subseteq Cast(s, for)
    PROVE  BallotsAreNew'
<1>1. ~Ballot(s, for).old
  BY DEF Ballot
<1> QED BY <1>1 DEF BallotsAreNew, Cast

LEMMA NoneIsCast ==
    ASSUME BallotsAreNew, UNCHANGED <<m_State, restarts>>, m_Vote' \subseteq m_Vote
    PROVE  BallotsAreNew'
BY DEF BallotsAreNew

\* A half begins with restarts that are all to come; no other state is a half.
LEMMA SetStateIsNew ==
    ASSUME NEW next, SetState(next)
    PROVE  BallotsAreNew'
<1>1. m_State' = next /\ (next \in Half => restarts' = LO3Restarts)
  BY DEF SetState
<1> QED BY <1>1, VoteMenuAssumption DEF BallotsAreNew

LEMMA StepBallotsAreNew == BallotsAreNew /\ [Next]_voteMenuVars => BallotsAreNew'
<1> SUFFICES ASSUME BallotsAreNew, [Next]_voteMenuVars PROVE BallotsAreNew'
  OBVIOUS
<1>1. ASSUME NEW s \in Slot, VoteKick(s) \/ VoteMap(s) PROVE BallotsAreNew'
  BY <1>1, NoneIsCast DEF VoteKick, VoteMap, ShowMenu
<1>2. ASSUME NEW s \in Slot, VoteKickHandle(s) PROVE BallotsAreNew'
  <2>1. PICK t \in Player : /\ UNCHANGED <<m_State, restarts>>
                            /\ m_Vote' = Cast(s, t) \/ m_Vote' = m_Vote
    BY <1>2 DEF VoteKickHandle
  <2> QED BY <2>1, CastIsNew, NoneIsCast
<1>3. ASSUME NEW s \in Slot, VoteMapHandle(s) PROVE BallotsAreNew'
  <2>1. PICK i \in menu[s] : /\ UNCHANGED <<m_State, restarts>>
                             /\ m_Vote' = Cast(s, i.map) \/ m_Vote' = m_Vote
    BY <1>3 DEF VoteMapHandle
  <2> QED BY <2>1, CastIsNew, NoneIsCast
<1>4. ASSUME NEW s \in Slot, VotePause(s) \/ VoteSurrender(s) \/ VoteRestart(s)
      PROVE BallotsAreNew'
  <2>1. PICK for, votes, needs : Decide(s, for, votes, needs)
    BY <1>4 DEF VotePause, VoteSurrender, VoteRestart, DecideTeam
  <2>2. UNCHANGED <<m_State, restarts>> /\ m_Vote' \subseteq Cast(s, for)
    BY <2>1 DEF Decide
  <2> QED BY <2>2, CastIsNew
<1>5. ASSUME NEW s \in Slot, DropClient(s) PROVE BallotsAreNew'
  BY <1>5, NoneIsCast DEF DropClient, Leaves, BallotsWithout
<1>6. ASSUME NEW s \in Slot, NEW c \in Client, Connect(s, c) PROVE BallotsAreNew'
  BY <1>6, NoneIsCast DEF Connect
<1>7. ASSUME NEW s \in Slot, NEW to, ChooseTeam(s, to) \/ TeamHandle(s, to)
      PROVE BallotsAreNew'
  BY <1>7, NoneIsCast DEF ChooseTeam, TeamHandle
<1>8. CASE Restarts
  BY <1>8 DEF Restarts, RestartRound, BallotsAreNew
<1>9. CASE MatchGoesOn
  BY <1>9, SetStateIsNew DEF MatchGoesOn
<1>10. CASE TakesEffect
  <2>1. CASE \E s \in Slot : Leaves(s) /\ UNCHANGED <<m_State, menu, restarts>>
    BY <2>1, NoneIsCast DEF Leaves, BallotsWithout
  <2>2. CASE ServerActivate
    BY <2>2 DEF ServerActivate, BallotsAreNew
  <2>3. CASE \E next \in {STATE_FIRST_HALF, STATE_DEATHMATCH, STATE_END} : Takes(next)
    BY <2>3, SetStateIsNew DEF Takes
  <2>4. CASE UNCHANGED <<m_State, who, m_iTeam, m_Vote, menu, restarts>>
    BY <2>4, NoneIsCast
  <2> QED BY <1>10, <2>1, <2>2, <2>3, <2>4 DEF TakesEffect
<1>11. CASE UNCHANGED voteMenuVars
  BY <1>11, NoneIsCast DEF voteMenuVars
<1> QED BY <1>1, <1>2, <1>3, <1>4, <1>5, <1>6, <1>7, <1>8, <1>9, <1>10, <1>11 DEF Next

\* When every ballot is its voter's and new, those that count are the votes in favour.
LEMMA InFavourIsCounted ==
    ASSUME BallotInv, \A b \in m_Vote : ~b.old, NEW s, NEW for, NEW last,
           last = [for |-> for, by |-> s]
    PROVE  InFavour(last) = IF item \in {"PAUSE", "SURRENDER"}
                            THEN VotesFor(Cast(s, for), for) \cap Team(s)
                            ELSE VotesFor(Cast(s, for), for)
<1> DEFINE own == {b \in m_Vote : b.for = last.for /\ ~b.old /\ b.voter = who[b.by]}
           all == {b.by : b \in own} \cup {last.by}
<1>0. last.by = s /\ last.for = for
  OBVIOUS
<1>1. own = {b \in m_Vote : b.for = for}
  BY <1>0 DEF BallotInv, BallotOK
<1>2. {b \in Cast(s, for) : b.for = for} = own \cup {Ballot(s, for)}
  BY <1>1 DEF Cast, Ballot
<1>3. Ballot(s, for).by = s
  BY DEF Ballot
<1>4. all = VotesFor(Cast(s, for), for)
  BY <1>0, <1>2, <1>3 DEF VotesFor
<1>5. InFavour(last) = IF item \in {"PAUSE", "SURRENDER"} THEN all \cap Team(s) ELSE all
  BY <1>0 DEF InFavour
<1> QED BY <1>4, <1>5

\* A vote that takes effect has the share that the cvar asks for in votes of this
\* half, of clients that are still there: no ballot of a previous half, of whoever was
\* in the slot before or, where a team decides, of another team helps it.
THEOREM MajorityDecides == Spec => DecidedByMajority
<1> DEFINE Decided == outcome' # outcome /\ outcome' # NoOutcome
           Due == Decided /\ m_State \in Half /\ restarts < LO3Restarts /\ OnTheMatch
           Majority == Passes(InFavour(outcome'), Voters(outcome'.by))
<1>1. Init => BallotsAreNew
  BY DEF Init, BallotsAreNew
<1>2. BallotsAreNew /\ IInv /\ [Next]_voteMenuVars => [Due => Majority]_voteMenuVars
  <2> SUFFICES ASSUME BallotsAreNew, IInv, Next, Due PROVE Majority
    OBVIOUS
  <2>0. BallotInv /\ \A b \in m_Vote : ~b.old
    BY DEF BallotsAreNew, IInv
  <2>1. PICK s \in Slot : VotePause(s) \/ VoteSurrender(s) \/ VoteRestart(s)
    BY DEF Next, OnTheMatch, VoteKick, VoteMap, ShowMenu, VoteKickHandle, VoteMapHandle,
           DropClient, Connect, ChooseTeam, TeamHandle, Restarts, MatchGoesOn, TakesEffect
  <2>2. CASE VotePause(s) \/ VoteSurrender(s)
    <3>1. /\ DecideTeam(s) /\ item \in {"PAUSE", "SURRENDER"}
      BY <2>2 DEF VotePause, VoteSurrender
    <3>2. outcome' = [for |-> m_iTeam[s], by |-> s]
          /\ Passes(VotesFor(Cast(s, m_iTeam[s]), m_iTeam[s]) \cap Team(s), Team(s))
      BY <3>1 DEF DecideTeam, Decide
    <3>3. Voters(s) = Team(s) /\ outcome'.by = s
      BY <3>1, <3>2 DEF Voters
    <3> QED BY <2>0, <3>1, <3>2, <3>3, InFavourIsCounted
  <2>3. CASE VoteRestart(s)
    <3>1. Decide(s, item, VotesFor(Cast(s, item), item), InTeams)
          /\ item \notin {"PAUSE", "SURRENDER"}
      BY <2>3 DEF VoteRestart
    <3>2. outcome' = [for |-> item, by |-> s]
          /\ Passes(VotesFor(Cast(s, item), item), InTeams)
      BY <3>1 DEF Decide
    <3>3. Voters(s) = InTeams /\ outcome'.by = s
      BY <3>1, <3>2 DEF Voters
    <3> QED BY <2>0, <3>1, <3>2, <3>3, InFavourIsCounted
  <2> QED BY <2>1, <2>2, <2>3
<1>3. [Due => Majority]_voteMenuVars
      <=> [outcome' # outcome /\ outcome' # NoOutcome
           /\ m_State \in Half /\ restarts < LO3Restarts
           /\ item \notin {"KICK", "MAP"}
             => Passes(InFavour(outcome'), Voters(outcome'.by))]_voteMenuVars
  BY DEF OnTheMatch
<1> QED BY <1>1, <1>2, <1>3, InitIInv, StepIInv, StepBallotsAreNew, PTL
        DEF Spec, DecidedByMajority
=============================================================================
