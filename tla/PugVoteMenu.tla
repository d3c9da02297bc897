---------------------------- MODULE PugVoteMenu ----------------------------
(***************************************************************************)
(* CPugVoteMenu: the votes that players begin themselves.  Its six tables  *)
(* of ballots are indexed by client slots, which change hands; a table is  *)
(* the set of its true entries.  The tables have nothing in common, so a   *)
(* behaviour is about one of them (item).                                  *)
(*                                                                         *)
(* Players come, go and change sides, and an admin or the balance of teams *)
(* changes the side of a player in any state; of the match there is the    *)
(* state that the votes are allowed in, the swap of sides and the complete *)
(* restarts, which clear the tables.  PugMod models the match in full.     *)
(***************************************************************************)
EXTENDS Integers, FiniteSets

CONSTANTS
    Slot,         \* the client slots of the server
    Client,       \* connections; each has a userid
    Immune,       \* those with ADMIN_IMMUNITY
    Map,          \* the map list
    Items,        \* the items to vote on
    Nobody,       \* the occupant of a free slot
    PlayersMin,   \* pug_players_min
    VotePercent,  \* pug_vote_percent, in hundredths
    LO3Restarts   \* how often the LO3 restarts a half: four times, a bound here

ASSUME VoteMenuAssumption ==
    /\ Immune \subseteq Client /\ Nobody \notin Client
    /\ IsFiniteSet(Slot) /\ IsFiniteSet(Client)
    /\ Items \subseteq {"KICK", "MAP", "PAUSE", "RESTART", "CANCEL", "SURRENDER"}
    /\ PlayersMin \in Nat \ {0} /\ VotePercent \in 1 .. 100
    /\ LO3Restarts \in Nat \ {0}

STATE_DEATHMATCH == 1
STATE_FIRST_HALF == 6
STATE_HALFTIME == 7
STATE_SECOND_HALF == 8
STATE_OVERTIME == 9
STATE_END == 10
Half == {STATE_FIRST_HALF, STATE_SECOND_HALF, STATE_OVERTIME}

Side == {"TERRORIST", "CT"}
OtherSide(side) == IF side = "CT" THEN "TERRORIST" ELSE "CT"

VARIABLES
    item,       \* the item that players vote on
    m_State,    \* CPugMod::m_State
    who,        \* the connection in each slot
    m_iTeam,    \* the side of the player in each slot; "none" is no side
    m_Vote,     \* the ballots of the item's table, with who cast them
    menu,       \* the items of a menu to kick or of maps that a slot was shown
    outcome,    \* the effect of a vote that has passed, a command or a task
    restarts    \* complete restarts to come: those of the LO3 or of a .cfg

voteMenuVars == <<item, m_State, who, m_iTeam, m_Vote, menu, outcome, restarts>>

NoOutcome == [for |-> "nothing", by |-> "nobody"]
NoMenus == [s \in Slot |-> {}]

Player == {s \in Slot : who[s] # Nobody}
\* GetPlayers(true, true)
InTeams == {s \in Player : m_iTeam[s] \in Side}
\* GetPlayers(), for the team of a player
Team(s) == {t \in Player : m_iTeam[t] = m_iTeam[s]}

\* An entry of the table.  The rest is history: who was in the slots, and whether the
\* match has gone on to another state since.
Ballot(s, for) ==
    [by |-> s, for |-> for, voter |-> who[s], old |-> FALSE,
     against |-> IF item = "KICK" THEN who[for] ELSE Nobody]
Cast(s, for) == m_Vote \cup {Ballot(s, for)}
Aged(votes) == {[b EXCEPT !.old = TRUE] : b \in votes}
Voted(s, for) == \E b \in m_Vote : b.by = s /\ b.for = for

\* CPugVoteMenu counts every slot, or the players of a team only.
VotesFor(votes, for) == {b.by : b \in {v \in votes : v.for = for}}
Passes(votes, needs) == 100 * Cardinality(votes) >= VotePercent * Cardinality(needs)
-----------------------------------------------------------------------------
(***************************************************************************)
(* The votes.                                                              *)
(***************************************************************************)
\* VoteKick and VoteMap show a menu, which says what the player has voted for.
ShowMenu(s, items) ==
    /\ menu' = [menu EXCEPT ![s] = items]
    /\ UNCHANGED <<item, m_State, who, m_iTeam, m_Vote, outcome, restarts>>

VoteKick(s) ==
    /\ item = "KICK" /\ s \in InTeams /\ m_State # STATE_END
    /\ Cardinality(Team(s)) >= PlayersMin
    /\ ShowMenu(s, {[userid |-> who[t], disabled |-> Voted(s, t)] :
                       t \in {u \in Team(s) \ {s} : who[u] \notin Immune}})

\* The menu may be older than the teams.  Needs is the size of the team without the
\* target, and so are all votes.
VoteKickHandle(s) ==
    \E i \in menu[s], t \in Player :
        /\ s \in Player /\ item = "KICK" /\ who[t] = i.userid /\ t # s
        /\ menu' = [menu EXCEPT ![s] = {}]
        /\ IF who[t] \notin Immune /\ ~i.disabled /\ Cardinality(Team(s)) >= PlayersMin
           THEN /\ m_Vote' = Cast(s, t)
                /\ outcome' = IF Cardinality(VotesFor(Cast(s, t), t))
                                    >= Cardinality(Team(s)) - 1
                              THEN [for |-> who[t], by |-> "nobody"] ELSE outcome
           ELSE UNCHANGED <<m_Vote, outcome>>
        /\ UNCHANGED <<item, m_State, who, m_iTeam, restarts>>

VoteMap(s) ==
    /\ item = "MAP" /\ s \in InTeams /\ m_State # STATE_END
    /\ Cardinality(InTeams) >= 2
    /\ ShowMenu(s, {[map |-> map, disabled |-> Voted(s, map)] : map \in Map})

VoteMapHandle(s) ==
    \E i \in menu[s] :
        /\ s \in Player /\ item = "MAP"
        /\ menu' = [menu EXCEPT ![s] = {}]
        /\ IF ~i.disabled /\ Cardinality(InTeams) >= 2
           THEN /\ m_Vote' = Cast(s, i.map)
                /\ outcome' = IF Passes(VotesFor(Cast(s, i.map), i.map), InTeams)
                              THEN [for |-> i.map, by |-> "nobody"] ELSE outcome
           ELSE UNCHANGED <<m_Vote, outcome>>
        /\ UNCHANGED <<item, m_State, who, m_iTeam, restarts>>

\* What the other four do with a vote: a success clears the table.
Decide(s, for, votes, needs) ==
    /\ IF Passes(votes, needs)
       THEN m_Vote' = {} /\ outcome' = [for |-> for, by |-> s]
       ELSE m_Vote' = Cast(s, for) /\ UNCHANGED outcome
    /\ UNCHANGED <<item, m_State, who, m_iTeam, menu, restarts>>

\* VotePause and VoteSurrender count the players of the team.
DecideTeam(s) ==
    Decide(s, m_iTeam[s], VotesFor(Cast(s, m_iTeam[s]), m_iTeam[s]) \cap Team(s),
           Team(s))

VotePause(s) ==
    /\ item = "PAUSE" /\ s \in InTeams /\ m_State \in Half
    /\ ~Voted(s, m_iTeam[s])
    /\ Cardinality(Team(s)) >= 2
    /\ DecideTeam(s)

VoteSurrender(s) ==
    /\ item = "SURRENDER" /\ s \in InTeams
    /\ m_State \in {STATE_FIRST_HALF, STATE_SECOND_HALF}
    /\ ~Voted(s, m_iTeam[s])
    /\ Cardinality(Team(s)) < PlayersMin
    /\ DecideTeam(s)

\* VoteRestart and VoteCancel, which differ in the state that follows.
VoteRestart(s) ==
    /\ item \in {"RESTART", "CANCEL"} /\ s \in InTeams
    /\ m_State = STATE_FIRST_HALF
    /\ ~Voted(s, item)
    /\ Cardinality(InTeams) >= PlayersMin
    /\ Decide(s, item, VotesFor(Cast(s, item), item), InTeams)
-----------------------------------------------------------------------------
(***************************************************************************)
(* The other callbacks.                                                    *)
(***************************************************************************)
\* Faulty RestartRound: the ballots stay.
RestartRoundKeeps == m_Vote

\* CPugVoteMenu::RestartRound, in a complete reset.
RestartRound == {}

\* Faulty BallotsWithout: what others voted about the slot stays.
BallotsWithoutRow(s) == {b \in m_Vote : b.by # s}

\* CPugVoteMenu::DropClient.
BallotsWithout(s) == {b \in m_Vote : b.by # s /\ b.for # s}

Leaves(s) ==
    /\ m_Vote' = BallotsWithout(s)
    /\ who' = [who EXCEPT ![s] = Nobody]
    /\ m_iTeam' = [m_iTeam EXCEPT ![s] = "none"]

DropClient(s) ==
    /\ s \in Player
    /\ Leaves(s)
    /\ UNCHANGED <<item, m_State, menu, outcome, restarts>>

\* DLL_POST_ClientPutInServer clears the menu of the slot.
Connect(s, c) ==
    /\ s \notin Player /\ \A t \in Slot : who[t] # c
    /\ who' = [who EXCEPT ![s] = c]
    /\ menu' = [menu EXCEPT ![s] = {}]
    /\ UNCHANGED <<item, m_State, m_iTeam, m_Vote, outcome, restarts>>

\* CPugTeamManager::ChooseTeam.
ChooseTeam(s, to) ==
    /\ s \in Player /\ to # m_iTeam[s]
    /\ m_iTeam[s] \in Side => m_State \in {STATE_DEATHMATCH, STATE_END}
    /\ m_iTeam' = [m_iTeam EXCEPT ![s] = to]
    /\ UNCHANGED <<item, m_State, who, m_Vote, menu, outcome, restarts>>

\* CPugAdminMenu::TeamHandle: an admin moves a player to a side or to the spectators,
\* in any state.  The ballots stay.
TeamHandle(s, to) ==
    /\ s \in Player /\ to # m_iTeam[s]
    /\ m_iTeam' = [m_iTeam EXCEPT ![s] = to]
    /\ UNCHANGED <<item, m_State, who, m_Vote, menu, outcome, restarts>>

\* A restart clears the tables.  More of them may follow.
Restarts ==
    /\ restarts > 0
    /\ restarts' = restarts - 1
    /\ m_Vote' = RestartRound
    /\ UNCHANGED <<item, m_State, who, m_iTeam, menu, outcome>>

\* Faulty SetState: the restarts of an LO3 that is on are not replaced.
SetStateAddsRestarts(next) ==
    /\ m_State' = next
    /\ restarts' = IF next \in Half THEN restarts + LO3Restarts ELSE restarts
    /\ m_Vote' = Aged(m_Vote) /\ UNCHANGED m_iTeam

\* CSGameRules()->SwapAllPlayers and CSGameRules()->BalanceTeams, which moves at most
\* half of the surplus of the larger side.
SwappedSides ==
    [s \in Slot |-> IF m_iTeam[s] \in Side THEN OtherSide(m_iTeam[s]) ELSE m_iTeam[s]]
MayBalance ==
    {group \in SUBSET InTeams : \A s \in group :
        2 * Cardinality(group) <= Cardinality(Team(s)) - Cardinality(InTeams \ Team(s))}
BalancedSides ==
    {[s \in Slot |-> IF s \in group THEN OtherSide(m_iTeam[s]) ELSE m_iTeam[s]] :
        group \in MayBalance}

\* CPugMod::SetState.  Halves begin with the LO3, the configurations of the
\* deathmatch and the halftime restart the round once, and the swap of sides too.
SetState(next) ==
    /\ m_State' = next
    /\ restarts' = IF next \in Half THEN LO3Restarts
                   ELSE IF restarts = 0 /\ next # STATE_END THEN 1 ELSE restarts
    /\ IF next = STATE_HALFTIME
       THEN m_iTeam' = SwappedSides /\ m_Vote' = RestartRound
       ELSE /\ IF next \in {STATE_FIRST_HALF, STATE_SECOND_HALF}
               THEN m_iTeam' \in BalancedSides ELSE UNCHANGED m_iTeam
            /\ m_Vote' = Aged(m_Vote)

FollowedBy == {<<STATE_DEATHMATCH, STATE_FIRST_HALF>>,
               <<STATE_FIRST_HALF, STATE_HALFTIME>>,
               <<STATE_HALFTIME, STATE_SECOND_HALF>>, <<STATE_SECOND_HALF, STATE_END>>,
               <<STATE_END, STATE_DEATHMATCH>>}

MatchGoesOn ==
    /\ \E next \in {f[2] : f \in FollowedBy} :
          <<m_State, next>> \in FollowedBy /\ SetState(next)
    /\ UNCHANGED <<item, who, menu, outcome>>

\* CPugVoteMenu::ServerActivate, on the new map.
ServerActivate ==
    /\ m_Vote' = {}
    /\ m_State' = STATE_DEATHMATCH /\ restarts' = 1
    /\ m_iTeam' = [s \in Slot |-> "none"] /\ menu' = NoMenus
    /\ UNCHANGED who

\* The command or the task of a vote that has passed runs.
Takes(next) == SetState(next) /\ UNCHANGED <<who, menu>>
TakesEffect ==
    /\ outcome # NoOutcome /\ outcome' = NoOutcome
    /\ \/ item = "KICK" /\ \/ /\ \E s \in Slot : who[s] = outcome.for /\ Leaves(s)
                              /\ UNCHANGED <<m_State, menu, restarts>>
                           \/ /\ \A s \in Slot : who[s] # outcome.for
                              /\ UNCHANGED <<m_State, who, m_iTeam, m_Vote, menu,
                                             restarts>>
       \/ item = "MAP" /\ ServerActivate
       \/ item = "PAUSE" /\ UNCHANGED <<m_State, who, m_iTeam, m_Vote, menu, restarts>>
       \/ item = "RESTART" /\ Takes(STATE_FIRST_HALF)
       \/ item = "CANCEL" /\ Takes(STATE_DEATHMATCH)
       \/ item = "SURRENDER" /\ Takes(STATE_END)
    /\ UNCHANGED item
-----------------------------------------------------------------------------
Init ==
    /\ item \in Items /\ m_State = STATE_DEATHMATCH
    /\ who = [s \in Slot |-> Nobody] /\ m_iTeam = [s \in Slot |-> "none"]
    /\ m_Vote = {} /\ menu = NoMenus
    /\ outcome = NoOutcome /\ restarts = 0

Next ==
    \/ \E s \in Slot :
          \/ VoteKick(s) \/ VoteKickHandle(s) \/ VoteMap(s) \/ VoteMapHandle(s)
          \/ VotePause(s) \/ VoteSurrender(s) \/ VoteRestart(s)
          \/ DropClient(s)
          \/ \E c \in Client : Connect(s, c)
          \/ \E to \in Side \cup {"none"} : ChooseTeam(s, to) \/ TeamHandle(s, to)
    \/ Restarts \/ MatchGoesOn \/ TakesEffect

Spec == Init /\ [][Next]_voteMenuVars
-----------------------------------------------------------------------------
Option == Slot \cup Map \cup Side \cup {"RESTART", "CANCEL"}
MenuItem == IF item = "KICK" THEN [userid : Client, disabled : BOOLEAN]
                             ELSE [map : Map, disabled : BOOLEAN]

VoteMenuTypeOK ==
    /\ item \in Items
    /\ m_State \in {STATE_DEATHMATCH, STATE_FIRST_HALF, STATE_HALFTIME,
                    STATE_SECOND_HALF, STATE_END}
    /\ who \in [Slot -> Client \cup {Nobody}]
    /\ m_iTeam \in [Slot -> Side \cup {"none"}]
    /\ \A b \in m_Vote : b.by \in Slot /\ b.for \in Option /\ b.voter \in Client
    /\ menu \in [Slot -> SUBSET MenuItem]
    /\ \A s, t \in Player : who[s] = who[t] => s = t
    /\ restarts \in 0 .. LO3Restarts

\* A ballot is one of the player in its slot and about the player in the target's,
\* whoever was there before.
VotesBelong ==
    \A b \in m_Vote : b.voter = who[b.by] /\ (item = "KICK" => b.against = who[b.for])

\* The players who may vote with s.
Voters(s) == IF item \in {"PAUSE", "SURRENDER"} THEN Team(s) ELSE InTeams

\* Who is for the outcome: the last to vote, and the clients who have voted so
\* themselves since the state of the match last changed.  A team counts its own.
InFavour(last) ==
    LET own == {b \in m_Vote : b.for = last.for /\ ~b.old /\ b.voter = who[b.by]}
        all == {b.by : b \in own} \cup {last.by}
    IN  IF item \in {"PAUSE", "SURRENDER"} THEN all \cap Team(last.by) ELSE all

\* "The pug vote percentage for success in votes": a vote on the match, in a half
\* that has begun to restart, passes only if as many clients as the percentage asks
\* for, of those who play now, are for it: on the server still, by a vote of their
\* own of this half, and for a pause or to surrender in the team as it is now.  Whom
\* an admin has made a spectator since he voted still counts for a restart or for
\* the end of the match.  Kicks and maps count votes of any time.
DecidedByMajority ==
    [][outcome' # outcome /\ outcome' # NoOutcome
       /\ m_State \in Half /\ restarts < LO3Restarts
       /\ item \notin {"KICK", "MAP"}
         => Passes(InFavour(outcome'), Voters(outcome'.by))]_voteMenuVars
=============================================================================
