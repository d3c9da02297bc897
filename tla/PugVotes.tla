------------------------------ MODULE PugVotes ------------------------------
(***************************************************************************)
(* The ballot on the teams, CPugVoteTeam, by client slot: who is asked,    *)
(* who votes while clients leave and others take their slots, and what is  *)
(* done to the teams.  The ballots on the map, the sides, the overtime and *)
(* the end of the match ask and count in the same way.  The deadline may   *)
(* come at any time.                                                       *)
(***************************************************************************)
EXTENDS Integers, Sequences, FiniteSets, SequencesExt, FiniteSetsExt

CONSTANTS Person,     \* the clients
          Bot,        \* those of them who are bots
          Slot,       \* the client slots
          MaxClients, \* the size of the arrays that are indexed by slot (32)
          Skill,      \* the skills that a player may have shown
          Option      \* the choices that the cvar pug_team_option leaves

TERRORIST == 1
CT == 2
Team == {TERRORIST, CT}
Other(team) == IF team = TERRORIST THEN CT ELSE TERRORIST
Choice == {"captain", "random", "unsorted", "balance", "swap", "knife"}

ASSUME VotesAssumption ==
    /\ Bot \subseteq Person /\ MaxClients \in Nat /\ Slot \subseteq 1..MaxClients
    /\ 0 \in Skill /\ Skill \subseteq Int
    /\ Option \subseteq Choice

VARIABLES who,         \* the client of each slot, or "nobody"
          side,        \* the team of each slot, or 0
          m_Run,       \* CPugVoteTeam: whether the ballot is open,
          m_Voter,     \* the slots that have yet to vote,
          m_VotesLeft, \* how many they were counted to be
          Votes,       \* m_VoteList: the votes of each choice
          menu,        \* the slots that are shown the ballot, open or not
          roll,        \* history: the clients who were asked
          voted        \* history: the clients who have voted

clientVars == <<who, side>>
ballotVars == <<m_Run, m_Voter, m_VotesLeft, Votes, roll, voted>>
votesVars == <<clientVars, ballotVars, menu>>

\* CPugUtil::GetPlayers(true, Bots), in the order of the slots.
GetPlayers(bots) ==
    {s \in Slot : who[s] # "nobody" /\ side[s] \in Team /\ (bots \/ who[s] \notin Bot)}
-----------------------------------------------------------------------------
(***************************************************************************)
(* Clients.                                                                *)
(***************************************************************************)
\* Faulty MenuCleared: the newcomer is left the menu of the one before him.
MenuKept(s) == menu

\* DLL_POST_ClientPutInServer clears the menu of the slot.
MenuCleared(s) == menu \ {s}

PutInServer(p, s) ==
    /\ who[s] = "nobody" /\ \A t \in Slot : who[t] # p
    /\ who' = [who EXCEPT ![s] = p]
    /\ menu' = MenuCleared(s)
    /\ UNCHANGED <<side, ballotVars>>

JoinTeam(s, team) ==
    /\ who[s] # "nobody" /\ side[s] # team
    /\ side' = [side EXCEPT ![s] = team]
    /\ UNCHANGED <<who, ballotVars, menu>>

\* No ballot hears of a client who leaves.
DropClient(s) ==
    /\ who[s] # "nobody"
    /\ who' = [who EXCEPT ![s] = "nobody"] /\ side' = [side EXCEPT ![s] = 0]
    /\ UNCHANGED <<ballotVars, menu>>
-----------------------------------------------------------------------------
(***************************************************************************)
(* CPugVoteTeam::ChangeTeam.                                               *)
(***************************************************************************)
SideAt(n, first) == IF n % 2 = 1 THEN first ELSE Other(first)

\* The players in this order join one team and the other in turn.
InTurn(order, first) ==
    [s \in Slot |-> IF s \in ToSet(order)
                    THEN SideAt(CHOOSE n \in DOMAIN order : order[n] = s, first)
                    ELSE side[s]]

\* CPugVoteTeam::TeamsRamdomize.
TeamsRamdomize ==
    \E order \in SetToSeqs(GetPlayers(TRUE)), first \in Team : side' = InTurn(order, first)

\* The player at j of those who are left, the first of them being at 0.
PlayerAt(left, j) == CHOOSE s \in left : Cardinality({t \in left : t < s}) = j

\* Faulty MovedAt: the player is still in the list afterwards.
MovedButKept(todo, j) ==
    [todo EXCEPT !.side[PlayerAt(todo.left, j)] = todo.team, !.team = Other(@)]

\* The player at j joins the team whose turn it is and goes from the list.
MovedAt(todo, j) ==
    [todo EXCEPT !.side[PlayerAt(todo.left, j)] = todo.team,
                 !.team = Other(@),
                 !.left = @ \ {PlayerAt(@, j)}]

\* The skill of the slot j is taken for that of the player at j.
Visited(todo, Skills, best, j) ==
    IF j < Cardinality(todo.left) /\ Skills[j] = best THEN MovedAt(todo, j) ELSE todo

\* For a skill, through the players that are left; who follows one that is moved takes
\* his place in the list and is passed over.
Sweep(todo, Skills, best) ==
    LET after[j \in 0..Cardinality(Slot)] ==
            IF j = 0 THEN todo ELSE Visited(after[j - 1], Skills, best, j - 1)
    IN  after[Cardinality(Slot)]

\* The skill at i once they are sorted from the best one, the first being at 1.
Sorted(Skills, i) ==
    Max({v \in Range(Skills) : Cardinality({k \in DOMAIN Skills : Skills[k] >= v}) >= i})

\* A sweep for each of the skills, from the best one.
Optimized(todo, Skills) ==
    LET after[i \in 0..MaxClients + 1] ==
            IF i = 0 THEN todo ELSE Sweep(after[i - 1], Skills, Sorted(Skills, i))
    IN  after[MaxClients + 1]

\* CPugVoteTeam::TeamsOptimize, with the skills that the players happen to have.
TeamsOptimize ==
    \E skill \in [GetPlayers(TRUE) -> Skill], first \in Team :
        LET todo == [left |-> GetPlayers(TRUE), team |-> first, side |-> side]
            Skills == [i \in 0..MaxClients |-> IF i \in DOMAIN skill THEN skill[i] ELSE 0]
        IN  side' = Optimized(todo, Skills).side

SwapAllPlayers ==
    side' = [s \in Slot |-> IF s \in GetPlayers(TRUE) THEN Other(side[s]) ELSE side[s]]

ChangeTeam(type) ==
    CASE type = "random" -> TeamsRamdomize
      [] type = "balance" -> TeamsOptimize
      [] type = "swap" -> SwapAllPlayers
      [] OTHER -> UNCHANGED side
-----------------------------------------------------------------------------
(***************************************************************************)
(* The ballot.                                                             *)
(***************************************************************************)
\* Faulty Voters: those of the last ballot who did not vote are voters as well.
VotersToo(asked) == m_Voter \cup asked

Voters(asked) == asked

\* CPugVoteTeam::Init.  The votes are reset with the menu of each player: not if there
\* is none.
VoteBegins ==
    LET asked == GetPlayers(FALSE)
    IN  /\ m_Run' = TRUE
        /\ m_VotesLeft' = Cardinality(asked)
        /\ m_Voter' = Voters(asked)
        /\ Votes' = IF asked = {} THEN Votes ELSE [c \in Choice |-> 0]
        /\ menu' = menu \cup asked
        /\ roll' = {who[s] : s \in asked} /\ voted' = {}
        /\ UNCHANGED clientVars

\* GetWinner tosses a coin for as many votes; without votes the teams are shuffled.
Winners(votes) ==
    LET most == Max({votes[c] : c \in Choice})
    IN  IF most = 0 THEN {"random"} ELSE {c \in Choice : votes[c] = most}

\* CPugVoteTeam::Stop.
Stop(votes) ==
    /\ m_Run' = FALSE /\ m_VotesLeft' = 0
    /\ \E type \in Winners(votes) : ChangeTeam(type)

\* CPugVoteTeam::MenuHandle, for whoever is shown the menu.
MenuHandle(s, choice) ==
    /\ s \in menu /\ who[s] # "nobody" /\ who[s] \notin Bot
    /\ menu' = menu \ {s}
    /\ IF m_Run /\ s \in m_Voter
       THEN /\ Votes' = [Votes EXCEPT ![choice] = @ + 1]
            /\ m_Voter' = m_Voter \ {s}
            /\ voted' = voted \cup {who[s]}
            /\ IF m_VotesLeft - 1 < 1
               THEN Stop(Votes')
               ELSE m_VotesLeft' = m_VotesLeft - 1 /\ UNCHANGED <<m_Run, side>>
       ELSE UNCHANGED <<m_Run, m_Voter, m_VotesLeft, Votes, voted, side>>
    /\ UNCHANGED <<who, roll>>

\* Another menu is shown to a slot in the place of this one.
MenuIsReplaced(s) ==
    s \in menu /\ menu' = menu \ {s} /\ UNCHANGED <<clientVars, ballotVars>>

\* CPugVoteTeam::StartFrame, at the deadline.
VoteEnds ==
    /\ m_Run
    /\ Stop(Votes)
    /\ UNCHANGED <<who, m_Voter, Votes, menu, roll, voted>>
-----------------------------------------------------------------------------
Init ==
    /\ who = [s \in Slot |-> "nobody"] /\ side = [s \in Slot |-> 0]
    /\ m_Run = FALSE /\ m_Voter = {} /\ m_VotesLeft = 0
    /\ Votes = [c \in Choice |-> 0]
    /\ menu = {} /\ roll = {} /\ voted = {}

Next ==
    \/ \E s \in Slot :
          \/ DropClient(s) \/ MenuIsReplaced(s)
          \/ \E p \in Person : PutInServer(p, s)
          \/ \E team \in Team \cup {0} : JoinTeam(s, team)
          \/ \E choice \in Option : MenuHandle(s, choice)
    \/ VoteBegins \/ VoteEnds

Spec == Init /\ [][Next]_votesVars
-----------------------------------------------------------------------------
\* Among the types of the ballot: the votes that are awaited are those of the slots that
\* may vote.
BallotTypeOK ==
    /\ who \in [Slot -> Person \cup {"nobody"}]
    /\ m_Run \in BOOLEAN /\ m_Voter \subseteq Slot
    /\ m_VotesLeft = IF m_Run THEN Cardinality(m_Voter) ELSE 0
    /\ Votes \in [Choice -> Nat]
    /\ menu \subseteq Slot
    /\ roll \subseteq Person \ Bot /\ voted \subseteq Person

VotesTypeOK == BallotTypeOK /\ side \in [Slot -> Team \cup {0}]

AllVotes == Votes["captain"] + Votes["random"] + Votes["unsorted"] + Votes["balance"]
            + Votes["swap"] + Votes["knife"]

\* Whoever votes is one of those who were asked, and he votes once, although the slots
\* keep their right to vote when they pass to others: the votes are as many as the
\* clients who have voted.  (A ballot that asks nobody keeps the votes of the last one.)
OneVoteEach ==
    m_Run => voted \subseteq roll /\ (roll # {} => AllVotes = Cardinality(voted))

\* The array of skills has at least as many places that are empty as players.
HalfIsEmpty == 2 * Cardinality(GetPlayers(TRUE)) <= MaxClients + 1

\* The teams are even once the players are shuffled, at random or by skill: whatever
\* the skills are, everybody is moved once, if half of their array is empty, as it is
\* with the ten players of a match.
TeamsAreEven ==
    [][m_Run /\ ~m_Run' /\ HalfIsEmpty
       /\ (\A c \in Winners(Votes') : c \in {"random", "balance"}) =>
          Cardinality({s \in Slot : side'[s] = TERRORIST})
              - Cardinality({s \in Slot : side'[s] = CT}) \in -1..1]_votesVars
=============================================================================
