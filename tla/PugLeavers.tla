----------------------------- MODULE PugLeavers -----------------------------
(***************************************************************************)
(* Players who leave a match and come back: CPugTeamManager, which keeps   *)
(* the side of a leaver, and CPugRageBan, which lists leavers and bans     *)
(* those who stay away.  Both are handlers of the same callbacks.  The     *)
(* match is only the state they read and the sides it swaps; PugMod models *)
(* it in full.                                                             *)
(*                                                                         *)
(* A person has a SteamID and an address.  Generic SteamIDs (LAN, pending) *)
(* are one and the same SteamID.  What the engine does (connect, refuse    *)
(* the banned, keep clients over a change of level) is modelled from how   *)
(* the plugin uses it.                                                     *)
(***************************************************************************)
EXTENDS Integers, FiniteSets, PugTask

CONSTANTS
    Person,         \* the players
    Generic,        \* those with a generic SteamID
    Admins,         \* the admins, with ADMIN_IMMUNITY
    Address,        \* the address of each
    PlayersMax,     \* pug_players_max
    RageQuitLimit,  \* pug_rage_quit_time_limit, seconds
    Swaps,          \* whether the sides swap in the match
    Slow            \* bound on who takes his time to load a level

Lan == "lan"
AuthOf(p) == IF p \in Generic THEN Lan ELSE p
Auth == {AuthOf(p) : p \in Person}
\* With a generic SteamID only the address identifies a player.
KeyOf(p) == IF p \in Generic THEN Address[p] ELSE p

ASSUME LeaversAssumption ==
    /\ Generic \subseteq Person /\ Admins \subseteq Person
    /\ Lan \notin Person /\ DOMAIN Address = Person
    /\ \A p \in Person : Address[p] \notin Person
    /\ PlayersMax \in Nat \ {0} /\ RageQuitLimit \in Nat
    /\ Swaps \in BOOLEAN /\ Slow \subseteq Person

STATE_DEATHMATCH == 1
STATE_VOTEMAP == 2
STATE_KNIFE_ROUND == 5
STATE_FIRST_HALF == 6
STATE_HALFTIME == 7
STATE_SECOND_HALF == 8
STATE_OVERTIME == 9
InMatch(s) == STATE_KNIFE_ROUND <= s /\ s <= STATE_OVERTIME

Side == {"TERRORIST", "CT"}
OtherSide(side) == IF side = "CT" THEN "TERRORIST" ELSE "CT"

VARIABLES
    m_State,       \* CPugMod::m_State
    place,         \* the side of each person, "none" without; "loading" or "away" before
    m_Data,        \* CPugTeamManager::m_Data, the side saved for a SteamID
    leavers,       \* CPugRageBan::m_Data, with the seconds left to CheckTime
    m_Task,        \* CPugTask's slot RAGE_BAN_CHECK
    banned,        \* SteamIDs and addresses that the engine refuses
    server,        \* "active" or "down" between two levels
    uptime,        \* seconds since the level started, up to 1
    leftFrom,      \* history: the side an ordinary player left in this state
    moved          \* history: ordinary players who changed sides on this level

leaverVars == <<m_State, place, m_Data, leavers, m_Task, banned, server, uptime,
                leftFrom, moved>>

\* In the game: only then is it sure that UTIL_PlayerByIndexSafe finds him.
Here(p) == place[p] \notin {"loading", "away"}
\* Those whose side is saved by a SteamID of their own.
Ordinary == Person \ (Generic \cup Admins)
Size(side) == Cardinality({p \in Person : place[p] = side})
Nowhere == [p \in Person |-> "none"]
NoData == [a \in Auth |-> "none"]
Check == {"RAGE_BAN_CHECK"}
-----------------------------------------------------------------------------
\* Where a client is who begins to load the level.
Loading(p) == IF p \in Slow THEN "loading" ELSE "none"

\* The engine lets a client in that it does not refuse.
Connect(p) ==
    /\ server = "active" /\ place[p] = "away"
    /\ {AuthOf(p), Address[p]} \cap banned = {}
    /\ place' = [place EXCEPT ![p] = Loading(p)]
    /\ UNCHANGED <<m_State, m_Data, leavers, m_Task, banned, server, uptime, leftFrom,
                   moved>>

\* He has loaded the level, and has no side yet.
PutInServer(p) ==
    /\ server = "active" /\ place[p] = "loading"
    /\ place' = [place EXCEPT ![p] = "none"]
    /\ UNCHANGED <<m_State, m_Data, leavers, m_Task, banned, server, uptime, leftFrom,
                   moved>>

\* Faulty ComesBackTo: nobody looks where a player came from.
ComesBackAnywhere(p, side) == TRUE

\* What CPugTeamManager::ChooseTeam asks of a player without a side.
ComesBackTo(p, side) == m_Data[AuthOf(p)] \in {"none", side} \/ p \in Admins

\* CPugTeamManager::ChooseTeam, for a player without a side.
ChooseTeam(p, side) ==
    /\ server = "active" /\ place[p] = "none"
    /\ Size(side) < PlayersMax
    /\ ComesBackTo(p, side)
    /\ place' = [place EXCEPT ![p] = side]
    /\ UNCHANGED <<m_State, m_Data, leavers, m_Task, banned, server, uptime, leftFrom,
                   moved>>

\* The same for a player with a side, who may change it while no match is on.
ChangeTeam(p, to) ==
    /\ server = "active" /\ place[p] \in Side /\ to \in {"none", OtherSide(place[p])}
    /\ m_State < STATE_VOTEMAP \/ m_State > STATE_OVERTIME
    /\ to \in Side => Size(to) < PlayersMax
    /\ place' = [place EXCEPT ![p] = to]
    /\ moved' = moved \cup ({p} \cap Ordinary)
    /\ UNCHANGED <<m_State, m_Data, leavers, m_Task, banned, server, uptime, leftFrom>>

\* CPugAdminMenu::TeamHandle: an admin moves him in any state, to any side.
TeamHandle(p, to) ==
    /\ server = "active" /\ Here(p) /\ to # place[p]
    /\ place' = [place EXCEPT ![p] = to]
    /\ moved' = moved \cup ({p} \cap Ordinary)
    /\ UNCHANGED <<m_State, m_Data, leavers, m_Task, banned, server, uptime, leftFrom>>

\* SV_DropClient: CPugTeamManager saves the side of a SteamID's first leaver, and
\* CPugRageBan lists a leaver it has not listed yet.
DropClient(p) ==
    LET playing == place[p] \in Side /\ InMatch(m_State)
        auth == AuthOf(p)
        listed == \E l \in leavers : l.key = KeyOf(p)
    IN  /\ server = "active" /\ place[p] # "away"
        /\ m_Data' = IF playing /\ m_Data[auth] = "none"
                     THEN [m_Data EXCEPT ![auth] = place[p]] ELSE m_Data
        /\ IF RageQuitLimit > 0 /\ playing /\ p \notin Admins /\ ~listed
           THEN /\ leavers' = leavers \cup
                      {[key |-> KeyOf(p), who |-> p, left |-> RageQuitLimit]}
                /\ m_Task' = Create(m_Task, "RAGE_BAN_CHECK", 1, TRUE, 0)
           ELSE UNCHANGED <<leavers, m_Task>>
        /\ place' = [place EXCEPT ![p] = "away"]
        /\ leftFrom' = IF playing /\ p \in Ordinary
                        THEN [leftFrom EXCEPT ![p] = place[p]] ELSE leftFrom
        /\ UNCHANGED <<m_State, banned, server, uptime, moved>>

\* What is banned with a leaver.
BansOf(l) == IF l.who \in Generic THEN {Address[l.who]}
                                  ELSE {AuthOf(l.who), Address[l.who]}

\* Faulty CheckList: it bans before it looks who came back.
CheckListBansFirst ==
    LET late == {l \in leavers : l.left = 0}
    IN  /\ leavers' = {l \in leavers \ late :
                          \A p \in Person : Here(p) => KeyOf(p) # l.key}
        /\ banned' = banned \cup UNION {BansOf(l) : l \in late}

\* CPugRageBan::CheckList: who came back is forgotten, who is late is banned.  Somebody
\* who is loading is found if his slot was used before on this level.
CheckList ==
    \E found \in SUBSET {p \in Person : place[p] = "loading"} :
       LET away == {l \in leavers : \A p \in Person :
                                       Here(p) \/ p \in found => KeyOf(p) # l.key}
           late == {l \in away : l.left = 0}
       IN  /\ leavers' = away \ late
           /\ banned' = banned \cup UNION {BansOf(l) : l \in late}

\* The task repeats until it finds the list empty.
CheckFires ==
    /\ server = "active" /\ IsDue(m_Task, "RAGE_BAN_CHECK")
    /\ \/ /\ leavers # {}
          /\ CheckList
          /\ m_Task' = Rearm(m_Task, "RAGE_BAN_CHECK")
       \/ /\ leavers = {}
          /\ m_Task' = Remove(m_Task, "RAGE_BAN_CHECK")
          /\ UNCHANGED <<leavers, banned>>
    /\ UNCHANGED <<m_State, place, m_Data, server, uptime, leftFrom, moved>>
-----------------------------------------------------------------------------
(***************************************************************************)
(* The match, the level and the clock.                                     *)
(***************************************************************************)
\* The shortest ways through a match: to both components a knife round or an
\* overtime is what a half is.  At halftime the sides swap.
FollowedBy == {<<STATE_DEATHMATCH, STATE_FIRST_HALF>>,
               <<STATE_FIRST_HALF, STATE_HALFTIME>>,
               <<STATE_HALFTIME, STATE_SECOND_HALF>>,
               <<STATE_FIRST_HALF, STATE_DEATHMATCH>>,
               <<STATE_SECOND_HALF, STATE_DEATHMATCH>>}

\* The players that entering a state puts on the other side: all of them at halftime, and
\* those that CSGameRules()->BalanceTeams moves before a half.
Movable == {p \in Person : place[p] \in Side}
MovedInto(next) ==
    IF next = STATE_HALFTIME THEN {IF Swaps THEN Movable ELSE {}}
    ELSE IF next \in {STATE_FIRST_HALF, STATE_SECOND_HALF}
    THEN {group \in SUBSET Movable : \A p \in group :
             2 * Cardinality(group) <= Size(place[p]) - Size(OtherSide(place[p]))}
    ELSE {{}}

SetState(next) ==
    /\ server = "active" /\ <<m_State, next>> \in FollowedBy
    /\ m_State' = next
    /\ \E group \in MovedInto(next) :
          /\ place' = [p \in Person |-> IF p \in group THEN OtherSide(place[p])
                                                        ELSE place[p]]
          /\ moved' = moved \cup (group \cap Ordinary)
    /\ leftFrom' = Nowhere
    /\ UNCHANGED <<m_Data, leavers, m_Task, banned, server, uptime>>

\* A level lasts longer than a second.  The components forget what belongs to it;
\* clients stay on the server, lose their sides and load the next level.
ServerDeactivate ==
    /\ server = "active" /\ uptime = 1 /\ NoneDue(m_Task)
    /\ server' = "down"
    /\ m_Task' = Cleared(Check) /\ m_Data' = NoData
    /\ place' = [p \in Person |-> IF place[p] = "away" THEN "away" ELSE Loading(p)]
    /\ leftFrom' = Nowhere /\ moved' = {}
    /\ UNCHANGED <<m_State, leavers, banned, uptime>>

\* Faulty TasksOfNewLevel: CPugTask clears its slots last.
TasksOfNewLevelCleared == Cleared(Check)

\* CPugTask::ServerActivate comes first, then CPugRageBan resumes its check.
TasksOfNewLevel ==
    IF leavers = {} THEN Cleared(Check)
                    ELSE Create(Cleared(Check), "RAGE_BAN_CHECK", 1, TRUE, 0)

ServerActivate ==
    /\ server = "down"
    /\ server' = "active" /\ uptime' = 0
    /\ m_State' = STATE_DEATHMATCH
    /\ m_Task' = TasksOfNewLevel /\ m_Data' = NoData
    /\ UNCHANGED <<place, leavers, banned, leftFrom, moved>>

\* Faulty SecondOf: the real clock runs past the deadline.
SecondOfUnbounded(l) == [l EXCEPT !.left = @ - 1]

SecondOf(l) == [l EXCEPT !.left = IF @ = 0 THEN 0 ELSE @ - 1]

\* CheckTime is in seconds of the real clock, which runs between levels too.
Tick ==
    /\ NoneDue(m_Task)
    /\ m_Task' = Elapse(m_Task)
    /\ leavers' = {SecondOf(l) : l \in leavers}
    /\ uptime' = IF server = "active" THEN 1 ELSE uptime
    /\ UNCHANGED <<m_State, place, m_Data, banned, server, leftFrom, moved>>
-----------------------------------------------------------------------------
Init ==
    /\ m_State = STATE_DEATHMATCH
    /\ place = [p \in Person |-> "away"]
    /\ m_Data = NoData /\ leavers = {} /\ m_Task = Cleared(Check)
    /\ banned = {} /\ server = "active" /\ uptime = 0
    /\ leftFrom = Nowhere /\ moved = {}

Next == \/ \E p \in Person : Connect(p) \/ PutInServer(p) \/ DropClient(p)
        \/ \E p \in Person, side \in Side : ChooseTeam(p, side)
        \/ \E p \in Person, to \in Side \cup {"none"} :
              ChangeTeam(p, to) \/ TeamHandle(p, to)
        \/ CheckFires
        \/ \E next \in STATE_DEATHMATCH .. STATE_OVERTIME : SetState(next)
        \/ ServerDeactivate \/ ServerActivate \/ Tick

Spec == Init /\ [][Next]_leaverVars

\* The task fires in the frame it is due, levels start and time passes.
FairSpec == /\ Spec
            /\ WF_leaverVars(CheckFires)
            /\ WF_leaverVars(ServerActivate) /\ WF_leaverVars(Tick)
-----------------------------------------------------------------------------
LeaverTypeOK ==
    /\ m_State \in STATE_DEATHMATCH .. STATE_OVERTIME
    /\ place \in [Person -> Side \cup {"none", "loading", "away"}]
    /\ m_Data \in [Auth -> Side \cup {"none"}]
    /\ leavers \subseteq
         [key: {KeyOf(p) : p \in Person}, who: Person, left: 0 .. RageQuitLimit]
    /\ m_Task \in [Check -> Task({0})]
    /\ banned \subseteq Auth \cup {Address[p] : p \in Person}
    /\ server \in {"active", "down"} /\ uptime \in 0 .. 1
    /\ leftFrom \in [Person -> Side \cup {"none"}] /\ moved \subseteq Ordinary

\* As long as a leaver is listed somebody looks at the list, on every level.
ListIsWatched ==
    server = "active" /\ leavers # {} => m_Task["RAGE_BAN_CHECK"].on

\* No SteamID is banned while its player is in the game.  (One who is on his way back,
\* loading the level when his time is over, may be.)
BannedAreAway ==
    [][\A p \in Person \ Generic : p \in banned' \ banned => ~Here(p)]_leaverVars

Late(p) == \E l \in leavers : l.who = p /\ l.left = 0

\* Every leaver is forgotten or banned some time, whatever levels come and go: nobody
\* stays late for ever.  (Admins are not listed.)
LeaverIsSettled ==
    \A p \in Person \ Admins : []<>~Late(p)

\* "Team change by reconnect is not allowed": who left a side in this state of the
\* match comes back to that side.
KeepsSideOn(p) ==
    leftFrom[p] # "none" /\ place[p] = "none" /\ place'[p] \in Side
        => place'[p] = leftFrom[p]

\* It is so for those who were on one side only since the level began, and whom no
\* admin puts on another.
ReconnectKeepsSide ==
    [][\A p \in Ordinary \ moved' : KeepsSideOn(p)]_leaverVars
=============================================================================
