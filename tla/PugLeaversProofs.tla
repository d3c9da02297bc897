-------------------------- MODULE PugLeaversProofs --------------------------
(***************************************************************************)
(* Leavers come back to their side and are banned only while they are      *)
(* away, whatever the number of players, SteamIDs and addresses.           *)
(***************************************************************************)
EXTENDS PugLeavers, TLAPS

Leaver == [key: {KeyOf(p) : p \in Person}, who: Person, left: 0 .. RageQuitLimit]

\* A leaver is listed by what identifies him.
LeaversAreKeyed == \A l \in leavers : l.key = KeyOf(l.who)

\* The check is a task that repeats.
CheckRepeats == m_Task["RAGE_BAN_CHECK"].on => m_Task["RAGE_BAN_CHECK"].loop

\* Between two levels nobody has left the match.
NothingDown == server = "down" => leftFrom = Nowhere

\* The side saved for a player who was only ever on one is that side, and the side
\* that he left.
SideIsSaved ==
    \A p \in Ordinary \ moved :
        /\ m_Data[p] # "none" /\ place[p] \in Side => place[p] = m_Data[p]
        /\ leftFrom[p] # "none" => m_Data[p] = leftFrom[p]

\* The sides after a group has been put on the other one.
SidesOf(group) ==
    [p \in Person |-> IF p \in group THEN OtherSide(place[p]) ELSE place[p]]

LeaverInv == /\ LeaverTypeOK /\ ListIsWatched /\ LeaversAreKeyed
             /\ CheckRepeats /\ NothingDown /\ SideIsSaved
-----------------------------------------------------------------------------
(***************************************************************************)
(* The operators on the slot of the check keep its type.                   *)
(***************************************************************************)
CheckTasks == [Check -> Task({0})]

\* CPugTask::Create stores what it is given.
LEMMA CreateType ==
    ASSUME NEW tasks \in CheckTasks, NEW i \in Check, NEW delay \in Nat,
           NEW loop \in BOOLEAN
    PROVE  Create(tasks, i, delay, loop, 0) \in CheckTasks
<1>1. [on |-> TRUE, left |-> delay, delay |-> delay, loop |-> loop, param |-> 0]
        \in Task({0})
  BY DEF Task
<1> QED BY <1>1 DEF Create, CheckTasks

\* CPugTask::Remove and the change of level leave an unused slot.
LEMMA RemoveType ==
    /\ Cleared(Check) \in CheckTasks
    /\ \A tasks \in CheckTasks, i \in Check : Remove(tasks, i) \in CheckTasks
<1>1. NoTask \in Task({0})
  BY DEF NoTask, Task
<1> QED BY <1>1 DEF Remove, Cleared, CheckTasks

\* What CPugTask::StartFrame writes before it calls Execute is a slot.
LEMMA RearmType ==
    ASSUME NEW tasks \in CheckTasks, NEW i \in Check
    PROVE  Rearm(tasks, i) \in CheckTasks
<1>1. tasks[i] \in Task({0})
  BY DEF CheckTasks
<1>2. [tasks[i] EXCEPT !.left = tasks[i].delay] \in Task({0})
  BY <1>1 DEF Task
<1>3. [tasks EXCEPT ![i].left = tasks[i].delay]
        = [tasks EXCEPT ![i] = [tasks[i] EXCEPT !.left = tasks[i].delay]]
  BY DEF CheckTasks
<1> QED BY <1>2, <1>3, RemoveType DEF Rearm, CheckTasks

\* A second passes in the slot.
LEMMA ElapseType == ASSUME NEW tasks \in CheckTasks PROVE Elapse(tasks) \in CheckTasks
<1>1. ASSUME NEW i \in Check, tasks[i].left > 0
      PROVE  [tasks[i] EXCEPT !.left = tasks[i].left - 1] \in Task({0})
  <2>1. tasks[i] \in Task({0})
    BY DEF CheckTasks
  <2>2. tasks[i].left - 1 \in Nat
    BY <1>1, <2>1 DEF Task
  <2> QED BY <2>1, <2>2 DEF Task
<1> QED BY <1>1 DEF Elapse, CheckTasks

\* Nobody else has the SteamID of a player who has one of his own.
LEMMA OwnAuth ==
    /\ \A p \in Ordinary : p \in Person /\ p \in Auth
    /\ \A p \in Person, q \in Ordinary : AuthOf(p) = q => p = q
    /\ \A p \in Person : AuthOf(p) \in Auth
BY LeaversAssumption DEF Ordinary, Auth, AuthOf

LEMMA LeaverInit == Init => LeaverInv
<1> SUFFICES ASSUME Init PROVE LeaverInv
  OBVIOUS
<1>1. m_Task \in [Check -> Task({0})]
  BY RemoveType DEF Init, CheckTasks
<1>2. LeaverTypeOK
  BY <1>1, LeaversAssumption DEF Init, LeaverTypeOK, NoData, Nowhere, STATE_DEATHMATCH,
     STATE_OVERTIME
<1>3. CheckRepeats
  BY DEF Init, CheckRepeats, Cleared, NoTask, Check
<1> QED BY <1>2, <1>3, OwnAuth DEF Init, LeaverInv, ListIsWatched, LeaversAreKeyed,
           NothingDown, SideIsSaved, NoData, Nowhere

LEMMA ListedType ==
    ASSUME NEW p \in Person
    PROVE  [key |-> KeyOf(p), who |-> p, left |-> RageQuitLimit] \in Leaver
BY LeaversAssumption DEF Leaver

LEMMA BansType ==
    ASSUME NEW l \in Leaver PROVE BansOf(l) \subseteq Auth \cup {Address[p] : p \in Person}
BY DEF BansOf, Leaver, Auth

LEMMA LeaverTypeStep ==
    ASSUME LeaverTypeOK, [Next]_leaverVars PROVE LeaverTypeOK'
<1>0. /\ leavers \subseteq Leaver /\ m_Task \in [Check -> Task({0})]
      /\ "RAGE_BAN_CHECK" \in Check /\ RageQuitLimit \in Nat
  BY LeaversAssumption DEF LeaverTypeOK, Leaver, Check
<1>1. ASSUME NEW p \in Person,
             Connect(p) \/ PutInServer(p) \/ \E side \in Side : ChooseTeam(p, side)
      PROVE  LeaverTypeOK'
  BY <1>1 DEF Connect, Loading, PutInServer, ChooseTeam, LeaverTypeOK
<1>2. ASSUME NEW p \in Person, NEW to \in Side \cup {"none"},
             ChangeTeam(p, to) \/ TeamHandle(p, to)
      PROVE  LeaverTypeOK'
  BY <1>2 DEF ChangeTeam, TeamHandle, LeaverTypeOK
<1>3. ASSUME NEW p \in Person, DropClient(p) PROVE LeaverTypeOK'
  <2>1. leavers' \subseteq Leaver /\ m_Task' \in [Check -> Task({0})]
    <3>1. Create(m_Task, "RAGE_BAN_CHECK", 1, TRUE, 0) \in [Check -> Task({0})]
      BY <1>0, CreateType DEF CheckTasks
    <3>2. \/ UNCHANGED <<leavers, m_Task>>
          \/ /\ leavers' = leavers \cup
                   {[key |-> KeyOf(p), who |-> p, left |-> RageQuitLimit]}
             /\ m_Task' = Create(m_Task, "RAGE_BAN_CHECK", 1, TRUE, 0)
      BY <1>3 DEF DropClient
    <3>3. [key |-> KeyOf(p), who |-> p, left |-> RageQuitLimit] \in Leaver
      BY ListedType
    <3> QED BY <1>0, <3>1, <3>2, <3>3
  <2>2. m_Data' \in [Auth -> Side \cup {"none"}]
    BY <1>3, OwnAuth DEF DropClient, LeaverTypeOK
  <2>3. leftFrom' \in [Person -> Side \cup {"none"}]
    BY <1>3 DEF DropClient, LeaverTypeOK
  <2> QED BY <1>3, <2>1, <2>2, <2>3 DEF DropClient, LeaverTypeOK, Leaver
<1>4. CASE CheckFires
  <2>1. leavers' \subseteq Leaver /\ banned' \subseteq Auth \cup {Address[p] : p \in Person}
    <3>1. CASE CheckList
      <4>1. leavers' \subseteq leavers
        BY <3>1 DEF CheckList
      <4>2. PICK late \in SUBSET leavers : banned' = banned \cup UNION {BansOf(l) : l \in late}
        BY <3>1 DEF CheckList
      <4>3. \A l \in late : BansOf(l) \subseteq Auth \cup {Address[p] : p \in Person}
        BY <1>0, <4>2, BansType
      <4> QED BY <1>0, <4>1, <4>2, <4>3 DEF LeaverTypeOK
    <3>2. CASE UNCHANGED <<leavers, banned>>
      BY <1>0, <3>2 DEF LeaverTypeOK
    <3> QED BY <1>4, <3>1, <3>2 DEF CheckFires
  <2>2. m_Task' \in [Check -> Task({0})]
    BY <1>0, <1>4, RearmType, RemoveType DEF CheckFires, CheckTasks
  <2> QED BY <1>4, <2>1, <2>2 DEF CheckFires, LeaverTypeOK, Leaver
<1>5. ASSUME NEW next \in STATE_DEATHMATCH .. STATE_OVERTIME, SetState(next)
      PROVE  LeaverTypeOK'
  <2>1. PICK group \in MovedInto(next) : /\ place' = SidesOf(group)
                                         /\ moved' = moved \cup (group \cap Ordinary)
    BY <1>5 DEF SetState, SidesOf
  <2>2. SidesOf(group) \in [Person -> Side \cup {"none", "loading", "away"}]
    BY DEF LeaverTypeOK, SidesOf, OtherSide, Side
  <2> QED BY <1>5, <2>1, <2>2 DEF SetState, LeaverTypeOK, Nowhere
<1>6. CASE ServerDeactivate
  <2>1. m_Task' \in [Check -> Task({0})]
    BY <1>6, RemoveType DEF ServerDeactivate, CheckTasks
  <2> QED BY <1>6, <2>1 DEF ServerDeactivate, Loading, LeaverTypeOK, NoData, Nowhere
<1>7. CASE ServerActivate
  <2>1. m_Task' \in [Check -> Task({0})]
    <3>1. Cleared(Check) \in [Check -> Task({0})]
      BY RemoveType DEF CheckTasks
    <3> QED BY <1>0, <1>7, <3>1, CreateType DEF ServerActivate, TasksOfNewLevel, CheckTasks
  <2> QED BY <1>7, <2>1
             DEF ServerActivate, LeaverTypeOK, NoData, STATE_DEATHMATCH, STATE_OVERTIME
<1>8. CASE Tick
  <2>1. m_Task' \in [Check -> Task({0})]
    BY <1>0, <1>8, ElapseType DEF Tick, CheckTasks
  <2>2. leavers' \subseteq Leaver
    <3>1. \A l \in Leaver : SecondOf(l) \in Leaver
      BY <1>0 DEF SecondOf, Leaver
    <3> QED BY <1>0, <1>8, <3>1 DEF Tick
  <2> QED BY <1>8, <2>1, <2>2 DEF Tick, LeaverTypeOK, Leaver
<1>9. CASE UNCHANGED leaverVars
  BY <1>9 DEF leaverVars, LeaverTypeOK
<1> QED BY <1>1, <1>2, <1>3, <1>4, <1>5, <1>6, <1>7, <1>8, <1>9 DEF Next

\* What is listed is keyed, and the list is watched.
LEMMA WatchStep ==
    ASSUME LeaverTypeOK, ListIsWatched, LeaversAreKeyed, CheckRepeats, [Next]_leaverVars
    PROVE  ListIsWatched' /\ LeaversAreKeyed' /\ CheckRepeats'
<1>0. /\ m_Task \in [Check -> Task({0})] /\ "RAGE_BAN_CHECK" \in Check
      /\ leavers \subseteq Leaver
  BY DEF LeaverTypeOK, Check, Leaver
<1>1. ASSUME NEW tasks \in [Check -> Task({0})]
      PROVE  /\ Create(tasks, "RAGE_BAN_CHECK", 1, TRUE, 0)["RAGE_BAN_CHECK"].on = TRUE
             /\ Create(tasks, "RAGE_BAN_CHECK", 1, TRUE, 0)["RAGE_BAN_CHECK"].loop = TRUE
  BY <1>0, <1>1 DEF Create
<1>2. ASSUME UNCHANGED <<leavers, m_Task, server>>
      PROVE  ListIsWatched' /\ LeaversAreKeyed' /\ CheckRepeats'
  BY <1>2 DEF ListIsWatched, LeaversAreKeyed, CheckRepeats
<1>3. Cleared(Check)["RAGE_BAN_CHECK"].on = FALSE /\ Cleared(Check) \in [Check -> Task({0})]
  BY <1>0, RemoveType DEF Cleared, NoTask, CheckTasks
<1>4. ASSUME NEW p \in Person, DropClient(p)
      PROVE  ListIsWatched' /\ LeaversAreKeyed' /\ CheckRepeats'
  <2>1. CASE UNCHANGED <<leavers, m_Task>>
    BY <1>2, <1>4, <2>1 DEF DropClient
  <2>2. CASE /\ leavers' = leavers \cup
                   {[key |-> KeyOf(p), who |-> p, left |-> RageQuitLimit]}
             /\ m_Task' = Create(m_Task, "RAGE_BAN_CHECK", 1, TRUE, 0)
    <3>1. m_Task'["RAGE_BAN_CHECK"].on = TRUE /\ m_Task'["RAGE_BAN_CHECK"].loop = TRUE
      BY <1>0, <1>1, <2>2
    <3>2. LeaversAreKeyed'
      BY <2>2 DEF LeaversAreKeyed
    <3> QED BY <3>1, <3>2 DEF ListIsWatched, CheckRepeats
  <2> QED BY <1>4, <2>1, <2>2 DEF DropClient
<1>5. CASE CheckFires
  <2>1. CASE leavers # {}
    <3>1. /\ leavers' \subseteq leavers /\ server' = server
          /\ m_Task' = Rearm(m_Task, "RAGE_BAN_CHECK") /\ m_Task["RAGE_BAN_CHECK"].on
      BY <1>5, <2>1 DEF CheckFires, CheckList, IsDue
    <3>2. /\ m_Task'["RAGE_BAN_CHECK"].on = m_Task["RAGE_BAN_CHECK"].on
          /\ m_Task'["RAGE_BAN_CHECK"].loop = m_Task["RAGE_BAN_CHECK"].loop
      BY <1>0, <3>1 DEF CheckRepeats, Rearm, Task
    <3> QED BY <3>1, <3>2 DEF ListIsWatched, LeaversAreKeyed, CheckRepeats
  <2>2. CASE leavers = {}
    <3>1. /\ leavers' = {} /\ m_Task' = Remove(m_Task, "RAGE_BAN_CHECK")
      BY <1>5, <2>2 DEF CheckFires
    <3>2. m_Task'["RAGE_BAN_CHECK"].on = FALSE
      BY <1>0, <3>1 DEF Remove, NoTask
    <3> QED BY <3>1, <3>2 DEF ListIsWatched, LeaversAreKeyed, CheckRepeats
  <2> QED BY <2>1, <2>2
<1>6. CASE ServerDeactivate
  BY <1>3, <1>6 DEF ServerDeactivate, ListIsWatched, LeaversAreKeyed, CheckRepeats
<1>7. CASE ServerActivate
  <2>1. CASE leavers = {}
    BY <1>3, <1>7, <2>1
       DEF ServerActivate, TasksOfNewLevel, ListIsWatched, LeaversAreKeyed, CheckRepeats
  <2>2. CASE leavers # {}
    <3>1. m_Task'["RAGE_BAN_CHECK"].on = TRUE /\ m_Task'["RAGE_BAN_CHECK"].loop = TRUE
      BY <1>1, <1>3, <1>7, <2>2 DEF ServerActivate, TasksOfNewLevel
    <3> QED BY <1>7, <3>1
               DEF ServerActivate, ListIsWatched, LeaversAreKeyed, CheckRepeats
  <2> QED BY <2>1, <2>2
<1>8. CASE Tick
  <2>1. /\ m_Task'["RAGE_BAN_CHECK"].on = m_Task["RAGE_BAN_CHECK"].on
        /\ m_Task'["RAGE_BAN_CHECK"].loop = m_Task["RAGE_BAN_CHECK"].loop
    BY <1>0, <1>8 DEF Tick, Elapse, Task
  <2>2. \A l \in Leaver : SecondOf(l).key = l.key /\ SecondOf(l).who = l.who
    BY DEF SecondOf, Leaver
  <2>3. /\ \A k \in leavers' : \E l \in leavers : k = SecondOf(l)
        /\ server' = server
    BY <1>8 DEF Tick
  <2>4. LeaversAreKeyed'
    BY <1>0, <2>2, <2>3 DEF LeaversAreKeyed
  <2>5. leavers' # {} => leavers # {}
    BY <2>3
  <2> QED BY <2>1, <2>3, <2>4, <2>5 DEF ListIsWatched, CheckRepeats
<1> QED BY <1>2, <1>4, <1>5, <1>6, <1>7, <1>8
           DEF Next, Connect, PutInServer, ChooseTeam, ChangeTeam, TeamHandle, SetState,
               leaverVars

\* The sides that were saved.
LEMMA SavedStep ==
    ASSUME LeaverTypeOK, NothingDown, SideIsSaved, [Next]_leaverVars
    PROVE  NothingDown' /\ SideIsSaved'
<1>0. /\ place \in [Person -> Side \cup {"none", "loading", "away"}]
      /\ m_Data \in [Auth -> Side \cup {"none"}]
      /\ leftFrom \in [Person -> Side \cup {"none"}]
      /\ Ordinary \subseteq Person /\ {"none", "loading", "away"} \cap Side = {}
  BY OwnAuth DEF LeaverTypeOK, Side
<1>1. ASSUME NEW p \in Person, Connect(p) \/ PutInServer(p)
      PROVE  NothingDown' /\ SideIsSaved'
  BY <1>0, <1>1 DEF Connect, Loading, PutInServer, NothingDown, SideIsSaved
<1>2. ASSUME NEW p \in Person, NEW side \in Side, ChooseTeam(p, side)
      PROVE  NothingDown' /\ SideIsSaved'
  <2>1. p \in Ordinary => AuthOf(p) = p /\ p \notin Admins
    BY DEF Ordinary, AuthOf
  <2> QED BY <1>0, <1>2, <2>1 DEF ChooseTeam, ComesBackTo, NothingDown, SideIsSaved
<1>3. ASSUME NEW p \in Person, NEW to \in Side \cup {"none"},
             ChangeTeam(p, to) \/ TeamHandle(p, to)
      PROVE  NothingDown' /\ SideIsSaved'
  BY <1>0, <1>3 DEF ChangeTeam, TeamHandle, NothingDown, SideIsSaved
<1>4. ASSUME NEW p \in Person, DropClient(p) PROVE NothingDown' /\ SideIsSaved'
  <2>1. /\ server = "active" /\ server' = server /\ moved' = moved
        /\ place' = [place EXCEPT ![p] = "away"]
    BY <1>4 DEF DropClient
  <2>2. \A q \in Ordinary : q # p =>
          m_Data'[q] = m_Data[q] /\ leftFrom'[q] = leftFrom[q] /\ place'[q] = place[q]
    <3>1. \A q \in Ordinary : q # p => AuthOf(p) # q /\ q \in Auth
      BY OwnAuth
    <3>2. AuthOf(p) \in Auth
      BY OwnAuth
    <3> QED BY <1>0, <1>4, <3>1, <3>2 DEF DropClient
  <2>3. p \in Ordinary \ moved /\ leftFrom'[p] # "none" => m_Data'[p] = leftFrom'[p]
    <3> SUFFICES ASSUME p \in Ordinary \ moved, leftFrom'[p] # "none"
                 PROVE  m_Data'[p] = leftFrom'[p]
      OBVIOUS
    <3>1. AuthOf(p) = p /\ p \in Auth
      BY OwnAuth DEF Ordinary, AuthOf
    <3>2. CASE place[p] \in Side /\ InMatch(m_State)
      <4>1. leftFrom'[p] = place[p]
        BY <1>0, <1>4, <3>2 DEF DropClient
      <4>2. m_Data'[p] = IF m_Data[p] = "none" THEN place[p] ELSE m_Data[p]
        BY <1>0, <1>4, <3>1, <3>2 DEF DropClient
      <4> QED BY <3>2, <4>1, <4>2 DEF SideIsSaved
    <3>3. CASE ~(place[p] \in Side /\ InMatch(m_State))
      BY <1>4, <3>3 DEF DropClient, SideIsSaved
    <3> QED BY <3>2, <3>3
  <2>4. place'[p] = "away"
    BY <1>0, <2>1
  <2> QED BY <1>0, <2>1, <2>2, <2>3, <2>4 DEF NothingDown, SideIsSaved
<1>5. ASSUME NEW next \in STATE_DEATHMATCH .. STATE_OVERTIME, SetState(next)
      PROVE  NothingDown' /\ SideIsSaved'
  <2>1. PICK group \in MovedInto(next) : /\ place' = SidesOf(group)
                                         /\ moved' = moved \cup (group \cap Ordinary)
    BY <1>5 DEF SetState, SidesOf
  <2>2. \A q \in Ordinary \ moved' : q \notin moved /\ place'[q] = place[q]
    BY <1>0, <2>1 DEF SidesOf
  <2> QED BY <1>0, <1>5, <2>2 DEF SetState, NothingDown, SideIsSaved, Nowhere
<1>6. CASE ServerDeactivate
  BY <1>0, <1>6, OwnAuth DEF ServerDeactivate, Loading, NothingDown, SideIsSaved, Nowhere, NoData
<1>7. CASE ServerActivate
  BY <1>0, <1>7, OwnAuth DEF ServerActivate, NothingDown, SideIsSaved, Nowhere, NoData
<1>8. CASE CheckFires \/ Tick \/ UNCHANGED leaverVars
  BY <1>8 DEF CheckFires, Tick, leaverVars, NothingDown, SideIsSaved
<1> QED BY <1>1, <1>2, <1>3, <1>4, <1>5, <1>6, <1>7, <1>8 DEF Next
-----------------------------------------------------------------------------
LEMMA LeaverInvariant == Spec => []LeaverInv
<1>1. LeaverInv /\ [Next]_leaverVars => LeaverInv'
  BY LeaverTypeStep, WatchStep, SavedStep DEF LeaverInv
<1> QED BY <1>1, LeaverInit, PTL DEF Spec

\* The lists of the two components keep their shape; what is banned is the SteamID
\* or the address of a player.
THEOREM LeaverTypes == Spec => []LeaverTypeOK
<1>1. LeaverInv => LeaverTypeOK
  BY DEF LeaverInv
<1> QED BY <1>1, LeaverInvariant, PTL

\* No leaver is listed on a level where nobody looks at the list.
THEOREM LeaversAreWatched == Spec => []ListIsWatched
<1>1. LeaverInv => ListIsWatched
  BY DEF LeaverInv
<1> QED BY <1>1, LeaverInvariant, PTL

\* Nobody is banned while he is in the game.
THEOREM NobodyHereIsBanned == Spec => BannedAreAway
<1>1. ASSUME LeaverInv, Next, NEW p \in Person \ Generic, p \in banned' \ banned
      PROVE  ~Here(p)
  <2>1. CheckFires
    BY <1>1 DEF Next, Connect, PutInServer, DropClient, ChooseTeam, ChangeTeam, TeamHandle,
       SetState, ServerDeactivate, ServerActivate, Tick
  <2>2. CheckList
    BY <1>1, <2>1 DEF CheckFires
  <2>3. PICK l \in leavers : p \in BansOf(l) /\ \A q \in Person : Here(q) => KeyOf(q) # l.key
    BY <1>1, <2>2 DEF CheckList
  <2>4. l.who \in Person /\ l.key = KeyOf(l.who)
    BY <1>1, <2>3 DEF LeaverInv, LeaverTypeOK, LeaversAreKeyed
  <2>5. l.who = p
    BY <1>1, <2>3, <2>4, LeaversAssumption DEF BansOf, AuthOf
  <2> QED BY <1>1, <2>3, <2>4, <2>5
<1>2. LeaverInv /\ [Next]_leaverVars =>
        [\A p \in Person \ Generic : p \in banned' \ banned => ~Here(p)]_leaverVars
  BY <1>1
<1> QED BY <1>2, LeaverInvariant, PTL DEF Spec, BannedAreAway

\* Nobody changes his side by reconnecting, as long as he was only on one.
THEOREM SideIsKept == Spec => ReconnectKeepsSide
<1>1. ASSUME LeaverInv, Next, NEW p \in Ordinary \ moved' PROVE KeepsSideOn(p)
  <2> SUFFICES ASSUME leftFrom[p] # "none", place[p] = "none", place'[p] \in Side
               PROVE  place'[p] = leftFrom[p]
    BY DEF KeepsSideOn
  <2>1. /\ place \in [Person -> Side \cup {"none", "loading", "away"}] /\ p \in Person
        /\ {"none", "loading", "away"} \cap Side = {}
    BY <1>1, OwnAuth DEF LeaverInv, LeaverTypeOK, Side
  <2>2. \E side \in Side : ChooseTeam(p, side)
    <3>1. ASSUME NEW q \in Person, Connect(q) \/ PutInServer(q) \/ DropClient(q)
          PROVE  FALSE
      BY <2>1, <3>1 DEF Connect, Loading, PutInServer, DropClient
    <3>2. ASSUME NEW q \in Person, NEW to \in Side \cup {"none"},
                 ChangeTeam(q, to) \/ TeamHandle(q, to)
          PROVE  FALSE
      BY <1>1, <2>1, <3>2 DEF ChangeTeam, TeamHandle
    <3>3. ASSUME NEW q \in Person, NEW side \in Side, ChooseTeam(q, side) PROVE q = p
      BY <2>1, <3>3 DEF ChooseTeam
    <3>4. ASSUME NEW next \in STATE_DEATHMATCH .. STATE_OVERTIME, SetState(next) PROVE FALSE
      <4>1. PICK group \in MovedInto(next) : place' = SidesOf(group)
        BY <3>4 DEF SetState, SidesOf
      <4>2. group \subseteq Movable
        BY DEF MovedInto
      <4> QED BY <2>1, <4>1, <4>2 DEF SidesOf, Movable
    <3>5. CASE CheckFires \/ ServerDeactivate \/ ServerActivate \/ Tick
      BY <2>1, <3>5 DEF CheckFires, ServerDeactivate, Loading, ServerActivate, Tick
    <3> QED BY <1>1, <3>1, <3>2, <3>3, <3>4, <3>5 DEF Next
  <2>3. PICK side \in Side : ChooseTeam(p, side)
    BY <2>2
  <2>4. AuthOf(p) = p /\ p \notin Admins
    BY DEF Ordinary, AuthOf
  <2>5. m_Data[p] = leftFrom[p]
    BY <1>1, <2>3 DEF ChooseTeam, LeaverInv, SideIsSaved
  <2> QED BY <2>1, <2>3, <2>4, <2>5 DEF ChooseTeam, ComesBackTo
<1>2. LeaverInv /\ [Next]_leaverVars =>
        [\A p \in Ordinary \ moved' : KeepsSideOn(p)]_leaverVars
  BY <1>1
<1> QED BY <1>2, LeaverInvariant, PTL DEF Spec, ReconnectKeepsSide
=============================================================================
