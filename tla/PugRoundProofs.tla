--------------------------- MODULE PugRoundProofs ---------------------------
(***************************************************************************)
(* What is kept of a round belongs to the round and to the players that it *)
(* is shown for, whatever the number of players and slots.                 *)
(***************************************************************************)
EXTENDS PugRound, FiniteSetTheorems, TLAPS

Hits == SUBSET (Person \X Person)

\* A slot belongs to one client at most, and to none who is away.
SlotsAreOwn ==
    /\ \A p \in Person : stage[p] = "away" <=> slot[p] = 0
    /\ \A p, q \in Person : slot[p] = slot[q] /\ slot[p] # 0 => p = q

\* Nobody has hit the slot of a player who has not entered the game, from any slot.
\* (A row may hold the hits of who left: it is cleared when the next one enters.)
ColumnsAreClear ==
    \A t \in Slot : (\A p \in InGame : slot[p] # t) => \A s \in Slot : m_RoundHit[s][t] = {}

\* What a round is settled by is of this round, once it is played.
RoundIsNew ==
    phase = "play" => \A p \in Person :
        /\ Round[p].LastVictim # "nobody" => /\ Round[p].LastVictim \in died
                                             /\ Side[Round[p].LastVictim] # Side[p]
        /\ Round[p].Versus > 0 => p \in lone

RoundInv == RoundTypeOK /\ SlotsAreOwn /\ ColumnsAreClear /\ HitsBelong /\ RoundIsNew
-----------------------------------------------------------------------------
LEMMA RoundInit == Init => RoundInv
<1> SUFFICES ASSUME Init PROVE RoundInv
  OBVIOUS
<1>1. InGame = {}
  BY DEF Init, InGame
<1>2. NoRound \in [KillAge: 0..Never, LastVictim: Person \cup {"nobody"}, Versus: Nat]
  BY RoundAssumption DEF NoRound, Never
<1>3. RoundTypeOK
  BY <1>1, <1>2 DEF Init, RoundTypeOK, NoHits, NoStats
<1>4. SlotsAreOwn /\ ColumnsAreClear /\ HitsBelong /\ RoundIsNew
  BY <1>1 DEF Init, SlotsAreOwn, ColumnsAreClear, HitsBelong, RoundIsNew, NoHits
<1> QED BY <1>3, <1>4 DEF RoundInv

\* A table with one cell that has grown.
LEMMA HitByEffect ==
    ASSUME RoundTypeOK, SlotsAreOwn, NEW a \in InGame, NEW v \in InGame
    PROVE  /\ slot[a] \in Slot /\ slot[v] \in Slot
           /\ HitBy(a, v) \in [Slot -> [Slot -> Hits]]
           /\ \A s, t \in Slot : HitBy(a, v)[s][t] =
                IF s = slot[a] /\ t = slot[v] THEN m_RoundHit[s][t] \cup {<<a, v>>}
                ELSE m_RoundHit[s][t]
<1>1. a \in Person /\ v \in Person /\ slot[a] \in Slot /\ slot[v] \in Slot
  BY DEF InGame, RoundTypeOK, SlotsAreOwn
<1>2. m_RoundHit \in [Slot -> [Slot -> Hits]]
  BY DEF RoundTypeOK, Hits
<1>3. <<a, v>> \in Person \X Person
  BY <1>1
<1>4. m_RoundHit[slot[a]][slot[v]] \cup {<<a, v>>} \in Hits
  BY <1>1, <1>2, <1>3 DEF Hits
<1> QED BY <1>1, <1>2, <1>4 DEF HitBy

LEMMA ClearEffect ==
    ASSUME RoundTypeOK, NEW p \in Slot
    PROVE  /\ ClearRow(p) \in [Slot -> [Slot -> Hits]]
           /\ ClearColumn(p) \in [Slot -> [Slot -> Hits]]
           /\ \A s, t \in Slot :
                /\ ClearRow(p)[s][t] = IF s = p THEN {} ELSE m_RoundHit[s][t]
                /\ ClearColumn(p)[s][t] = IF t = p THEN {} ELSE m_RoundHit[s][t]
<1>1. m_RoundHit \in [Slot -> [Slot -> Hits]] /\ {} \in Hits
  BY DEF RoundTypeOK, Hits
<1> QED BY <1>1 DEF ClearRow, ClearColumn

\* The rounds' statistics: what a kill and the end of a round do to them.
LEMMA KillEffect ==
    ASSUME RoundTypeOK, NEW k \in Person, NEW v \in Person, Kill(k, v)
    PROVE  /\ Stats' \in [Person -> [TradeDeaths: Nat, Versus: Nat]]
           /\ Round' \in [Person -> [KillAge: 0..Never, LastVictim: Person \cup {"nobody"},
                                     Versus: Nat]]
           /\ \A p \in Person :
                /\ Stats'[p].Versus = Stats[p].Versus
                /\ Stats'[p].TradeDeaths = IF Trades(k, v) /\ p = Round[v].LastVictim
                                           THEN Stats[p].TradeDeaths + 1
                                           ELSE Stats[p].TradeDeaths
                /\ Round'[p].LastVictim = IF p = k THEN LastVictimOf(k, v)
                                          ELSE Round[p].LastVictim
                /\ ~FacesAll(p) => Round'[p].Versus = Round[p].Versus
<1>1. /\ \A p \in Person : Stats[p] \in [TradeDeaths: Nat, Versus: Nat]
      /\ \A p \in Person : Round[p] \in [KillAge: 0..Never,
                                         LastVictim: Person \cup {"nobody"}, Versus: Nat]
      /\ IsFiniteSet(alive) /\ Never \in Nat
  <2>1. alive \subseteq Person
    BY DEF RoundTypeOK, InGame
  <2> QED BY <2>1, RoundAssumption, FS_Subset DEF RoundTypeOK, Never
<1>2. \A side : Cardinality(AliveOn(side)) \in Nat
  <2>1. \A side : AliveOn(side) \subseteq alive
    BY DEF AliveOn
  <2> QED BY <1>1, <2>1, FS_Subset, FS_CardinalityType
<1>3. LastVictimOf(k, v) \in Person \cup {"nobody"}
  BY <1>1 DEF LastVictimOf
<1>4. /\ Stats' = [p \in Person |->
                    [Stats[p] EXCEPT !.TradeDeaths =
                        IF Trades(k, v) /\ p = Round[v].LastVictim THEN @ + 1 ELSE @]]
      /\ Round' = [p \in Person |->
           [KillAge |-> IF p = k THEN 0 ELSE Round[p].KillAge,
            LastVictim |-> IF p = k THEN LastVictimOf(k, v) ELSE Round[p].LastVictim,
            Versus |-> IF FacesAll(p) THEN Cardinality(AliveOn(Enemy(Side[p])))
                       ELSE Round[p].Versus]]
  BY DEF Kill
<1>5. Stats' \in [Person -> [TradeDeaths: Nat, Versus: Nat]]
  BY <1>1, <1>4
<1>6. Round' \in [Person -> [KillAge: 0..Never, LastVictim: Person \cup {"nobody"},
                             Versus: Nat]]
  BY <1>1, <1>2, <1>3, <1>4
<1>7. \A p \in Person :
        /\ Stats'[p].Versus = Stats[p].Versus
        /\ Stats'[p].TradeDeaths = IF Trades(k, v) /\ p = Round[v].LastVictim
                                   THEN Stats[p].TradeDeaths + 1
                                   ELSE Stats[p].TradeDeaths
  BY <1>1, <1>4
<1>8. \A p \in Person :
        /\ Round'[p].LastVictim = IF p = k THEN LastVictimOf(k, v) ELSE Round[p].LastVictim
        /\ ~FacesAll(p) => Round'[p].Versus = Round[p].Versus
  BY <1>4
<1> QED BY <1>5, <1>6, <1>7, <1>8

LEMMA RoundEndEffect ==
    ASSUME RoundTypeOK, NEW winner \in Team, RoundEnd(winner)
    PROVE  /\ Stats' \in [Person -> [TradeDeaths: Nat, Versus: Nat]]
           /\ \A p \in Person : /\ Stats'[p].TradeDeaths = Stats[p].TradeDeaths
                                /\ \/ Round[p].Versus > 0
                                   \/ Stats'[p].Versus = Stats[p].Versus
BY DEF RoundTypeOK, RoundEnd

LEMMA RoundTypeStep ==
    ASSUME RoundTypeOK, SlotsAreOwn, [Next]_roundVars PROVE RoundTypeOK'
<1>0. /\ alive \subseteq InGame /\ InGame \subseteq Person
      /\ m_RoundHit \in [Slot -> [Slot -> Hits]]
      /\ \A p \in Person : stage[p] # "away" => slot[p] \in Slot
      /\ died \subseteq Person /\ lone \subseteq Person
  BY DEF RoundTypeOK, InGame, Hits, SlotsAreOwn
<1>1. ASSUME NEW p \in Person, NEW s \in Slot, ChooseTeam(p, s) PROVE RoundTypeOK'
  BY <1>0, <1>1 DEF ChooseTeam, RoundTypeOK, InGame
<1>2. ASSUME NEW p \in Person, GetIntoGame(p) PROVE RoundTypeOK'
  <2>1. slot[p] \in Slot /\ m_RoundHit' \in [Slot -> [Slot -> Hits]]
    BY <1>0, <1>2, ClearEffect DEF GetIntoGame
  <2>2. alive' \subseteq InGame'
    BY <1>0, <1>2 DEF GetIntoGame, InGame, RoundTypeOK
  <2> QED BY <1>0, <1>2, <2>1, <2>2 DEF GetIntoGame, RoundTypeOK, Hits
<1>3. ASSUME NEW p \in Person, DropClient(p) PROVE RoundTypeOK'
  <2>1. slot[p] \in Slot /\ m_RoundHit' \in [Slot -> [Slot -> Hits]]
    BY <1>0, <1>3, ClearEffect DEF DropClient
  <2>2. alive' \subseteq InGame'
    BY <1>0, <1>3 DEF DropClient, InGame, RoundTypeOK
  <2> QED BY <1>0, <1>3, <2>1, <2>2 DEF DropClient, RoundTypeOK, Hits
<1>4. ASSUME NEW a \in Person, NEW v \in Person, TakeDamage(a, v) PROVE RoundTypeOK'
  <2>1. m_RoundHit' \in [Slot -> [Slot -> Hits]]
    BY <1>4, HitByEffect DEF TakeDamage
  <2> QED BY <1>4, <2>1 DEF TakeDamage, clientVars, RoundTypeOK, InGame, Hits
<1>5. ASSUME NEW k \in Person, NEW v \in Person, Kill(k, v) PROVE RoundTypeOK'
  <2>1. m_RoundHit' \in [Slot -> [Slot -> Hits]]
    BY <1>5, HitByEffect DEF Kill
  <2>2. died' \subseteq Person /\ lone' \subseteq Person
    BY <1>0, <1>5 DEF Kill, Played
  <2>3. UNCHANGED <<slot, stage, phase>> /\ alive' \subseteq InGame'
    BY <1>0, <1>5 DEF Kill, clientVars, InGame
  <2> QED BY <1>5, <2>1, <2>2, <2>3, KillEffect DEF RoundTypeOK, Hits
<1>6. ASSUME NEW p \in Person, Suicide(p) PROVE RoundTypeOK'
  BY <1>0, <1>6 DEF Suicide, clientVars, RoundTypeOK, InGame, Played
<1>7. ASSUME NEW winner \in Team, RoundEnd(winner) PROVE RoundTypeOK'
  BY <1>0, <1>7, RoundEndEffect DEF RoundEnd, clientVars, RoundTypeOK, InGame
<1>8. CASE RestartRound
  BY <1>0, <1>8 DEF RestartRound, Spawned, clientVars, RoundTypeOK, InGame
<1>9. CASE RoundStart
  <2>1. NoRound \in [KillAge: 0..Never, LastVictim: Person \cup {"nobody"}, Versus: Nat]
    BY RoundAssumption DEF NoRound, Never
  <2> QED BY <1>0, <1>9, <2>1
             DEF RoundStart, RoundStats, NoHits, clientVars, RoundTypeOK, InGame
<1>10. CASE Tick
  <2>1. /\ Round \in [Person -> [KillAge: 0..Never, LastVictim: Person \cup {"nobody"},
                                 Versus: Nat]]
        /\ Never \in Nat
    BY RoundAssumption DEF RoundTypeOK, Never
  <2>2. Round' \in [Person -> [KillAge: 0..Never, LastVictim: Person \cup {"nobody"},
                               Versus: Nat]]
    <3>1. ASSUME NEW p \in Person
          PROVE  [Round[p] EXCEPT !.KillAge = IF @ = Never THEN @ ELSE @ + 1]
                   \in [KillAge: 0..Never, LastVictim: Person \cup {"nobody"}, Versus: Nat]
      <4>1. (IF Round[p].KillAge = Never THEN Round[p].KillAge ELSE Round[p].KillAge + 1)
              \in 0..Never
        BY <2>1
      <4> QED BY <2>1, <4>1
    <3> QED BY <1>10, <3>1 DEF Tick
  <2> QED BY <1>0, <1>10, <2>2 DEF Tick, clientVars, RoundTypeOK, InGame
<1>11. CASE UNCHANGED roundVars
  BY <1>11 DEF roundVars, clientVars, RoundTypeOK, InGame
<1> QED BY <1>1, <1>2, <1>3, <1>4, <1>5, <1>6, <1>7, <1>8, <1>9, <1>10, <1>11 DEF Next

\* The slots, the columns and the hits.
LEMMA HitsStep ==
    ASSUME RoundTypeOK, SlotsAreOwn, ColumnsAreClear, HitsBelong, [Next]_roundVars
    PROVE  SlotsAreOwn' /\ ColumnsAreClear' /\ HitsBelong'
<1>0. /\ InGame \subseteq Person /\ 0 \notin Slot
      /\ slot \in [Person -> Slot \cup {0}]
      /\ stage \in [Person -> {"away", "team", "game"}]
      /\ \A p \in InGame : slot[p] \in Slot
      /\ m_RoundHit \in [Slot -> [Slot -> Hits]]
  BY RoundAssumption DEF RoundTypeOK, InGame, SlotsAreOwn, Hits
<1>1. ASSUME NEW p \in Person, NEW s \in Slot, ChooseTeam(p, s)
      PROVE  SlotsAreOwn' /\ ColumnsAreClear' /\ HitsBelong'
  <2>1. /\ slot' = [slot EXCEPT ![p] = s] /\ stage' = [stage EXCEPT ![p] = "team"]
        /\ \A q \in Person : slot[q] # s
        /\ stage[p] = "away" /\ m_RoundHit' = m_RoundHit
    BY <1>1 DEF ChooseTeam
  <2>2. InGame' = InGame /\ p \notin InGame
    BY <1>0, <2>1 DEF InGame
  <2>3. \A q \in InGame : slot'[q] = slot[q]
    BY <1>0, <2>1, <2>2
  <2>4. SlotsAreOwn'
    BY <1>0, <2>1 DEF SlotsAreOwn
  <2>5. ColumnsAreClear' /\ HitsBelong'
    BY <2>1, <2>2, <2>3 DEF ColumnsAreClear, HitsBelong
  <2> QED BY <2>4, <2>5
<1>2. ASSUME NEW p \in Person, GetIntoGame(p)
      PROVE  SlotsAreOwn' /\ ColumnsAreClear' /\ HitsBelong'
  <2>1. /\ slot' = slot /\ stage' = [stage EXCEPT ![p] = "game"] /\ stage[p] = "team"
        /\ m_RoundHit' = ClearRow(slot[p])
    BY <1>2 DEF GetIntoGame
  <2>2. InGame' = InGame \cup {p} /\ p \notin InGame
    BY <1>0, <1>2, <2>1 DEF InGame
  <2>3. slot[p] \in Slot /\ \A q \in InGame : slot[q] # slot[p]
    BY <1>0, <1>2, <2>1, <2>2 DEF SlotsAreOwn
  <2>4. \A s, t \in Slot :
          m_RoundHit'[s][t] = IF s = slot[p] THEN {} ELSE m_RoundHit[s][t]
    BY <2>1, <2>3, ClearEffect
  <2>5. \A s \in Slot : m_RoundHit[s][slot[p]] = {}
    BY <2>3 DEF ColumnsAreClear
  <2>6. ColumnsAreClear'
    BY <2>1, <2>2, <2>4 DEF ColumnsAreClear
  <2>7. HitsBelong'
    BY <1>0, <2>1, <2>2, <2>3, <2>4, <2>5 DEF HitsBelong
  <2>8. SlotsAreOwn'
    BY <1>0, <1>2, <2>1 DEF SlotsAreOwn
  <2> QED BY <2>6, <2>7, <2>8
<1>3. ASSUME NEW p \in Person, DropClient(p)
      PROVE  SlotsAreOwn' /\ ColumnsAreClear' /\ HitsBelong'
  <2>1. /\ slot' = [slot EXCEPT ![p] = 0] /\ stage' = [stage EXCEPT ![p] = "away"]
        /\ m_RoundHit' = ClearColumn(slot[p]) /\ stage[p] # "away"
    BY <1>3 DEF DropClient
  <2>2. InGame' = InGame \ {p} /\ \A q \in InGame' : slot'[q] = slot[q]
    BY <1>0, <2>1 DEF InGame
  <2>3. slot[p] \in Slot
    BY <1>0, <2>1 DEF SlotsAreOwn
  <2>4. \A s, t \in Slot :
          m_RoundHit'[s][t] = IF t = slot[p] THEN {} ELSE m_RoundHit[s][t]
    BY <2>1, <2>3, ClearEffect
  <2>5. SlotsAreOwn'
    BY <1>0, <2>1 DEF SlotsAreOwn
  <2>6. ColumnsAreClear'
    BY <2>2, <2>4 DEF ColumnsAreClear
  <2>7. HitsBelong'
    BY <1>0, <2>2, <2>4 DEF HitsBelong
  <2> QED BY <2>5, <2>6, <2>7
<1>4. ASSUME NEW a \in Person, NEW v \in Person, TakeDamage(a, v) \/ Kill(a, v)
      PROVE  SlotsAreOwn' /\ ColumnsAreClear' /\ HitsBelong'
  <2>1. /\ a \in InGame /\ v \in InGame /\ UNCHANGED <<slot, stage>>
        /\ m_RoundHit' = HitBy(a, v)
    BY <1>4 DEF TakeDamage, Kill, clientVars
  <2>2. \A s, t \in Slot : m_RoundHit'[s][t] =
          IF s = slot[a] /\ t = slot[v] THEN m_RoundHit[s][t] \cup {<<a, v>>}
          ELSE m_RoundHit[s][t]
    <3>1. \A s, t \in Slot : HitBy(a, v)[s][t] =
            IF s = slot[a] /\ t = slot[v] THEN m_RoundHit[s][t] \cup {<<a, v>>}
            ELSE m_RoundHit[s][t]
      BY <1>0, <2>1 DEF HitBy
    <3> QED BY <2>1, <3>1
  <2>3. InGame' = InGame /\ slot' = slot /\ SlotsAreOwn'
    BY <2>1 DEF InGame, SlotsAreOwn
  <2>4. ColumnsAreClear'
    <3> SUFFICES ASSUME NEW t \in Slot, \A q \in InGame : slot[q] # t, NEW s \in Slot
                 PROVE  m_RoundHit'[s][t] = {}
      BY <2>3 DEF ColumnsAreClear
    <3>1. t # slot[v] /\ m_RoundHit[s][t] = {}
      BY <2>1 DEF ColumnsAreClear
    <3> QED BY <2>2, <3>1
  <2>5. \A b, w \in InGame : slot[b] = slot[a] /\ slot[w] = slot[v] => b = a /\ w = v
    BY <1>0, <2>1 DEF SlotsAreOwn
  <2>6. ASSUME NEW b \in InGame, NEW w \in InGame
        PROVE  m_RoundHit'[slot[b]][slot[w]] \subseteq {<<b, w>>}
    <3>1. /\ slot[b] \in Slot /\ slot[w] \in Slot
          /\ m_RoundHit[slot[b]][slot[w]] \subseteq {<<b, w>>}
      BY <1>0, <2>6 DEF HitsBelong
    <3>2. CASE slot[b] = slot[a] /\ slot[w] = slot[v]
      <4>1. b = a /\ w = v
        BY <2>5, <2>6, <3>2
      <4> QED BY <2>2, <3>1, <3>2, <4>1
    <3>3. CASE ~(slot[b] = slot[a] /\ slot[w] = slot[v])
      BY <2>2, <3>1, <3>3
    <3> QED BY <3>2, <3>3
  <2> QED BY <2>3, <2>4, <2>6 DEF HitsBelong
<1>5. CASE RoundStart
  BY <1>0, <1>5 DEF RoundStart, NoHits, clientVars, SlotsAreOwn, ColumnsAreClear, HitsBelong,
     InGame
<1>6. ASSUME UNCHANGED <<slot, stage, m_RoundHit>>
      PROVE  SlotsAreOwn' /\ ColumnsAreClear' /\ HitsBelong'
  BY <1>6 DEF SlotsAreOwn, ColumnsAreClear, HitsBelong, InGame
<1>7. CASE \/ \E p \in Person : Suicide(p)
           \/ \E winner \in Team : RoundEnd(winner)
           \/ RestartRound \/ Tick \/ UNCHANGED roundVars
  BY <1>6, <1>7 DEF Suicide, RoundEnd, RestartRound, Tick, roundVars, clientVars
<1> QED BY <1>1, <1>2, <1>3, <1>4, <1>5, <1>7 DEF Next

\* The statistics of a round that is played.
LEMMA NewStep ==
    ASSUME RoundTypeOK, RoundIsNew, [Next]_roundVars PROVE RoundIsNew'
<1>1. ASSUME NEW k \in Person, NEW v \in Person, Kill(k, v) PROVE RoundIsNew'
  <2>1. phase' = phase /\ v # k
    BY <1>1 DEF Kill
  <2> SUFFICES ASSUME phase = "play", NEW p \in Person
               PROVE  /\ Round'[p].LastVictim # "nobody"
                            => /\ Round'[p].LastVictim \in died'
                               /\ Side[Round'[p].LastVictim] # Side[p]
                      /\ Round'[p].Versus > 0 => p \in lone'
    BY <2>1 DEF RoundIsNew
  <2>2. died' = died \cup {v} /\ lone' = lone \cup {q \in Person : FacesAll(q)}
    BY <1>1 DEF Kill, Played
  <2>3. /\ Round[p].LastVictim # "nobody" => /\ Round[p].LastVictim \in died
                                             /\ Side[Round[p].LastVictim] # Side[p]
        /\ Round[p].Versus > 0 => p \in lone
    BY DEF RoundIsNew
  <2>4. Round'[p].Versus > 0 => p \in lone'
    BY <1>1, <2>2, <2>3, KillEffect
  <2>5. CASE p = k /\ Side[k] # Side[v]
    <3>1. Round'[p].LastVictim = v
      BY <1>1, <2>5, KillEffect DEF LastVictimOf
    <3> QED BY <2>2, <2>4, <2>5, <3>1
  <2>6. CASE ~(p = k /\ Side[k] # Side[v])
    <3>1. Round'[p].LastVictim = Round[p].LastVictim
      BY <1>1, <2>6, KillEffect DEF LastVictimOf
    <3> QED BY <2>2, <2>3, <2>4, <3>1
  <2> QED BY <2>5, <2>6
<1>2. CASE RoundStart
  BY <1>2 DEF RoundStart, RoundStats, NoRound, RoundIsNew
<1>3. CASE RestartRound \/ \E winner \in Team : RoundEnd(winner)
  BY <1>3 DEF RestartRound, RoundEnd, RoundIsNew
<1>4. CASE Tick
  <2>1. \A p \in Person : /\ Round'[p].LastVictim = Round[p].LastVictim
                          /\ Round'[p].Versus = Round[p].Versus
    BY <1>4 DEF Tick, RoundTypeOK
  <2> QED BY <1>4, <2>1 DEF Tick, RoundIsNew
<1>5. ASSUME UNCHANGED <<phase, Round, lone>>, died \subseteq died' PROVE RoundIsNew'
  BY <1>5 DEF RoundIsNew
<1>6. CASE \E p \in Person : \/ GetIntoGame(p) \/ DropClient(p) \/ Suicide(p)
                           \/ \E s \in Slot : ChooseTeam(p, s)
  BY <1>5, <1>6 DEF GetIntoGame, DropClient, Suicide, Played, ChooseTeam
<1>7. CASE (\E a, v \in Person : TakeDamage(a, v)) \/ UNCHANGED roundVars
  BY <1>5, <1>7 DEF TakeDamage, roundVars
<1> QED BY <1>1, <1>2, <1>3, <1>4, <1>6, <1>7 DEF Next
-----------------------------------------------------------------------------
LEMMA RoundInvariant == Spec => []RoundInv
<1>1. RoundInv /\ [Next]_roundVars => RoundInv'
  BY RoundTypeStep, HitsStep, NewStep DEF RoundInv
<1> QED BY <1>1, RoundInit, PTL DEF Spec

\* The tables of a round keep their shape, and only who is in the game is alive.
THEOREM RoundType == Spec => []RoundTypeOK
<1>1. RoundInv => RoundTypeOK
  BY DEF RoundInv
<1> QED BY <1>1, RoundInvariant, PTL

\* Whoever leaves and comes, a player is shown his own hits.
THEOREM OwnHits == Spec => []HitsBelong
<1>1. RoundInv => HitsBelong
  BY DEF RoundInv
<1> QED BY <1>1, RoundInvariant, PTL

\* Only a death of the round is traded, and only by who is on the side of the dead.
THEOREM OwnTrades == Spec => TradesAvenge
<1>1. ASSUME RoundInv, Next, NEW q \in Person, phase = "play",
             Stats'[q].TradeDeaths > Stats[q].TradeDeaths
      PROVE  q \in died /\ \E v \in alive \ alive' : Side[q] # Side[v]
  <2>1. RoundTypeOK /\ Stats[q].TradeDeaths \in Nat
    BY <1>1 DEF RoundInv, RoundTypeOK
  <2>2. ASSUME NEW k \in Person, NEW v \in Person, Kill(k, v)
        PROVE  q \in died /\ \E w \in alive \ alive' : Side[q] # Side[w]
    <3>1. q = Round[v].LastVictim
      BY <1>1, <2>1, <2>2, KillEffect
    <3>2. q # "nobody" /\ v \in alive \ alive'
      BY <1>1, <2>2, RoundAssumption DEF Kill
    <3> QED BY <1>1, <3>1, <3>2 DEF RoundInv, RoundIsNew
  <2>3. ASSUME NEW winner \in Team, RoundEnd(winner) PROVE FALSE
    BY <1>1, <2>1, <2>3, RoundEndEffect
  <2>4. ASSUME Stats' = Stats PROVE FALSE
    BY <1>1, <2>1, <2>4
  <2> QED BY <1>1, <2>2, <2>3, <2>4 DEF Next, ChooseTeam, GetIntoGame, DropClient,
             TakeDamage, Suicide, RestartRound, RoundStart, Tick
<1>2. RoundInv /\ [Next]_roundVars =>
        [\A q \in Person : phase = "play" /\ Stats'[q].TradeDeaths > Stats[q].TradeDeaths =>
            /\ q \in died
            /\ \E v \in alive \ alive' : Side[q] # Side[v]]_roundVars
  BY <1>1
<1> QED BY <1>2, RoundInvariant, PTL DEF Spec, TradesAvenge

\* Only who was the last of his side in the round is credited with it.
THEOREM OwnVersus == Spec => LoneWinsVersus
<1>1. ASSUME RoundInv, Next, NEW q \in Person, phase = "play",
             Stats'[q].Versus > Stats[q].Versus
      PROVE  q \in lone
  <2>1. RoundTypeOK /\ Stats[q].Versus \in Nat
    BY <1>1 DEF RoundInv, RoundTypeOK
  <2>2. ASSUME NEW winner \in Team, RoundEnd(winner) PROVE q \in lone
    <3>1. Round[q].Versus > 0
      BY <1>1, <2>1, <2>2, RoundEndEffect
    <3> QED BY <1>1, <3>1 DEF RoundInv, RoundIsNew
  <2>3. ASSUME NEW k \in Person, NEW v \in Person, Kill(k, v) PROVE FALSE
    BY <1>1, <2>1, <2>3, KillEffect
  <2>4. ASSUME Stats' = Stats PROVE FALSE
    BY <1>1, <2>1, <2>4
  <2> QED BY <1>1, <2>2, <2>3, <2>4 DEF Next, ChooseTeam, GetIntoGame, DropClient,
             TakeDamage, Suicide, RestartRound, RoundStart, Tick
<1>2. RoundInv /\ [Next]_roundVars =>
        [\A p \in Person : phase = "play" /\ Stats'[p].Versus > Stats[p].Versus
                               => p \in lone]_roundVars
  BY <1>1
<1> QED BY <1>2, RoundInvariant, PTL DEF Spec, LoneWinsVersus
=============================================================================
