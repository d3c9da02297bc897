------------------------------ MODULE PugRound ------------------------------
(***************************************************************************)
(* What is kept of the players during a round of a half that counts: the   *)
(* hits of CPugRoundStats, by client slot, and the round statistics of     *)
(* CPugStats (m_Player[].Round), by SteamID.  Players leave, and others    *)
(* take their slots, while the round goes on; the statistics of the round  *)
(* are settled when somebody dies and when it ends, and reset when the     *)
(* freeze time of the next one is over.  Sides are fixed: nobody changes   *)
(* his in a round, and CPugTeamManager sends who reconnects back to it.    *)
(***************************************************************************)
EXTENDS Integers, FiniteSets

CONSTANTS Person,      \* the SteamIDs
          Slot,        \* the client slots
          Side,        \* the side of each person
          TradeWindow, \* seconds within which a death is traded (3)
          MaxCredits   \* bound on the counters of Stats together

Team == {"TERRORIST", "CT"}

ASSUME RoundAssumption ==
    /\ IsFiniteSet(Person) /\ "nobody" \notin Person /\ 0 \notin Slot
    /\ Side \in [Person -> Team] /\ TradeWindow \in Nat /\ MaxCredits \in Nat

VARIABLES slot,       \* the slot of a person, or 0
          stage,      \* "away", in a "team" but not in the game, or in the "game"
          alive,      \* the persons who are alive
          phase,      \* of the round: "freeze", "play" or "over"
          m_RoundHit, \* who hit whom from slot to slot, for the counts of
                      \* CPugRoundStats::m_RoundHit and m_RoundDmg
          Round,      \* m_Player[].Round: seconds since the last kill, last victim, Versus
          Stats,      \* m_Player[].Stats: TradeDeaths and the Versus that were won
          died,       \* history: who died while this round was played
          lone        \* history: who was the last of his side meanwhile

clientVars == <<slot, stage>>
roundVars == <<clientVars, alive, phase, m_RoundHit, Round, Stats, died, lone>>

NoHits == [a \in Slot |-> [v \in Slot |-> {}]]
Never == TradeWindow + 1
NoRound == [KillAge |-> Never, LastVictim |-> "nobody", Versus |-> 0]
NoStats == [TradeDeaths |-> 0, Versus |-> 0]

InGame == {p \in Person : stage[p] = "game"}
AliveOn(side) == {p \in alive : Side[p] = side}
WithinBound(stats) ==
    Cardinality({c \in Person \X {"TradeDeaths", "Versus"} \X (1..MaxCredits + 1) :
                    c[3] <= stats[c[1]][c[2]]}) <= MaxCredits
Enemy(side) == IF side = "CT" THEN "TERRORIST" ELSE "CT"
-----------------------------------------------------------------------------
(***************************************************************************)
(* Clients: a team is chosen, the game is entered, the client is dropped.  *)
(***************************************************************************)
ChooseTeam(p, s) ==
    /\ stage[p] = "away" /\ \A q \in Person : slot[q] # s
    /\ slot' = [slot EXCEPT ![p] = s]
    /\ stage' = [stage EXCEPT ![p] = "team"]
    /\ UNCHANGED <<alive, phase, m_RoundHit, Round, Stats, died, lone>>

\* Faulty ClearRow: the row is left to DropClient.
ClearRowNever(s) == m_RoundHit

ClearRow(s) == [m_RoundHit EXCEPT ![s] = [v \in Slot |-> {}]]

\* CPugRoundStats::GetIntoGame.  The player spawns at once, or with the next round.
GetIntoGame(p) ==
    /\ stage[p] = "team"
    /\ stage' = [stage EXCEPT ![p] = "game"]
    /\ m_RoundHit' = ClearRow(slot[p])
    /\ \/ alive' = alive
       \/ phase # "over" /\ alive' = alive \cup {p}
    /\ UNCHANGED <<slot, phase, Round, Stats, died, lone>>

ClearColumn(s) == [a \in Slot |-> [m_RoundHit[a] EXCEPT ![s] = {}]]

\* CPugRoundStats::DropClient.
DropClient(p) ==
    /\ stage[p] # "away"
    /\ m_RoundHit' = ClearColumn(slot[p])
    /\ slot' = [slot EXCEPT ![p] = 0]
    /\ stage' = [stage EXCEPT ![p] = "away"]
    /\ alive' = alive \ {p}
    /\ UNCHANGED <<phase, Round, Stats, died, lone>>
-----------------------------------------------------------------------------
(***************************************************************************)
(* The round.                                                              *)
(***************************************************************************)
\* CPugRoundStats::TakeDamage, once the damage is done.
HitBy(a, v) == [m_RoundHit EXCEPT ![slot[a]][slot[v]] = @ \cup {<<a, v>>}]

TakeDamage(a, v) ==
    /\ phase # "freeze" /\ a # v /\ {a, v} \subseteq InGame /\ v \in alive
    /\ m_RoundHit' = HitBy(a, v)
    /\ UNCHANGED <<clientVars, alive, phase, Round, Stats, died, lone>>

\* The history is that of a round while it is played.
Played(history, who) == IF phase = "play" THEN history \cup who ELSE history

\* The victim killed a teammate of the killer not long ago.
Trades(k, v) == Side[k] # Side[v] /\ Round[v].KillAge <= TradeWindow

\* Faulty LastVictimOf: the victim of a team kill is remembered as well.
LastVictimOfAny(k, v) == v

\* The last enemy whom the killer has killed.
LastVictimOf(k, v) == IF Side[k] # Side[v] THEN v ELSE Round[k].LastVictim

\* Who is the last of his side faces as many enemies as are alive; the victim is
\* still counted among the living.
FacesAll(p) == p \in alive /\ Cardinality(AliveOn(Side[p])) = 1

\* CPugStats::SendDeathMessage for a kill, and then the hit that killed.
Kill(k, v) ==
    /\ phase # "freeze" /\ k # v /\ {k, v} \subseteq InGame /\ v \in alive
    /\ Stats' = [p \in Person |->
          [Stats[p] EXCEPT !.TradeDeaths =
              IF Trades(k, v) /\ p = Round[v].LastVictim THEN @ + 1 ELSE @]]
    /\ WithinBound(Stats')
    /\ Round' = [p \in Person |->
          [KillAge |-> IF p = k THEN 0 ELSE Round[p].KillAge,
           LastVictim |-> IF p = k THEN LastVictimOf(k, v) ELSE Round[p].LastVictim,
           Versus |-> IF FacesAll(p) THEN Cardinality(AliveOn(Enemy(Side[p])))
                      ELSE Round[p].Versus]]
    /\ alive' = alive \ {v}
    /\ m_RoundHit' = HitBy(k, v)
    /\ died' = Played(died, {v})
    /\ lone' = Played(lone, {p \in Person : FacesAll(p)})
    /\ UNCHANGED <<clientVars, phase>>

\* CPugStats::SendDeathMessage for a suicide, which nobody is credited with.
Suicide(p) ==
    /\ p \in alive
    /\ alive' = alive \ {p}
    /\ died' = Played(died, {p})
    /\ UNCHANGED <<clientVars, phase, m_RoundHit, Round, Stats, lone>>

\* The engine ends a round that is played at any time, for the bomb and the clock,
\* and in the freeze time for a side that is dead.
MayEnd(winner) ==
    \/ phase = "play"
    \/ phase = "freeze" /\ AliveOn(Enemy(winner)) = {}
       /\ \E p \in InGame : Side[p] = Enemy(winner)

\* CPugStats::RoundEnd: who is on the winning side has won his Versus.
RoundEnd(winner) ==
    /\ MayEnd(winner) /\ phase' = "over"
    /\ Stats' = [p \in Person |->
          IF stage[p] # "away" /\ Side[p] = winner /\ Round[p].Versus > 0
          THEN [Stats[p] EXCEPT !.Versus = @ + 1] ELSE Stats[p]]
    /\ WithinBound(Stats')
    /\ died' = {} /\ lone' = {}
    /\ UNCHANGED <<clientVars, alive, m_RoundHit, Round>>

\* Faulty Spawned: who has not entered the game spawns as well.
SpawnedOfTeams == {p \in Person : stage[p] # "away"}

Spawned == InGame

\* The engine restarts the round, without a complete reset: everybody spawns.
RestartRound ==
    /\ phase = "over" /\ phase' = "freeze"
    /\ alive' = Spawned
    /\ UNCHANGED <<clientVars, m_RoundHit, Round, Stats, died, lone>>

\* Faulty RoundStats: the versus of the last round stays.
RoundStatsKeepVersus == [p \in Person |-> [NoRound EXCEPT !.Versus = Round[p].Versus]]

RoundStats == [p \in Person |-> NoRound]

\* RoundStart of CPugRoundStats and of CPugStats, when the freeze time is over.
RoundStart ==
    /\ phase = "freeze" /\ phase' = "play"
    /\ m_RoundHit' = NoHits
    /\ Round' = RoundStats
    /\ UNCHANGED <<clientVars, alive, Stats, died, lone>>

\* A second passes.
Tick ==
    /\ Round' = [p \in Person |->
          [Round[p] EXCEPT !.KillAge = IF @ = Never THEN @ ELSE @ + 1]]
    /\ UNCHANGED <<clientVars, alive, phase, m_RoundHit, Stats, died, lone>>
-----------------------------------------------------------------------------
Init ==
    /\ slot = [p \in Person |-> 0] /\ stage = [p \in Person |-> "away"]
    /\ alive = {} /\ phase = "freeze"
    /\ m_RoundHit = NoHits
    /\ Round = [p \in Person |-> NoRound] /\ Stats = [p \in Person |-> NoStats]
    /\ died = {} /\ lone = {}

Next ==
    \/ \E p \in Person : \/ GetIntoGame(p) \/ DropClient(p) \/ Suicide(p)
                         \/ \E s \in Slot : ChooseTeam(p, s)
    \/ \E a, v \in Person : TakeDamage(a, v) \/ Kill(a, v)
    \/ \E winner \in Team : RoundEnd(winner)
    \/ RestartRound \/ RoundStart \/ Tick

Spec == Init /\ [][Next]_roundVars
-----------------------------------------------------------------------------
RoundTypeOK ==
    /\ slot \in [Person -> Slot \cup {0}]
    /\ stage \in [Person -> {"away", "team", "game"}]
    /\ alive \subseteq InGame
    /\ phase \in {"freeze", "play", "over"}
    /\ m_RoundHit \in [Slot -> [Slot -> SUBSET (Person \X Person)]]
    /\ Round \in [Person -> [KillAge: 0..Never, LastVictim: Person \cup {"nobody"},
                             Versus: Nat]]
    /\ Stats \in [Person -> [TradeDeaths: Nat, Versus: Nat]]
    /\ died \subseteq Person /\ lone \subseteq Person

\* The hits that a player is shown, done to or received from another player who is in
\* the game, are those of the two, not of who had their slots before them.
HitsBelong ==
    \A a, v \in InGame : m_RoundHit[slot[a]][slot[v]] \subseteq {<<a, v>>}

\* While a round is played, a traded death is a death of that round, and of a player
\* on the side of the one who traded it: nobody's kill in an earlier round makes his
\* death a trade.  (A round that ends in its freeze time never has its statistics
\* reset: what follows in it may trade a death of the round before.)
TradesAvenge ==
    [][\A q \in Person : phase = "play" /\ Stats'[q].TradeDeaths > Stats[q].TradeDeaths =>
          /\ q \in died
          /\ \E v \in alive \ alive' : Side[q] # Side[v]]_roundVars

\* Whoever is credited with a versus was the last of his side in the round that
\* his side has won by playing it.  (A round that ends in its freeze time is credited
\* with what is left of the round before.)
LoneWinsVersus ==
    [][\A p \in Person : phase = "play" /\ Stats'[p].Versus > Stats[p].Versus
                             => p \in lone]_roundVars
=============================================================================
