--------------------------- MODULE PugStatsProofs ---------------------------
(***************************************************************************)
(* The rules of a match keep what they promise for halves of any length:   *)
(* nobody wins a match that is tied, and only a tie leads to overtime.     *)
(* Beside them, what CPugStats reports is true for any number of players   *)
(* and rounds, whoever leaves and comes back and however often the LO3     *)
(* restarts.                                                               *)
(***************************************************************************)
EXTENDS PugStats, TLAPS
-----------------------------------------------------------------------------
(***************************************************************************)
(* MatchRules.                                                             *)
(***************************************************************************)
\* Rounds of a half that has not begun are won by nobody.
NotYetPlayed ==
    /\ half = "none" => \A r \in Rosters : won[r]["first"] = 0
    /\ half \in {"none", "first"} => \A r \in Rosters : won[r]["second"] = 0
    /\ half \in {"none", "first", "second"} => wonOT = NoRoundsOT
    /\ half = "break" /\ Played("first") + Played("second") < 2 * HalfRounds
          => wonOT = NoRoundsOT

\* Two rosters never both have the lead that decides, and beside a leader who has
\* it the other has less than half of the rounds.
OneLeader ==
    /\ half = "first" => Played("first") <= HalfRounds
    /\ \A r \in Rosters : Regular(r) > HalfRounds => Regular(Rival(r)) < HalfRounds
    /\ \A r \in Rosters : wonOT[r] > HalfRoundsOT => wonOT[Rival(r)] < HalfRoundsOT

\* What follows the regular rounds: an overtime and its breaks after a tie, and
\* the end after a lead.
AfterRegular ==
    /\ half = "overtime" => \A r \in Rosters : Regular(r) = HalfRounds
    /\ half = "break" /\ Played("first") + Played("second") >= 2 * HalfRounds
          => \A r \in Rosters : Regular(r) = HalfRounds
    /\ half = "over" =>
         \/ \E r \in Rosters : Regular(r) > HalfRounds /\ wonOT = NoRoundsOT
         \/ /\ \A r \in Rosters : Regular(r) = HalfRounds
            /\ \E r \in Rosters : wonOT[r] > HalfRoundsOT

\* The inductive invariant.
RulesInv == RulesTypeOK /\ NotYetPlayed /\ OneLeader /\ AfterRegular

LEMMA RulesInit == Init => RulesInv
BY RulesAssumption DEF Init, RulesInv, RulesTypeOK, NotYetPlayed, OneLeader, AfterRegular,
   NoRounds, NoRoundsOT, Rosters, Rival, Regular, Played

\* A round won in the halves adds to one roster's regular rounds.
LEMMA WinRegular ==
    ASSUME RulesTypeOK, NEW r \in Rosters, half \in {"first", "second"},
           won' = [won EXCEPT ![r][half] = @ + 1]
    PROVE  /\ won' \in [Rosters -> [{"first", "second"} -> Nat]]
           /\ Regular(r)' = Regular(r) + 1 /\ Regular(Rival(r))' = Regular(Rival(r))
           /\ \A h \in {"first", "second"} :
                 Played(h)' = IF h = half THEN Played(h) + 1 ELSE Played(h)
           /\ \A s \in Rosters, h \in {"first", "second"} :
                 h # half => won'[s][h] = won[s][h]
<1>1. /\ won \in [Rosters -> [{"first", "second"} -> Nat]] /\ Rosters = {"A", "B"}
      /\ Rival("A") = "B" /\ Rival("B") = "A"
  BY DEF RulesTypeOK, Rosters, Rival
<1>2. won' \in [Rosters -> [{"first", "second"} -> Nat]]
  BY <1>1
<1>3. /\ won'[r][half] = won[r][half] + 1
      /\ \A h \in {"first", "second"} : h # half => won'[r][h] = won[r][h]
      /\ won'[Rival(r)] = won[Rival(r)]
  BY <1>1
<1> QED BY <1>1, <1>2, <1>3 DEF Regular, Played

\* A round is won in a half that is not over.
LEMMA WinKeeps == ASSUME RulesInv, NEW r \in Rosters, Win(r) PROVE RulesInv'
<1> USE RulesAssumption
<1>1. /\ RulesTypeOK /\ Rosters = {"A", "B"} /\ Rival(r) \in Rosters /\ Rival(r) # r
      /\ Rival(Rival(r)) = r /\ \A s \in Rosters : s = r \/ s = Rival(r)
      /\ \A s \in Rosters : Regular(s) \in Nat
      /\ Played("first") + Played("second") = Regular(r) + Regular(Rival(r))
  BY DEF RulesInv, RulesTypeOK, Rosters, Rival, Regular, Played
<1>2. ~FirstOver /\ ~Decided /\ ~TiedUp
  BY DEF Win
<1>3. CASE half \in {"first", "second"}
  <2>1. /\ won' = [won EXCEPT ![r][half] = @ + 1] /\ half' = half /\ wonOT' = wonOT
    BY <1>3 DEF Win
  <2>2. /\ won' \in [Rosters -> [{"first", "second"} -> Nat]]
        /\ Regular(r)' = Regular(r) + 1 /\ Regular(Rival(r))' = Regular(Rival(r))
        /\ Played(half)' = Played(half) + 1
        /\ \A s \in Rosters, h \in {"first", "second"} :
              h # half => won'[s][h] = won[s][h]
    BY <1>1, <1>3, <2>1, WinRegular
  <2>3. RulesTypeOK' /\ wonOT' = NoRoundsOT
    BY <1>1, <1>3, <2>1, <2>2 DEF RulesInv, RulesTypeOK, NotYetPlayed
  <2>4. NotYetPlayed' /\ AfterRegular'
    BY <1>1, <1>3, <2>1, <2>2, <2>3 DEF RulesInv, NotYetPlayed, AfterRegular
  <2>5. ASSUME half = "first" PROVE Played("first")' <= HalfRounds
    <3>1. won["A"]["first"] \in Nat /\ won["B"]["first"] \in Nat
      BY <1>1 DEF RulesTypeOK
    <3>2. Played("first") \in Nat /\ Played("first") < HalfRounds
      BY <1>2, <2>5, <3>1 DEF RulesInv, OneLeader, FirstOver, Played
    <3>3. Played("first")' = Played("first") + 1
      BY <2>1, <2>2, <2>5 DEF Played
    <3> QED BY <3>2, <3>3
  <2>6. \A s \in Rosters : Regular(s) <= HalfRounds
    <3>1. CASE half = "first"
      <4>1. \A s \in Rosters : Regular(s) <= Played("first")
        BY <1>1, <3>1 DEF RulesInv, NotYetPlayed, RulesTypeOK, Regular, Played
      <4> QED BY <1>1, <3>1, <4>1
                 DEF RulesInv, OneLeader, Played, RulesTypeOK
    <3>2. CASE half = "second"
      BY <1>1, <1>2, <3>2 DEF Decided
    <3> QED BY <1>3, <3>1, <3>2
  <2>7. Regular(r) = HalfRounds => Regular(Rival(r)) < HalfRounds
    <3>1. CASE half = "first"
      <4>1. /\ \A s \in Rosters : Regular(s) = won[s]["first"]
            /\ Played("first") < HalfRounds
            /\ Played("first") = won[r]["first"] + won[Rival(r)]["first"]
        BY <1>1, <1>2, <3>1 DEF RulesInv, NotYetPlayed, OneLeader, RulesTypeOK, Regular,
           Played, FirstOver
      <4> QED BY <1>1, <4>1
    <3>2. CASE half = "second"
      BY <1>1, <1>2, <2>6, <3>2 DEF TiedUp
    <3> QED BY <1>3, <3>1, <3>2
  <2>8. OneLeader'
    <3>1. /\ Regular(r)' > HalfRounds => Regular(Rival(r))' < HalfRounds
          /\ ~(Regular(Rival(r))' > HalfRounds)
      BY <1>1, <2>2, <2>6, <2>7
    <3>2. \A s \in Rosters : Regular(s)' > HalfRounds => Regular(Rival(s))' < HalfRounds
      BY <1>1, <3>1
    <3>3. \A s \in Rosters : wonOT'[s] = 0
      BY <2>3 DEF NoRoundsOT
    <3> QED BY <2>1, <2>5, <3>2, <3>3 DEF OneLeader
  <2> QED BY <2>3, <2>4, <2>8 DEF RulesInv
<1>4. CASE half = "overtime"
  <2>1. wonOT' = [wonOT EXCEPT ![r] = @ + 1] /\ half' = half /\ won' = won
    BY <1>4 DEF Win
  <2>2. /\ wonOT' \in [Rosters -> Nat]
        /\ wonOT'[r] = wonOT[r] + 1 /\ wonOT'[Rival(r)] = wonOT[Rival(r)]
    BY <1>1, <2>1 DEF RulesTypeOK
  <2>3. /\ \A s \in Rosters : wonOT[s] \in Nat /\ wonOT[s] <= HalfRoundsOT
        /\ wonOT[r] = HalfRoundsOT => wonOT[Rival(r)] < HalfRoundsOT
    BY <1>1, <1>2, <1>4 DEF Decided, TiedUp, RulesTypeOK
  <2>4. \A s \in Rosters : wonOT'[s] > HalfRoundsOT => wonOT'[Rival(s)] < HalfRoundsOT
    BY <1>1, <2>2, <2>3
  <2>5. OneLeader'
    BY <1>4, <2>1, <2>4 DEF RulesInv, OneLeader, Regular, Played
  <2>6. RulesTypeOK' /\ NotYetPlayed' /\ AfterRegular'
    BY <1>4, <2>1, <2>2
       DEF RulesInv, RulesTypeOK, NotYetPlayed, AfterRegular, Regular, Played
  <2> QED BY <2>5, <2>6 DEF RulesInv
<1> QED BY <1>3, <1>4 DEF Win

LEMMA RulesNext == RulesInv /\ [Next]_rulesVars => RulesInv'
<1> SUFFICES ASSUME RulesInv, [Next]_rulesVars PROVE RulesInv'
  OBVIOUS
<1> USE RulesAssumption
<1>1. CASE Start
  BY <1>1 DEF Start, RulesInv, RulesTypeOK, NotYetPlayed, OneLeader, AfterRegular,
     Regular, Played, Rosters
<1>2. CASE Break
  <2>1. /\ half' = "break" /\ won' = won /\ wonOT' = wonOT
    BY <1>2 DEF Break
  <2>2. \/ half = "first" /\ Played("first") + Played("second") < 2 * HalfRounds
        \/ \A r \in Rosters : Regular(r) = HalfRounds
    BY <1>2 DEF Break, FirstOver, TiedUp, RulesInv, NotYetPlayed, AfterRegular, Played,
       Rosters
  <2>3. (\A r \in Rosters : Regular(r) = HalfRounds)
          => Played("first") + Played("second") = 2 * HalfRounds
    BY DEF RulesInv, RulesTypeOK, Regular, Played, Rosters
  <2>4. /\ half = "first" => wonOT = NoRoundsOT
        /\ half = "overtime" => \A r \in Rosters : Regular(r) = HalfRounds
        /\ half \in {"first", "second", "overtime"}
        /\ half = "second" => wonOT = NoRoundsOT
    BY <1>2 DEF Break, FirstOver, TiedUp, RulesInv, NotYetPlayed, AfterRegular
  <2>5. \A h, r : Played(h)' = Played(h) /\ Regular(r)' = Regular(r)
    BY <2>1 DEF Played, Regular
  <2>6. Played("first") + Played("second") \in Nat
    BY DEF RulesInv, RulesTypeOK, Played, Rosters
  <2>7. RulesTypeOK' /\ OneLeader'
    BY <2>1, <2>5 DEF RulesInv, RulesTypeOK, OneLeader
  <2>8. NotYetPlayed'
    <3>1. Played("first") + Played("second") < 2 * HalfRounds => wonOT = NoRoundsOT
      BY <2>2, <2>3, <2>4, <2>6
    <3> QED BY <2>1, <2>5, <3>1 DEF NotYetPlayed
  <2>9. AfterRegular'
    BY <2>1, <2>2, <2>5, <2>6 DEF AfterRegular
  <2> QED BY <2>7, <2>8, <2>9 DEF RulesInv
<1>3. CASE Resume
  BY <1>3 DEF Resume, RulesInv, RulesTypeOK, NotYetPlayed, OneLeader, AfterRegular,
     Regular, Played, NoRoundsOT, PlayedOT, Rosters
<1>4. CASE Finish
  BY <1>4 DEF Finish, Decided, RulesInv, RulesTypeOK, NotYetPlayed, OneLeader,
     AfterRegular, Regular, Played, Rosters
<1>5. CASE Forget
  BY <1>5 DEF Forget, RulesInv, RulesTypeOK, NotYetPlayed, OneLeader,
     AfterRegular, Regular, Played, NoRounds, NoRoundsOT, Rosters
<1>6. CASE UNCHANGED rulesVars
  BY <1>6 DEF rulesVars, RulesInv, RulesTypeOK, NotYetPlayed, OneLeader, AfterRegular,
     Regular, Played
<1> QED BY <1>1, <1>2, <1>3, <1>4, <1>5, <1>6, WinKeeps DEF Next

LEMMA RulesInvariant == Spec => []RulesInv
BY RulesInit, RulesNext, PTL DEF Spec
-----------------------------------------------------------------------------
\* A match that is over has a winner, whatever the number of rounds.
THEOREM WinnerAtTheEnd == Spec => []EndHasWinner
<1>1. RulesInv => EndHasWinner
  <2> SUFFICES ASSUME RulesInv, half = "over" PROVE EndHasWinner
    BY DEF EndHasWinner
  <2> USE RulesAssumption
  <2>1. \A r \in Rosters : /\ Rival(r) \in Rosters /\ Regular(r) \in Nat /\ wonOT[r] \in Nat
    BY DEF RulesInv, RulesTypeOK, Rosters, Rival, Regular
  <2>2. CASE \E r \in Rosters : Regular(r) > HalfRounds /\ wonOT = NoRoundsOT
    <3>1. PICK r \in Rosters : Regular(r) > HalfRounds /\ wonOT = NoRoundsOT
      BY <2>2
    <3>2. Regular(Rival(r)) < HalfRounds /\ wonOT[r] = 0 /\ wonOT[Rival(r)] = 0
      BY <2>1, <3>1 DEF RulesInv, OneLeader, NoRoundsOT
    <3> QED BY <2>1, <3>1, <3>2 DEF EndHasWinner
  <2>3. CASE /\ \A r \in Rosters : Regular(r) = HalfRounds
             /\ \E r \in Rosters : wonOT[r] > HalfRoundsOT
    <3>1. PICK r \in Rosters : wonOT[r] > HalfRoundsOT
      BY <2>3
    <3>2. wonOT[Rival(r)] < HalfRoundsOT
      BY <3>1 DEF RulesInv, OneLeader
    <3> QED BY <2>1, <2>3, <3>1, <3>2 DEF EndHasWinner
  <2> QED BY <2>2, <2>3 DEF RulesInv, AfterRegular
<1> QED BY <1>1, RulesInvariant, PTL

\* Overtime is played by rosters that share the regular rounds.
THEOREM OvertimeAfterTie == Spec => []OvertimeIsTied
<1>1. RulesInv => OvertimeIsTied
  BY DEF RulesInv, AfterRegular, OvertimeIsTied
<1> QED BY <1>1, RulesInvariant, PTL
-----------------------------------------------------------------------------
(***************************************************************************)
(* PugStats.                                                               *)
(***************************************************************************)

Player == [Team: 0..2, Winner: 0..1, Stats: [Halves -> [Play: Nat, Win: Nat]]]

\* The rounds of roster r that the match is decided by.
Total(r) == Regular(r) + wonOT[r]

\* At the first halftime the second half has no rounds, and nobody leads by more
\* than a half; an overtime that breaks is not decided.
BreakIsOpen ==
    half = "break" =>
        /\ \A r \in Rosters : wonOT[r] <= HalfRoundsOT
        /\ Played("first") + Played("second") < 2 * HalfRounds
              => \A r \in Rosters : /\ won[r]["second"] = 0
                                    /\ won[r]["first"] <= HalfRounds

\* Whoever has been seen without a break, or was put on his side by the engine.
Seen(p) == since[p] \in {"start", "switched", "round"}

\* Whoever is seen is in a team, and nobody has switched before the first halftime.
SeenArePresent ==
    \A p \in Person : /\ Seen(p) => p \in Present
                      /\ since[p] = "switched" => half # "first"

\* In a match the stored team of a player is the side that he is on, through every
\* swap of sides, unless an admin has moved him.
TeamsAreStored ==
    half # "none" => \A p \in Present : since[p] # "moved" =>
        p \in Known /\ m_Player[p].Team = SideOf(where[p])

\* The LO3 is played before the first round of a half.
HalfIsFresh ==
    lo3 > 0 /\ half \in {"first", "second"} => \A r \in Rosters : won[r][half] = 0

\* The score of the report has the lead of the match, overtimes included.
Lead == m_Match.Score[SideOf("A")] - m_Match.Score[SideOf("B")]
ScoresAgree == half # "none" /\ "score" \notin stray => Lead = Total("A") - Total("B")

\* The winners are known when the match is decided, before it is over.
FlagsFollow ==
    (Decided \/ half = "over") /\ "score" \notin stray =>
        \A p \in Person : Seen(p) =>
            (m_Player[p].Winner = 1 <=> Total(where[p]) > Total(Rival(where[p])))

\* The inductive invariant, beside that of the rules.
StatsInv == /\ StatsTypeOK /\ SeenArePresent /\ TeamsAreStored /\ HalfIsFresh
            /\ RoundsAreReported /\ NoRoundTooMany /\ ScoresAgree /\ FlagsFollow
-----------------------------------------------------------------------------
\* Each step of the statistics is a step of the match or leaves the match alone.
LEMMA StatsStepKeepsRules == [StatsNext]_statsVars => [Next]_rulesVars
BY DEF StatsNext, statsVars, Next, rulesVars, DropClient, ChooseTeam, TeamHandle, CountedRound,
   UncountedRound, LO3Restart, LO3Live, FirstHalfStarts, HalftimeStarts,
   NextHalfStarts, MatchEnds, MatchIsForgotten

\* The match that the statistics follow is a match by the rules.
THEOREM StatsKeepRules == StatsSpec => Spec
<1>1. StatsInit => Init
  BY DEF StatsInit
<1> QED BY <1>1, StatsStepKeepsRules, PTL DEF StatsSpec, Spec

LEMMA BreakStep ==
    ASSUME RulesInv, BreakIsOpen, [Next]_rulesVars PROVE BreakIsOpen'
<1> USE RulesAssumption
<1>0. /\ \A r \in Rosters : /\ wonOT[r] \in Nat /\ won[r]["first"] \in Nat
                             /\ won[r]["second"] \in Nat
      /\ Rosters = {"A", "B"}
  BY DEF RulesInv, RulesTypeOK, Rosters
<1>1. CASE Break
  <2>1. half' = "break" /\ won' = won /\ wonOT' = wonOT
    BY <1>1 DEF Break
  <2>2. CASE FirstOver
    BY <1>0, <2>1, <2>2 DEF FirstOver, BreakIsOpen, RulesInv, NotYetPlayed, NoRoundsOT, Played
  <2>3. CASE TiedUp
    <3>1. \A r \in Rosters : Regular(r) = HalfRounds
      BY <2>3 DEF TiedUp, RulesInv, AfterRegular
    <3>2. Played("first") + Played("second") = 2 * HalfRounds
      BY <1>0, <3>1 DEF Regular, Played
    <3>3. \A r \in Rosters : wonOT[r] <= HalfRoundsOT
      BY <1>0, <2>3 DEF TiedUp, RulesInv, NotYetPlayed, NoRoundsOT
    <3> QED BY <2>1, <3>2, <3>3 DEF BreakIsOpen, Played
  <2>4. CASE half = "overtime" /\ PlayedOT = HalfRoundsOT
    <3>1. Played("first") + Played("second") = 2 * HalfRounds
      BY <1>0, <2>4 DEF Regular, Played, RulesInv, AfterRegular
    <3>2. \A r \in Rosters : wonOT[r] <= HalfRoundsOT
      BY <1>0, <2>4 DEF PlayedOT
    <3> QED BY <2>1, <3>1, <3>2 DEF BreakIsOpen, Played
  <2> QED BY <1>1, <2>2, <2>3, <2>4 DEF Break
<1>2. CASE Start \/ Resume \/ Finish \/ Forget \/ \E r \in Rosters : Win(r)
  BY <1>2 DEF Start, Resume, Finish, Forget, Win, BreakIsOpen, RulesInv, RulesTypeOK
<1>3. CASE UNCHANGED rulesVars
  BY <1>3 DEF rulesVars, BreakIsOpen, Played
<1> QED BY <1>1, <1>2, <1>3 DEF Next
-----------------------------------------------------------------------------
(***************************************************************************)
(* What the operations do to the entries of m_Player.                      *)
(***************************************************************************)
LEMMA StatsFacts ==
    ASSUME StatsTypeOK
    PROVE  /\ m_Player \in [Known -> Player] /\ Known \subseteq Person
           /\ \A p \in Present : p \in Person /\ where[p] \in Rosters
           /\ \A r \in Rosters : SideOf(r) \in Team /\ Rival(r) \in Rosters
           /\ \A r, s \in Rosters : SideOf(r) = SideOf(s) <=> r = s
           /\ NewPlayer(0) \in Player /\ \A side \in Team : NewPlayer(side) \in Player
BY DEF StatsTypeOK, Player, Present, Rosters, Rival, SideOf, Team, TERRORIST, CT,
   NewPlayer, NoStats, Halves

LEMMA EntryFacts ==
    ASSUME StatsTypeOK
    PROVE  /\ \A p \in Known : Entry(p) = m_Player[p]
           /\ \A p : p \notin Known => Entry(p).Stats = NoStats
           /\ \A p : Entry(p) \in Player
           /\ \A h \in Halves : NoStats[h] = [Play |-> 0, Win |-> 0]
BY StatsFacts DEF Entry, NewPlayer, NoStats

LEMMA RoundEndEffect ==
    ASSUME StatsTypeOK, InHalf, NEW winner \in Team, RoundEnd(winner)
    PROVE  /\ m_Match' = ScoreRound(winner)
           /\ m_Player' \in [Known \cup Present -> Player]
           /\ \A p \in Known :
                /\ m_Player'[p].Team = m_Player[p].Team
                /\ m_Player'[p].Winner = IF m_Player[p].Team = Ahead(m_Match'.Score)
                                         THEN 1 ELSE 0
           /\ \A p \in Known \cup Present :
                /\ \A h \in Halves : h # half \/ p \notin Present
                      => m_Player'[p].Stats[h] = Entry(p).Stats[h]
                /\ p \in Present =>
                     /\ m_Player'[p].Stats[half].Play = Entry(p).Stats[half].Play + 1
                     /\ m_Player'[p].Stats[half].Win =
                           IF SideOf(where[p]) = winner
                           THEN Entry(p).Stats[half].Win + 1
                           ELSE Entry(p).Stats[half].Win
<1> DEFINE match == ScoreRound(winner)
           Stats(p) == IF p \in Present THEN PlayRound(p, winner, match)
                       ELSE m_Player[p].Stats
           Flag(p) == IF p \in Known /\ Entry(p).Team = match.Winner THEN 1 ELSE 0
<1>1. half \in Halves /\ \A p \in Known : Entry(p) = m_Player[p]
  BY EntryFacts DEF InHalf
<1>2. /\ m_Match' = match /\ match.Winner = Ahead(match.Score)
      /\ m_Player' = [p \in Known \cup Present |->
                        [Team |-> Entry(p).Team, Winner |-> Flag(p), Stats |-> Stats(p)]]
  BY DEF RoundEnd, ScoreRound
<1>3. ASSUME NEW p \in Known \cup Present
      PROVE  /\ Stats(p) \in [Halves -> [Play: Nat, Win: Nat]]
             /\ \A h \in Halves : h # half \/ p \notin Present
                   => Stats(p)[h] = Entry(p).Stats[h]
             /\ p \in Present =>
                  /\ Stats(p)[half].Play = Entry(p).Stats[half].Play + 1
                  /\ Stats(p)[half].Win = IF SideOf(where[p]) = winner
                                          THEN Entry(p).Stats[half].Win + 1
                                          ELSE Entry(p).Stats[half].Win
  <2> DEFINE stats == Entry(p).Stats
  <2>1. stats \in [Halves -> [Play: Nat, Win: Nat]]
    BY EntryFacts DEF Player
  <2>2. PlayRound(p, winner, match) =
          [stats EXCEPT ![half] =
             [Play |-> stats[half].Play + 1,
              Win |-> IF SideOf(where[p]) = winner THEN stats[half].Win + 1
                                                   ELSE stats[half].Win]]
    <3>1. stats[half] \in [Play: Nat, Win: Nat]
      BY <1>1, <2>1
    <3> QED BY <1>1, <2>1, <3>1 DEF PlayRound
  <2>3. CASE p \in Present
    <3>1. Stats(p) = PlayRound(p, winner, match)
      BY <2>3
    <3> HIDE DEF match, Stats, stats
    <3>2. /\ PlayRound(p, winner, match) \in [Halves -> [Play: Nat, Win: Nat]]
          /\ \A h \in Halves \ {half} : PlayRound(p, winner, match)[h] = stats[h]
          /\ PlayRound(p, winner, match)[half].Play = stats[half].Play + 1
          /\ PlayRound(p, winner, match)[half].Win =
                IF SideOf(where[p]) = winner THEN stats[half].Win + 1 ELSE stats[half].Win
      BY <1>1, <2>1, <2>2
    <3> QED BY <2>3, <3>1, <3>2 DEF stats
  <2>4. CASE p \notin Present
    <3>1. Stats(p) = stats
      BY <1>1, <2>4
    <3> HIDE DEF match, Stats
    <3> QED BY <1>1, <2>1, <2>4, <3>1
  <2> QED BY <2>3, <2>4
<1>4. ASSUME NEW p \in Known \cup Present
      PROVE  /\ m_Player'[p] \in Player
             /\ m_Player'[p].Team = Entry(p).Team
             /\ m_Player'[p].Winner = Flag(p) /\ m_Player'[p].Stats = Stats(p)
  <2>1. Entry(p) \in Player
    BY EntryFacts
  <2>2. Flag(p) \in 0..1 /\ Stats(p) \in [Halves -> [Play: Nat, Win: Nat]]
    BY <1>3, <1>4
  <2>3. m_Player'[p] = [Team |-> Entry(p).Team, Winner |-> Flag(p),
                        Stats |-> Stats(p)]
    BY <1>2, <1>4
  <2> HIDE DEF Flag, Stats, match
  <2> QED BY <2>1, <2>2, <2>3 DEF Player
<1>5. m_Player' \in [Known \cup Present -> Player]
  BY <1>2, <1>4
<1> QED BY <1>1, <1>2, <1>3, <1>4, <1>5

LEMMA WithoutHalfEffect ==
    ASSUME NEW D, NEW table \in [D -> Player], NEW h \in Halves
    PROVE  /\ WithoutHalf(table, h) \in [D -> Player]
           /\ \A p \in D :
                /\ WithoutHalf(table, h)[p].Team = table[p].Team
                /\ WithoutHalf(table, h)[p].Winner = table[p].Winner
                /\ WithoutHalf(table, h)[p].Stats[h] = [Play |-> 0, Win |-> 0]
                /\ \A g \in Halves \ {h} : WithoutHalf(table, h)[p].Stats[g] = table[p].Stats[g]
<1>1. DOMAIN table = D
  OBVIOUS
<1>2. ASSUME NEW stats \in [Halves -> [Play: Nat, Win: Nat]]
      PROVE  /\ Cleared(stats, h) \in [Halves -> [Play: Nat, Win: Nat]]
             /\ Cleared(stats, h)[h] = [Play |-> 0, Win |-> 0]
             /\ \A g \in Halves \ {h} : Cleared(stats, h)[g] = stats[g]
  BY <1>2 DEF Cleared, NoStats
<1>3. ASSUME NEW p \in D
      PROVE  /\ table[p] \in Player
             /\ WithoutHalf(table, h)[p] =
                  [table[p] EXCEPT !.Stats = Cleared(table[p].Stats, h)]
  BY <1>1, <1>3 DEF WithoutHalf
<1>4. ASSUME NEW p \in D
      PROVE  /\ WithoutHalf(table, h)[p] \in Player
             /\ WithoutHalf(table, h)[p].Team = table[p].Team
             /\ WithoutHalf(table, h)[p].Winner = table[p].Winner
             /\ WithoutHalf(table, h)[p].Stats = Cleared(table[p].Stats, h)
             /\ table[p].Stats \in [Halves -> [Play: Nat, Win: Nat]]
  <2> DEFINE cleared == Cleared(table[p].Stats, h)
  <2>1. table[p] \in Player /\ table[p].Stats \in [Halves -> [Play: Nat, Win: Nat]]
    BY <1>3, <1>4 DEF Player
  <2>2. cleared \in [Halves -> [Play: Nat, Win: Nat]]
    BY <1>2, <2>1
  <2>3. WithoutHalf(table, h)[p] = [table[p] EXCEPT !.Stats = cleared]
    BY <1>3, <1>4
  <2> HIDE DEF cleared
  <2>4. [table[p] EXCEPT !.Stats = cleared] \in Player
    BY <2>1, <2>2 DEF Player
  <2>5. /\ [table[p] EXCEPT !.Stats = cleared].Team = table[p].Team
        /\ [table[p] EXCEPT !.Stats = cleared].Winner = table[p].Winner
        /\ [table[p] EXCEPT !.Stats = cleared].Stats = cleared
    BY <2>1 DEF Player
  <2> QED BY <2>1, <2>3, <2>4, <2>5 DEF cleared
<1>5. WithoutHalf(table, h) = [p \in D |-> WithoutHalf(table, h)[p]]
  BY DEF WithoutHalf
<1>6. WithoutHalf(table, h) \in [D -> Player]
  BY <1>4, <1>5
<1> QED BY <1>2, <1>4, <1>6

\* A team is written into the entry of a player, which is made if there is none.
LEMMA WithTeamEffect ==
    ASSUME StatsTypeOK, NEW p \in Person, NEW side \in 0..2
    PROVE  LET table == WithTeam(m_Player, p, side) IN
           /\ table \in [Known \cup {p} -> Player]
           /\ table[p].Team = side
           /\ \A q \in Known : /\ q # p => table[q] = m_Player[q]
                               /\ table[q].Stats = m_Player[q].Stats
                               /\ table[q].Winner = m_Player[q].Winner
           /\ p \notin Known => table[p] = NewPlayer(side)
<1> DEFINE table == WithTeam(m_Player, p, side)
<1>1. m_Player \in [Known -> Player]
  BY StatsFacts
<1>2. NewPlayer(side) \in Player /\ NewPlayer(side).Team = side
  BY DEF NewPlayer, NoStats, Player
<1>3. \A q \in Known : m_Player[q] \in Player
  BY <1>1
<1>4. p \in Known => /\ table[p] = [m_Player[p] EXCEPT !.Team = side]
                     /\ table[p] \in Player
  BY <1>3 DEF WithTeam, Player, Known
<1>5. /\ p \notin Known => table[p] = NewPlayer(side)
      /\ \A q \in Known : q # p => table[q] = m_Player[q]
      /\ DOMAIN table = Known \cup {p}
      /\ table = [q \in Known \cup {p} |-> table[q]]
  BY DEF WithTeam, Known
<1>6. table \in [Known \cup {p} -> Player]
  BY <1>2, <1>3, <1>4, <1>5
<1> QED BY <1>2, <1>3, <1>4, <1>5, <1>6 DEF Player

\* The players who are switched are on the other side, with all that was counted.
LEMMA SwitchTeamsEffect ==
    ASSUME StatsTypeOK, NEW players \in SUBSET Present
    PROVE  /\ SwitchTeams(players) \in [Known \cup players -> Player]
           /\ \A p \in Known \cup players :
                /\ SwitchTeams(players)[p].Stats = Entry(p).Stats
                /\ SwitchTeams(players)[p].Winner = Entry(p).Winner
           /\ \A p \in players :
                SwitchTeams(players)[p].Team = Other(SideOf(where[p]))
           /\ \A p \in Known \ players : SwitchTeams(players)[p].Team = m_Player[p].Team
<1> DEFINE side(p) == Other(SideOf(where[p]))
<1>1. \A p \in Known : Entry(p) = m_Player[p]
  BY EntryFacts
<1>2. \A p \in players : side(p) \in 0..2
  BY StatsFacts DEF Other, Team, TERRORIST, CT
<1>3. SwitchTeams(players) = [p \in Known \cup players |->
        IF p \in players THEN [Entry(p) EXCEPT !.Team = side(p)] ELSE m_Player[p]]
  BY DEF SwitchTeams
<1> HIDE DEF side
<1>4. \A p \in players :
        /\ [Entry(p) EXCEPT !.Team = side(p)] \in Player
        /\ [Entry(p) EXCEPT !.Team = side(p)].Team = side(p)
        /\ [Entry(p) EXCEPT !.Team = side(p)].Stats = Entry(p).Stats
        /\ [Entry(p) EXCEPT !.Team = side(p)].Winner = Entry(p).Winner
  BY <1>2, EntryFacts DEF Player
<1>5. \A p \in Known : m_Player[p] \in Player
  BY StatsFacts
<1> QED BY <1>1, <1>3, <1>4, <1>5 DEF side

\* Whom the engine moves is on the other roster, and nobody leaves his team by it.
LEMMA BalancedEffect ==
    ASSUME StatsTypeOK, NEW players \in SUBSET Present, where' = Balanced(players)
    PROVE  /\ where' \in [Person -> Rosters \cup {"away"}] /\ Present' = Present
           /\ \A p \in Person :
                where'[p] = IF p \in players THEN Rival(where[p]) ELSE where[p]
           /\ \A p \in players : /\ SideOf(where'[p]) = Other(SideOf(where[p]))
                                  /\ Rival(where'[p]) = where[p]
<1>1. \A p \in players : p \in Person /\ where[p] \in Rosters
  BY StatsFacts
<1>2. \A r \in Rosters : /\ Rival(r) \in Rosters /\ Rival(Rival(r)) = r
                          /\ SideOf(Rival(r)) = Other(SideOf(r))
  BY DEF StatsTypeOK, Rosters, Rival, SideOf, Other, TERRORIST, CT
<1>3. \A p \in Person :
        where'[p] = IF p \in players THEN Rival(where[p]) ELSE where[p]
  BY DEF Balanced
<1>4. where' \in [Person -> Rosters \cup {"away"}]
  BY <1>1, <1>2, <1>3 DEF Balanced, StatsTypeOK
<1>5. Present' = Present
  BY <1>1, <1>2, <1>3 DEF Present
<1> QED BY <1>1, <1>2, <1>3, <1>4, <1>5

\* What the second half does to the entries: who is switched is on his new side, and
\* the counters of the second half are forgotten.
LEMMA SecondHalfEffect ==
    ASSUME StatsTypeOK, NEW players \in SUBSET Present,
           m_Player' = WithoutHalf(SwitchTeams(players), "second")
    PROVE  /\ m_Player' \in [Known \cup players -> Player]
           /\ Known' = Known \cup players
           /\ \A p \in Known \cup players :
                /\ m_Player'[p].Stats["second"] = [Play |-> 0, Win |-> 0]
                /\ \A h \in Halves \ {"second"} :
                     m_Player'[p].Stats[h] = Entry(p).Stats[h]
           /\ \A p \in players : m_Player'[p].Team = Other(SideOf(where[p]))
           /\ \A p \in Known \ players : m_Player'[p].Team = m_Player[p].Team
<1>1. "second" \in Halves
  BY DEF Halves
<1>2. SwitchTeams(players) \in [Known \cup players -> Player]
  BY SwitchTeamsEffect
<1>3. /\ m_Player' \in [Known \cup players -> Player]
      /\ \A p \in Known \cup players :
           /\ m_Player'[p].Team = SwitchTeams(players)[p].Team
           /\ m_Player'[p].Stats["second"] = [Play |-> 0, Win |-> 0]
           /\ \A h \in Halves \ {"second"} :
                m_Player'[p].Stats[h] = SwitchTeams(players)[p].Stats[h]
  BY <1>1, <1>2, WithoutHalfEffect
<1>4. Known' = Known \cup players
  BY <1>3 DEF Known
<1>5. \A p \in Known \cup players : SwitchTeams(players)[p].Stats = Entry(p).Stats
  BY SwitchTeamsEffect
<1>6. /\ \A p \in players : SwitchTeams(players)[p].Team = Other(SideOf(where[p]))
      /\ \A p \in Known \ players : SwitchTeams(players)[p].Team = m_Player[p].Team
  BY SwitchTeamsEffect
<1>7. \A p \in Known \cup players : \A h \in Halves \ {"second"} :
        m_Player'[p].Stats[h] = Entry(p).Stats[h]
  BY <1>3, <1>5
<1> QED BY <1>3, <1>4, <1>6, <1>7

-----------------------------------------------------------------------------
(***************************************************************************)
(* Each step keeps each part of the invariant.                             *)
(***************************************************************************)
LEMMA StatsInitInv == StatsInit => StatsInv /\ BreakIsOpen
<1> SUFFICES ASSUME StatsInit PROVE StatsInv /\ BreakIsOpen
  OBVIOUS
<1>1. RulesInv
  BY RulesInit DEF StatsInit
<1>2. /\ half = "none" /\ lo3 = 0 /\ Known = {} /\ Present = {}
      /\ \A p \in Person : where[p] = "away" /\ since[p] = "nothing"
  BY DEF StatsInit, NoPlayers, Init, Known, Present, Rosters
<1>3. StatsTypeOK
  BY <1>1, <1>2 DEF StatsInit, StatsTypeOK, RulesInv, Rosters, Known, NoMatch, Team
<1> QED BY <1>2, <1>3 DEF StatsInv, SeenArePresent, Seen, TeamsAreStored, HalfIsFresh,
           RoundsAreReported, NoRoundTooMany, ScoresAgree, FlagsFollow, Decided,
           BreakIsOpen

LEMMA ScoreType ==
    ASSUME StatsTypeOK, NEW winner \in Team
    PROVE  ScoreRound(winner) \in [Score: [Team -> Nat], Rounds: Nat, Winner: 0..2]
BY DEF StatsTypeOK, ScoreRound, Ahead, Team, TERRORIST, CT

\* A player goes to another team, or leaves, by himself or by an admin.
Moves(p) == \/ DropClient(p)
            \/ \E r \in Rosters : ChooseTeam(p, r)
            \/ \E to \in Rosters \cup {"away"} : TeamHandle(p, to)

\* The entry of a player who moves stays, or gets a team; the right one if he plays,
\* unless an admin has moved him.
LEMMA MoveShape ==
    ASSUME StatsTypeOK, NEW p \in Person, Moves(p)
    PROVE  /\ UNCHANGED <<half, won, wonOT, roster, lo3, m_Match, stray>>
           /\ \E to \in Rosters \cup {"away"}, how \in {"nothing", "moved"} :
                /\ where' = [where EXCEPT ![p] = to]
                /\ since' = [since EXCEPT ![p] = how]
                /\ \/ /\ m_Player' = m_Player
                      /\ half # "none" /\ to \in Rosters => how = "moved"
                   \/ \E side \in 0..2 :
                        /\ m_Player' = WithTeam(m_Player, p, side)
                        /\ to \in Rosters => side = SideOf(to)
<1>0. \A r \in Rosters : SideOf(r) \in 0..2
  BY StatsFacts DEF Team, TERRORIST, CT
<1>1. CASE DropClient(p)
  <2>1. "away" \notin Rosters /\ 0 \in 0..2
    BY DEF Rosters
  <2> QED BY <1>1, <2>1 DEF DropClient, rulesVars
<1>2. CASE \E r \in Rosters : ChooseTeam(p, r)
  BY <1>0, <1>2 DEF ChooseTeam, rulesVars
<1>3. CASE \E to \in Rosters \cup {"away"} : TeamHandle(p, to)
  <2>1. PICK to \in Rosters \cup {"away"} : TeamHandle(p, to)
    BY <1>3
  <2> DEFINE how == IF to \in Rosters /\ half # "none" THEN "moved" ELSE "nothing"
  <2>2. /\ UNCHANGED <<half, won, wonOT, roster, lo3, m_Match, stray>>
        /\ where' = [where EXCEPT ![p] = to] /\ since' = [since EXCEPT ![p] = how]
        /\ \/ m_Player' = m_Player
           \/ to \in Rosters /\ m_Player' = WithTeam(m_Player, p, SideOf(to))
    BY <2>1 DEF TeamHandle, rulesVars
  <2>3. how \in {"nothing", "moved"} /\ (half # "none" /\ to \in Rosters => how = "moved")
    OBVIOUS
  <2> QED BY <1>0, <2>2, <2>3
<1> QED BY <1>1, <1>2, <1>3 DEF Moves

\* Who moves loses nothing that was counted.
LEMMA MoveEffect ==
    ASSUME StatsTypeOK, NEW p \in Person, Moves(p)
    PROVE  /\ UNCHANGED <<half, won, wonOT, roster, lo3, m_Match, stray>>
           /\ where' \in [Person -> Rosters \cup {"away"}]
           /\ since' \in [Person -> {"start", "switched", "round", "moved", "nothing"}]
           /\ since'[p] \in {"nothing", "moved"}
           /\ \A q \in Person \ {p} : since'[q] = since[q] /\ where'[q] = where[q]
           /\ Known \subseteq Known' /\ Known' \subseteq Known \cup {p}
           /\ m_Player' \in [Known' -> Player]
           /\ \A q \in Known : /\ q # p => m_Player'[q] = m_Player[q]
                               /\ m_Player'[q].Stats = m_Player[q].Stats
                               /\ m_Player'[q].Winner = m_Player[q].Winner
           /\ p \in Known' \ Known => m_Player'[p].Stats = NoStats
           /\ half # "none" /\ p \in Present' /\ since'[p] # "moved"
                => p \in Known' /\ m_Player'[p].Team = SideOf(where'[p])
<1>0. /\ m_Player \in [Known -> Player] /\ where \in [Person -> Rosters \cup {"away"}]
      /\ since \in [Person -> {"start", "switched", "round", "moved", "nothing"}]
  BY StatsFacts DEF StatsTypeOK
<1>1. PICK to \in Rosters \cup {"away"}, how \in {"nothing", "moved"} :
        /\ where' = [where EXCEPT ![p] = to]
        /\ since' = [since EXCEPT ![p] = how]
        /\ \/ /\ m_Player' = m_Player
              /\ half # "none" /\ to \in Rosters => how = "moved"
           \/ \E side \in 0..2 : /\ m_Player' = WithTeam(m_Player, p, side)
                                 /\ to \in Rosters => side = SideOf(to)
  BY MoveShape
<1>2. /\ UNCHANGED <<half, won, wonOT, roster, lo3, m_Match, stray>>
      /\ where' \in [Person -> Rosters \cup {"away"}]
      /\ since' \in [Person -> {"start", "switched", "round", "moved", "nothing"}]
      /\ since'[p] = how /\ where'[p] = to
      /\ \A q \in Person \ {p} : since'[q] = since[q] /\ where'[q] = where[q]
      /\ p \in Present' <=> to \in Rosters
  BY <1>0, <1>1, MoveShape DEF Present
<1>3. CASE m_Player' = m_Player /\ (half # "none" /\ to \in Rosters => how = "moved")
  <2>1. Known' = Known
    BY <1>3 DEF Known
  <2> QED BY <1>0, <1>2, <1>3, <2>1
<1>4. CASE \E side \in 0..2 : /\ m_Player' = WithTeam(m_Player, p, side)
                              /\ to \in Rosters => side = SideOf(to)
  <2>1. PICK side \in 0..2 : /\ m_Player' = WithTeam(m_Player, p, side)
                             /\ to \in Rosters => side = SideOf(to)
    BY <1>4
  <2>2. /\ m_Player' \in [Known \cup {p} -> Player]
        /\ m_Player'[p].Team = side
        /\ \A q \in Known : /\ q # p => m_Player'[q] = m_Player[q]
                            /\ m_Player'[q].Stats = m_Player[q].Stats
                            /\ m_Player'[q].Winner = m_Player[q].Winner
        /\ p \notin Known => m_Player'[p] = NewPlayer(side)
    BY <2>1, WithTeamEffect
  <2>3. Known' = Known \cup {p} /\ NewPlayer(side).Stats = NoStats
    BY <2>2 DEF Known, NewPlayer
  <2> QED BY <1>2, <2>1, <2>2, <2>3
<1> QED BY <1>1, <1>3, <1>4

\* A round is counted for everybody who is in a team, and so all of them are known.
LEMMA RoundKnows ==
    ASSUME StatsTypeOK, InHalf, NEW winner \in Team, RoundEnd(winner)
    PROVE  Known' = Known \cup Present /\ m_Player' \in [Known' -> Player]
<1>1. m_Player' \in [Known \cup Present -> Player]
  BY RoundEndEffect
<1> QED BY <1>1 DEF Known

LEMMA StatsTypeStep ==
    ASSUME StatsTypeOK, RulesTypeOK', [StatsNext]_statsVars
    PROVE  StatsTypeOK'
<1>0. /\ m_Player \in [Known -> Player] /\ Known \subseteq Person
      /\ \A r \in Rosters : SideOf(r) \in Team /\ Rival(r) \in Rosters
      /\ Present \subseteq Person
  BY StatsFacts
<1>1. CASE \E p \in Person : Moves(p)
  <2>1. PICK p \in Person : Moves(p)
    BY <1>1
  <2>2. /\ UNCHANGED <<roster, lo3, m_Match, stray>>
        /\ where' \in [Person -> Rosters \cup {"away"}]
        /\ since' \in [Person -> {"start", "switched", "round", "moved", "nothing"}]
        /\ m_Player' \in [Known' -> Player] /\ Known' \subseteq Known \cup {p}
    BY <2>1, MoveEffect
  <2>3. Known' \subseteq Person
    BY <1>0, <2>2
  <2> QED BY <2>2, <2>3 DEF StatsTypeOK, Player
<1>2. CASE \E r \in Rosters : CountedRound(r) \/ UncountedRound(r)
  <2>1. PICK r \in Rosters : CountedRound(r) \/ UncountedRound(r)
    BY <1>2
  <2>2. InHalf /\ RoundEnd(SideOf(r)) /\ UNCHANGED <<roster, where, lo3>>
    BY <2>1 DEF CountedRound, UncountedRound, Win, InHalf, Halves
  <2>3. /\ m_Player' \in [Known' -> Player] /\ Known' \subseteq Person
        /\ m_Match' \in [Score: [Team -> Nat], Rounds: Nat, Winner: 0..2]
    BY <1>0, <2>2, RoundEndEffect, RoundKnows, ScoreType
  <2>4. since' \in [Person -> {"start", "switched", "round", "moved", "nothing"}]
    BY <2>2 DEF RoundEnd, StatsTypeOK
  <2>5. stray' \subseteq {"score"} \cup Halves
    BY <2>1, <2>2 DEF CountedRound, UncountedRound, StatsTypeOK, InHalf
  <2> QED BY <2>2, <2>3, <2>4, <2>5 DEF StatsTypeOK, Player
<1>3. CASE LO3Restart
  <2>1. half \in Halves => WithoutHalf(m_Player, half) \in [Known -> Player]
    BY <1>0, WithoutHalfEffect
  <2>2. m_Player' \in [Known -> Player]
    BY <1>0, <1>3, <2>1 DEF LO3Restart, ResetHalf, InHalf
  <2>3. Known' = Known
    BY <2>2 DEF Known
  <2>4. UNCHANGED <<roster, where, m_Match, since>> /\ lo3' \in 0..2
    BY <1>3 DEF LO3Restart
  <2>5. stray' \subseteq stray
    BY <1>3 DEF LO3Restart, ResetHalf
  <2>6. stray' \subseteq {"score"} \cup Halves
    BY <2>5 DEF StatsTypeOK
  <2> QED BY <1>0, <2>2, <2>3, <2>4, <2>6 DEF StatsTypeOK, Player
<1>4. CASE FirstHalfStarts
  <2>1. PICK players \in SUBSET Present : where' = Balanced(players)
    BY <1>4 DEF FirstHalfStarts
  <2>2. where' \in [Person -> Rosters \cup {"away"}]
    BY <2>1, BalancedEffect
  <2>3. \A p \in Person : SideOf(where'[p]) \in Team
    BY DEF SideOf, Team
  <2>4. m_Player' \in [Present -> Player]
    BY <1>0, <1>4, <2>3, StatsFacts DEF FirstHalfStarts, PlayersOfMatch
  <2>5. Known' \subseteq Person /\ m_Player' \in [Known' -> Player]
    BY <1>0, <2>4 DEF Known
  <2>6. /\ UNCHANGED roster /\ lo3' \in 0..2 /\ stray' \subseteq {"score"} \cup Halves
        /\ since' \in [Person -> {"start", "switched", "round", "moved", "nothing"}]
        /\ m_Match' \in [Score: [Team -> Nat], Rounds: Nat, Winner: 0..2]
    BY <1>4 DEF FirstHalfStarts, NoMatch
  <2> QED BY <2>2, <2>5, <2>6 DEF StatsTypeOK, Player
<1>5. CASE HalftimeStarts
  <2>1. CASE SidesSwap
    <3>1. /\ m_Player' = SwitchTeams(Present)
          /\ SwitchTeams(Present) \in [Known \cup Present -> Player]
      BY <1>5, <2>1, SwitchTeamsEffect DEF HalftimeStarts, SwapSides
    <3>2. m_Match' \in [Score: [Team -> Nat], Rounds: Nat, Winner: 0..2]
      BY <1>5, <2>1 DEF HalftimeStarts, SwapSides, SwapScores, StatsTypeOK, Other, Team,
         TERRORIST, CT
    <3>3. Known' = Known \cup Present /\ m_Player' \in [Known' -> Player]
      BY <3>1 DEF Known
    <3> QED BY <1>0, <1>5, <2>1, <3>2, <3>3
               DEF HalftimeStarts, SwapSides, StatsTypeOK, Player
  <2>2. CASE ~SidesSwap
    BY <1>5, <2>2 DEF HalftimeStarts, StatsTypeOK, Known
  <2> QED BY <2>1, <2>2
<1>6. CASE NextHalfStarts
  <2>1. /\ UNCHANGED <<roster, m_Match, stray>> /\ lo3' = 2
    BY <1>6 DEF NextHalfStarts
  <2>2. CASE SecondHalfStarts
    <3>1. PICK players \in SUBSET Present :
            /\ where' = Balanced(players)
            /\ m_Player' = WithoutHalf(SwitchTeams(players), "second")
            /\ since' = [p \in Person |->
                  IF p \notin players THEN since[p]
                  ELSE IF since[p] = "start" THEN "switched"
                  ELSE IF since[p] = "switched" THEN "round" ELSE since[p]]
      BY <2>2 DEF SecondHalfStarts
    <3>2. where' \in [Person -> Rosters \cup {"away"}]
      BY <3>1, BalancedEffect
    <3>3. m_Player' \in [Known \cup players -> Player] /\ Known' = Known \cup players
      BY <3>1, SecondHalfEffect
    <3>4. since' \in [Person -> {"start", "switched", "round", "moved", "nothing"}]
      BY <3>1 DEF StatsTypeOK
    <3> QED BY <1>0, <2>1, <3>2, <3>3, <3>4 DEF StatsTypeOK, Player
  <2>3. CASE UNCHANGED <<where, m_Player, since>>
    BY <2>1, <2>3 DEF StatsTypeOK, Known
  <2> QED BY <1>6, <2>2, <2>3 DEF NextHalfStarts
<1>7. CASE LO3Live \/ MatchEnds \/ UNCHANGED statsVars
  BY <1>7 DEF LO3Live, MatchEnds, statsVars, StatsTypeOK, Known, Present
<1>8. CASE MatchIsForgotten
  <2>1. CASE m_Player' = m_Player
    BY <1>8, <2>1 DEF MatchIsForgotten, StatsTypeOK, Known, Present, NoMatch, Team
  <2>2. CASE m_Player' = NoPlayers
    <3>1. Known' = {} /\ m_Player' \in [{} -> Player]
      BY <2>2 DEF NoPlayers, Known
    <3> QED BY <1>8, <3>1 DEF MatchIsForgotten, StatsTypeOK, NoMatch, Team, Player
  <2> QED BY <1>8, <2>1, <2>2 DEF MatchIsForgotten
<1> QED BY <1>1, <1>2, <1>3, <1>4, <1>5, <1>6, <1>7, <1>8 DEF StatsNext, Moves

\* What the balance before a half leaves: where everybody is, and how he got there.
LEMMA SecondHalfFacts ==
    ASSUME StatsTypeOK, SeenArePresent, SecondHalfStarts
    PROVE  \E players \in SUBSET Present :
             /\ where' = Balanced(players)
             /\ m_Player' = WithoutHalf(SwitchTeams(players), "second")
             /\ \A p \in Person :
                  /\ p \notin players => since'[p] = since[p]
                  /\ since'[p] = "moved" <=> since[p] = "moved"
                  /\ since'[p] = "start" => since[p] = "start" /\ p \notin players
                  /\ since'[p] = "switched" =>
                        IF p \in players THEN since[p] = "start" ELSE since[p] = "switched"
                  /\ since'[p] = "nothing" <=> since[p] = "nothing"
<1>1. PICK players \in SUBSET Present :
        /\ where' = Balanced(players)
        /\ m_Player' = WithoutHalf(SwitchTeams(players), "second")
        /\ since' = [p \in Person |->
              IF p \notin players THEN since[p]
              ELSE IF since[p] = "start" THEN "switched"
              ELSE IF since[p] = "switched" THEN "round" ELSE since[p]]
  BY DEF SecondHalfStarts
<1>2. \A p \in Person :
        /\ p \notin players => since'[p] = since[p]
        /\ since'[p] = "moved" <=> since[p] = "moved"
        /\ since'[p] = "start" => since[p] = "start" /\ p \notin players
        /\ since'[p] = "switched" =>
              IF p \in players THEN since[p] = "start" ELSE since[p] = "switched"
        /\ since'[p] = "nothing" <=> since[p] = "nothing"
  BY <1>1
<1> QED BY <1>1, <1>2

LEMMA TeamsStep ==
    ASSUME StatsTypeOK, StatsTypeOK', SeenArePresent, TeamsAreStored, [StatsNext]_statsVars
    PROVE  SeenArePresent' /\ TeamsAreStored'
<1>0. /\ m_Player \in [Known -> Player]
      /\ \A p \in Present : p \in Person /\ where[p] \in Rosters /\ SideOf(where[p]) \in Team
      /\ since \in [Person -> {"start", "switched", "round", "moved", "nothing"}]
      /\ since' \in [Person -> {"start", "switched", "round", "moved", "nothing"}]
  BY StatsFacts DEF StatsTypeOK
<1>1. CASE \E p \in Person : Moves(p)
  <2>1. PICK p \in Person : Moves(p)
    BY <1>1
  <2>2. UNCHANGED <<half, roster>> /\ since'[p] \in {"nothing", "moved"}
    BY <2>1, MoveEffect
  <2>3. \A q \in Person \ {p} :
          /\ where'[q] = where[q] /\ since'[q] = since[q] /\ (q \in Present' <=> q \in Present)
    BY <2>1, MoveEffect DEF Present
  <2>4. SeenArePresent'
    BY <2>2, <2>3 DEF SeenArePresent, Seen
  <2>5. ASSUME half # "none", NEW q \in Present', since'[q] # "moved"
        PROVE  q \in Known' /\ m_Player'[q].Team = SideOf(where[q])'
    <3>1. q \in Person
      BY DEF Present
    <3>2. CASE q = p
      BY <2>1, <2>2, <2>5, <3>2, MoveEffect DEF SideOf
    <3>3. CASE q # p
      <4>1. q \in Known /\ m_Player[q].Team = SideOf(where[q])
        BY <2>3, <2>5, <3>1, <3>3 DEF TeamsAreStored
      <4>2. q \in Known' /\ m_Player'[q] = m_Player[q]
        BY <2>1, <3>3, <4>1, MoveEffect
      <4> QED BY <2>2, <2>3, <3>1, <3>3, <4>1, <4>2 DEF SideOf
    <3> QED BY <3>2, <3>3
  <2> QED BY <2>2, <2>4, <2>5 DEF TeamsAreStored
<1>2. CASE \E r \in Rosters : CountedRound(r) \/ UncountedRound(r)
  <2>1. PICK r \in Rosters : CountedRound(r) \/ UncountedRound(r)
    BY <1>2
  <2>2. /\ InHalf /\ half' = half /\ RoundEnd(SideOf(r)) /\ SideOf(r) \in Team
        /\ UNCHANGED <<roster, where, lo3>>
    BY <2>1, StatsFacts DEF CountedRound, UncountedRound, Win, InHalf, Halves, rulesVars
  <2>3. Present' = Present
    BY <2>2 DEF Present
  <2>4. Known' = Known \cup Present /\ \A p \in Known : m_Player'[p].Team = m_Player[p].Team
    BY <2>2, RoundEndEffect, RoundKnows
  <2>5. \A p \in Person :
          /\ since'[p] = since[p] \/ (since'[p] = "round" /\ p \in Present)
          /\ since'[p] = "moved" <=> since[p] = "moved"
    BY <2>2 DEF RoundEnd
  <2>6. SeenArePresent'
    <3>1. ASSUME NEW p \in Person, Seen(p)' PROVE p \in Present'
      BY <2>3, <2>5, <3>1 DEF SeenArePresent, Seen
    <3>2. \A p \in Person : since'[p] = "switched" => half' # "first"
      BY <2>2, <2>5 DEF SeenArePresent
    <3> QED BY <3>1, <3>2 DEF SeenArePresent
  <2>7. half # "none"
    BY <2>2 DEF InHalf, Halves
  <2> QED BY <1>0, <2>2, <2>3, <2>4, <2>5, <2>6, <2>7 DEF TeamsAreStored, SideOf
<1>3. CASE LO3Restart
  <2>1. UNCHANGED <<half, roster, where, since>> /\ Present' = Present
    BY <1>3 DEF LO3Restart, rulesVars, Present
  <2>2. Known' = Known /\ \A p \in Known : m_Player'[p].Team = m_Player[p].Team
    <3>1. CASE m_Player' = m_Player
      BY <3>1 DEF Known
    <3>2. CASE half \in Halves /\ m_Player' = WithoutHalf(m_Player, half)
      <4>1. m_Player' \in [Known -> Player]
        BY <1>0, <3>2, WithoutHalfEffect
      <4> QED BY <1>0, <3>2, <4>1, WithoutHalfEffect DEF Known
    <3> QED BY <1>3, <3>1, <3>2 DEF LO3Restart, ResetHalf, InHalf
  <2> QED BY <1>0, <2>1, <2>2 DEF SeenArePresent, Seen, TeamsAreStored, SideOf
<1>4. CASE FirstHalfStarts
  <2>1. PICK players \in SUBSET Present : where' = Balanced(players)
    BY <1>4 DEF FirstHalfStarts
  <2>2. Present' = Present
    BY <2>1, BalancedEffect
  <2>3. /\ m_Player' = [p \in Present |-> NewPlayer(SideOf(where'[p]))] /\ roster' = roster
        /\ \A p \in Person : since'[p] = IF p \in Present THEN "start" ELSE "nothing"
    BY <1>4 DEF FirstHalfStarts, PlayersOfMatch
  <2>4. SeenArePresent'
    BY <2>2, <2>3 DEF SeenArePresent, Seen
  <2>5. \A p \in Present : p \in Known' /\ m_Player'[p].Team = SideOf(where[p])'
    BY <2>3 DEF Known, NewPlayer, SideOf
  <2> QED BY <2>2, <2>4, <2>5 DEF TeamsAreStored
<1>5. CASE HalftimeStarts
  <2>1. /\ Present' = Present /\ since' = since /\ where' = where
        /\ half # "none" /\ half' = "break"
    BY <1>5 DEF HalftimeStarts, Present, Break, FirstOver, TiedUp
  <2>2. \A p \in Present : since[p] # "moved" =>
          p \in Known' /\ m_Player'[p].Team = SideOf(where[p])'
    <3>1. CASE SidesSwap
      <4>1. roster' = Rival(roster) /\ m_Player' = SwitchTeams(Present)
        BY <1>5, <3>1 DEF HalftimeStarts, SwapSides
      <4>2. \A r \in Rosters : (IF r = roster' THEN TERRORIST ELSE CT) = Other(SideOf(r))
        BY <4>1 DEF StatsTypeOK, Rosters, Rival, SideOf, Other, TERRORIST, CT
      <4>3. Known' = Known \cup Present
        BY <4>1, SwitchTeamsEffect DEF Known
      <4> QED BY <1>0, <2>1, <4>1, <4>2, <4>3, SwitchTeamsEffect DEF SideOf
    <3>2. CASE ~SidesSwap
      BY <1>5, <2>1, <3>2 DEF HalftimeStarts, TeamsAreStored, SideOf, Known
    <3> QED BY <3>1, <3>2
  <2> QED BY <2>1, <2>2 DEF SeenArePresent, Seen, TeamsAreStored
<1>6. CASE NextHalfStarts
  <2>1. /\ half = "break" /\ half' # "none" /\ half' # "first" /\ roster' = roster
    BY <1>6 DEF NextHalfStarts, Resume
  <2>2. CASE SecondHalfStarts
    <3>1. PICK players \in SUBSET Present :
             /\ where' = Balanced(players)
             /\ m_Player' = WithoutHalf(SwitchTeams(players), "second")
             /\ \A p \in Person :
                  /\ since'[p] = "moved" <=> since[p] = "moved"
                  /\ since'[p] = "nothing" <=> since[p] = "nothing"
      BY <2>2, SecondHalfFacts
    <3>2. /\ Present' = Present
          /\ \A p \in Person : p \notin players => where'[p] = where[p]
          /\ \A p \in players : SideOf(where'[p]) = Other(SideOf(where[p]))
      BY <3>1, BalancedEffect
    <3>3. /\ Known' = Known \cup players
          /\ \A p \in players : m_Player'[p].Team = Other(SideOf(where[p]))
          /\ \A p \in Known \ players : m_Player'[p].Team = m_Player[p].Team
      BY <3>1, SecondHalfEffect
    <3>4. SeenArePresent'
      BY <1>0, <2>1, <3>1, <3>2 DEF SeenArePresent, Seen
    <3>5. ASSUME NEW p \in Present, since'[p] # "moved"
          PROVE  p \in Known' /\ m_Player'[p].Team = SideOf(where[p])'
      <4>1. CASE p \in players
        BY <2>1, <3>2, <3>3, <4>1 DEF SideOf
      <4>2. CASE p \notin players
        <5>1. p \in Known /\ m_Player[p].Team = SideOf(where[p]) /\ where'[p] = where[p]
          BY <1>0, <2>1, <3>1, <3>2, <3>5, <4>2 DEF TeamsAreStored
        <5> QED BY <2>1, <3>3, <4>2, <5>1 DEF SideOf
      <4> QED BY <4>1, <4>2
    <3> QED BY <3>2, <3>4, <3>5 DEF TeamsAreStored
  <2>3. CASE UNCHANGED <<where, m_Player, since>>
    BY <2>1, <2>3 DEF SeenArePresent, Seen, TeamsAreStored, SideOf, Present, Known
  <2> QED BY <1>6, <2>2, <2>3 DEF NextHalfStarts
<1>7. CASE LO3Live \/ MatchEnds \/ MatchIsForgotten \/ UNCHANGED statsVars
  <2>1. CASE MatchIsForgotten
    <3>1. half' = "none" /\ \A p \in Person : since'[p] = "nothing"
      BY <2>1 DEF MatchIsForgotten, Forget
    <3> QED BY <3>1 DEF SeenArePresent, Seen, TeamsAreStored
  <2>2. CASE MatchEnds
    <3>1. half # "none" /\ half' # "first"
      BY <2>2 DEF MatchEnds, Finish, Decided
    <3> QED BY <2>2, <3>1 DEF MatchEnds, SeenArePresent, Seen, TeamsAreStored, SideOf,
               Present, Known
  <2>3. CASE LO3Live \/ UNCHANGED statsVars
    BY <2>3 DEF LO3Live, statsVars, rulesVars, SeenArePresent, Seen,
       TeamsAreStored, SideOf, Present, Known
  <2> QED BY <1>7, <2>1, <2>2, <2>3
<1> QED BY <1>1, <1>2, <1>3, <1>4, <1>5, <1>6, <1>7 DEF StatsNext, Moves

LEMMA HalfStep ==
    ASSUME RulesInv, BreakIsOpen, HalfIsFresh, [StatsNext]_statsVars PROVE HalfIsFresh'
<1>1. CASE FirstHalfStarts
  BY <1>1 DEF FirstHalfStarts, Start, HalfIsFresh, RulesInv, NotYetPlayed
<1>2. CASE NextHalfStarts
  BY <1>2 DEF NextHalfStarts, Resume, HalfIsFresh, BreakIsOpen
<1>3. CASE \E p \in Person : Moves(p)
  BY <1>3 DEF Moves, DropClient, ChooseTeam, TeamHandle, rulesVars, HalfIsFresh
<1>4. CASE \E r \in Rosters : CountedRound(r) \/ UncountedRound(r)
  BY <1>4 DEF CountedRound, UncountedRound, rulesVars, HalfIsFresh
<1>5. CASE LO3Restart \/ LO3Live \/ HalftimeStarts
  BY <1>5 DEF LO3Restart, LO3Live, HalftimeStarts, Break, rulesVars, HalfIsFresh
<1>6. CASE MatchEnds \/ MatchIsForgotten \/ UNCHANGED statsVars
  BY <1>6 DEF MatchEnds, Finish, MatchIsForgotten, Forget, statsVars, rulesVars,
     HalfIsFresh
<1> QED BY <1>1, <1>2, <1>3, <1>4, <1>5, <1>6 DEF StatsNext, Moves

\* A round, counted by CPugMod or only by CPugStats.
LEMMA RoundFacts ==
    ASSUME StatsTypeOK, NEW r \in Rosters, CountedRound(r) \/ UncountedRound(r)
    PROVE  /\ InHalf /\ half' = half /\ RoundEnd(SideOf(r)) /\ SideOf(r) \in Team
           /\ UNCHANGED <<roster, where, lo3>> /\ Known' = Known \cup Present
           /\ \A p \in Person : \/ since'[p] = since[p]
                                \/ /\ since[p] = "nothing" /\ since'[p] = "round"
                                   /\ p \in Present
           /\ stray = stray' \/ stray' = stray \cup {"score", half}
           /\ \/ /\ half \in {"first", "second"} /\ UNCHANGED <<wonOT, stray>>
                 /\ won' = [won EXCEPT ![r][half] = @ + 1]
              \/ /\ half = "overtime" /\ UNCHANGED <<won, stray>>
                 /\ wonOT' = [wonOT EXCEPT ![r] = @ + 1]
              \/ /\ UNCHANGED <<won, wonOT>> /\ stray' = stray \cup {"score", half}
<1>1. /\ InHalf /\ half' = half /\ RoundEnd(SideOf(r)) /\ SideOf(r) \in Team
      /\ UNCHANGED <<roster, where, lo3>>
  BY StatsFacts DEF CountedRound, UncountedRound, Win, InHalf, Halves, rulesVars
<1>2. Known' = Known \cup Present
  BY <1>1, RoundKnows
<1>3. \A p \in Person : \/ since'[p] = since[p]
                        \/ since[p] = "nothing" /\ since'[p] = "round" /\ p \in Present
  BY <1>1 DEF RoundEnd
<1>4. \/ /\ half \in {"first", "second"} /\ UNCHANGED <<wonOT, stray>>
         /\ won' = [won EXCEPT ![r][half] = @ + 1]
      \/ /\ half = "overtime" /\ UNCHANGED <<won, stray>>
         /\ wonOT' = [wonOT EXCEPT ![r] = @ + 1]
      \/ /\ UNCHANGED <<won, wonOT>> /\ stray' = stray \cup {"score", half}
  BY DEF CountedRound, UncountedRound, Win, rulesVars
<1> QED BY <1>1, <1>2, <1>3, <1>4

\* A counted round goes to the winners of the half that is on, and to nobody else.
LEMMA WonEffect ==
    ASSUME RulesTypeOK, NEW r \in Rosters, half \in {"first", "second"},
           won' = [won EXCEPT ![r][half] = @ + 1]
    PROVE  /\ \A h \in {"first", "second"} :
                Played(h)' = IF h = half THEN Played(h) + 1 ELSE Played(h)
           /\ \A s \in Rosters, h \in {"first", "second"} :
                won'[s][h] = IF s = r /\ h = half THEN won[s][h] + 1 ELSE won[s][h]
BY DEF RulesTypeOK, Rosters, Played

\* Whoever has been seen from the start, on whatever side.
FromStart(p) == since[p] \in {"start", "switched"}

LEMMA ReportStep ==
    ASSUME StatsTypeOK, SeenArePresent, TeamsAreStored, RulesInv, BreakIsOpen,
           HalfIsFresh, RoundsAreReported, [StatsNext]_statsVars
    PROVE  RoundsAreReported'
<1>0. /\ m_Player \in [Known -> Player]
      /\ \A r \in Rosters : Rival(r) \in Rosters
      /\ RulesTypeOK /\ {"first", "second"} \subseteq Halves
      /\ \A p \in Known : Entry(p) = m_Player[p]
      /\ \A p \in Person : half # "none" /\ FromStart(p) =>
           /\ p \in Present /\ p \in Known /\ where[p] \in Rosters
           /\ \A h : RosterIn(p, h) \in Rosters
           /\ since[p] = "switched" => half # "first"
  <2>1. /\ m_Player \in [Known -> Player]
        /\ \A r \in Rosters : Rival(r) \in Rosters
        /\ RulesTypeOK /\ {"first", "second"} \subseteq Halves
        /\ \A p \in Known : Entry(p) = m_Player[p]
        /\ \A p \in Present : where[p] \in Rosters
    BY StatsFacts, EntryFacts DEF RulesInv, Halves
  <2>2. ASSUME NEW p \in Person, half # "none", FromStart(p)
        PROVE  /\ p \in Present /\ p \in Known
               /\ since[p] = "switched" => half # "first"
    BY <2>2 DEF SeenArePresent, Seen, TeamsAreStored, FromStart
  <2> QED BY <2>1, <2>2 DEF RosterIn
<1>1. CASE \E p \in Person : Moves(p)
  <2>1. PICK p \in Person : Moves(p)
    BY <1>1
  <2>2. UNCHANGED <<half, won, stray>>
    BY <2>1, MoveEffect
  <2>3. \A q \in Person : half # "none" /\ FromStart(q)' =>
          /\ FromStart(q) /\ where'[q] = where[q] /\ since'[q] = since[q]
          /\ m_Player'[q].Stats = m_Player[q].Stats
    BY <1>0, <2>1, MoveEffect DEF FromStart
  <2> QED BY <2>2, <2>3 DEF RoundsAreReported, FromStart, RosterIn, Played
<1>2. CASE \E r \in Rosters : CountedRound(r) \/ UncountedRound(r)
  <2>1. PICK r \in Rosters : CountedRound(r) \/ UncountedRound(r)
    BY <1>2
  <2>2. /\ InHalf /\ half' = half /\ RoundEnd(SideOf(r)) /\ SideOf(r) \in Team
        /\ where' = where /\ half # "none"
        /\ \A p \in Person : FromStart(p)' => FromStart(p) /\ since'[p] = since[p]
    BY <2>1, RoundFacts DEF InHalf, Halves, FromStart
  <2>3. ASSUME NEW p \in Person, FromStart(p)', NEW h \in {"first", "second"} \ stray'
        PROVE  /\ m_Player'[p].Stats[h].Play = Played(h)'
               /\ m_Player'[p].Stats[h].Win = won'[RosterIn(p, h)][h]
    <3>1. /\ FromStart(p) /\ p \in Present /\ p \in Known /\ where[p] \in Rosters
          /\ RosterIn(p, h) \in Rosters /\ (since[p] = "switched" => half # "first")
          /\ p \in Known \cup Present /\ Entry(p) = m_Player[p]
          /\ h \in Halves /\ h \notin stray
      BY <1>0, <2>1, <2>2, <2>3, RoundFacts
    <3>2. /\ m_Player[p].Stats[h].Play = Played(h)
          /\ m_Player[p].Stats[h].Win = won[RosterIn(p, h)][h]
      BY <2>2, <2>3, <3>1 DEF RoundsAreReported, FromStart
    <3>3. CASE h = half
      <4>1. /\ m_Player'[p].Stats[h].Play = m_Player[p].Stats[h].Play + 1
            /\ m_Player'[p].Stats[h].Win = IF where[p] = r
                  THEN m_Player[p].Stats[h].Win + 1 ELSE m_Player[p].Stats[h].Win
        <5>1. SideOf(where[p]) = SideOf(r) <=> where[p] = r
          BY <3>1, StatsFacts
        <5>2. /\ m_Player'[p].Stats[half].Play = Entry(p).Stats[half].Play + 1
              /\ m_Player'[p].Stats[half].Win = IF SideOf(where[p]) = SideOf(r)
                    THEN Entry(p).Stats[half].Win + 1 ELSE Entry(p).Stats[half].Win
          BY <2>2, <3>1, RoundEndEffect
        <5> QED BY <3>1, <3>3, <5>1, <5>2
      <4>2. won' = [won EXCEPT ![r][half] = @ + 1] /\ half \in {"first", "second"}
        BY <2>1, <2>3, <3>3, RoundFacts
      <4>3. /\ Played(h)' = Played(h) + 1
            /\ won'[where[p]][h] = IF where[p] = r THEN won[where[p]][h] + 1
                                                   ELSE won[where[p]][h]
            /\ RosterIn(p, h) = where[p]
        <5>1. /\ \A g \in {"first", "second"} :
                   Played(g)' = IF g = half THEN Played(g) + 1 ELSE Played(g)
              /\ \A s \in Rosters, g \in {"first", "second"} :
                   won'[s][g] = IF s = r /\ g = half THEN won[s][g] + 1 ELSE won[s][g]
          BY <1>0, <4>2, WonEffect
        <5>2. RosterIn(p, h) = where[p]
          BY <3>1, <3>3 DEF RosterIn
        <5> QED BY <2>3, <3>1, <3>3, <5>1, <5>2
      <4> QED BY <3>2, <4>1, <4>3
    <3>4. CASE h # half
      <4>1. m_Player'[p].Stats[h] = m_Player[p].Stats[h]
        BY <2>2, <3>1, <3>4, RoundEndEffect
      <4>2. Played(h)' = Played(h) /\ won'[RosterIn(p, h)][h] = won[RosterIn(p, h)][h]
        <5>1. \/ half \in {"first", "second"} /\ won' = [won EXCEPT ![r][half] = @ + 1]
              \/ won' = won
          BY <2>1, RoundFacts
        <5>2. CASE won' = won
          BY <5>2 DEF Played
        <5>3. CASE half \in {"first", "second"} /\ won' = [won EXCEPT ![r][half] = @ + 1]
          <6>1. /\ \A g \in {"first", "second"} :
                     Played(g)' = IF g = half THEN Played(g) + 1 ELSE Played(g)
                /\ \A s \in Rosters, g \in {"first", "second"} :
                     won'[s][g] = IF s = r /\ g = half THEN won[s][g] + 1 ELSE won[s][g]
            BY <1>0, <5>3, WonEffect
          <6> QED BY <2>3, <3>1, <3>4, <6>1
        <5> QED BY <5>1, <5>2, <5>3
      <4> QED BY <3>2, <4>1, <4>2
    <3> QED BY <3>3, <3>4
  <2> QED BY <2>2, <2>3 DEF RoundsAreReported, FromStart, RosterIn
<1>3. CASE LO3Restart
  <2>1. UNCHANGED <<half, won, where, since>> /\ half \in Halves /\ lo3 > 0 /\ half # "none"
    BY <1>3 DEF LO3Restart, rulesVars, InHalf, Halves
  <2>2. ASSUME NEW p \in Person, FromStart(p), NEW h \in {"first", "second"} \ stray'
        PROVE  /\ m_Player'[p].Stats[h].Play = Played(h)
               /\ m_Player'[p].Stats[h].Win = won[RosterIn(p, h)][h]
    <3>1. p \in Known /\ RosterIn(p, h) \in Rosters /\ h \in Halves
      BY <1>0, <2>1, <2>2
    <3>2. CASE h = half
      <4>1. m_Player'[p].Stats[h] = [Play |-> 0, Win |-> 0]
        BY <1>0, <1>3, <2>2, <3>1, <3>2, WithoutHalfEffect DEF LO3Restart, ResetHalf
      <4>2. Played(h) = 0 /\ won[RosterIn(p, h)][h] = 0
        BY <1>0, <2>1, <2>2, <3>1, <3>2 DEF HalfIsFresh, Played, Rosters
      <4> QED BY <4>1, <4>2
    <3>3. CASE h # half
      <4>1. m_Player'[p].Stats[h] = m_Player[p].Stats[h] /\ h \notin stray
        BY <1>0, <1>3, <2>1, <2>2, <3>1, <3>3, WithoutHalfEffect DEF LO3Restart, ResetHalf
      <4> QED BY <2>1, <2>2, <4>1 DEF RoundsAreReported, FromStart
    <3> QED BY <3>2, <3>3
  <2> QED BY <2>1, <2>2 DEF RoundsAreReported, FromStart, RosterIn, Played
<1>4. CASE FirstHalfStarts
  <2>1. PICK players \in SUBSET Present : where' = Balanced(players)
    BY <1>4 DEF FirstHalfStarts
  <2>2. Present' = Present
    BY <2>1, BalancedEffect
  <2>3. \A p \in Person : FromStart(p)' =>
          /\ m_Player'[p].Stats = NoStats /\ since'[p] = "start" /\ where'[p] \in Rosters
    BY <1>4, <2>2 DEF FirstHalfStarts, FromStart, PlayersOfMatch, NewPlayer, Present
  <2>4. \A r \in Rosters, h \in {"first", "second"} : won'[r][h] = 0
    BY <1>4 DEF FirstHalfStarts, Start, RulesInv, NotYetPlayed
  <2>5. \A h \in {"first", "second"} : Played(h)' = 0 /\ NoStats[h] = [Play |-> 0, Win |-> 0]
    BY <2>4 DEF Played, Rosters, NoStats, Halves
  <2> QED BY <2>3, <2>4, <2>5 DEF RoundsAreReported, FromStart, RosterIn
<1>5. CASE HalftimeStarts
  <2>1. UNCHANGED <<won, where, since, stray>> /\ half # "none"
    BY <1>5 DEF HalftimeStarts, Break, FirstOver, TiedUp
  <2>2. \A p \in Known : m_Player'[p].Stats = m_Player[p].Stats
    <3>1. \A p \in Known \cup Present : SwitchTeams(Present)[p].Stats = Entry(p).Stats
      BY SwitchTeamsEffect
    <3>2. m_Player' = SwitchTeams(Present) \/ m_Player' = m_Player
      BY <1>5 DEF HalftimeStarts, SwapSides
    <3> QED BY <1>0, <3>1, <3>2
  <2> QED BY <1>0, <2>1, <2>2 DEF RoundsAreReported, FromStart, RosterIn, Played
<1>6. CASE NextHalfStarts
  <2>1. UNCHANGED <<won, stray>> /\ half = "break"
    BY <1>6 DEF NextHalfStarts, Resume
  <2>2. CASE half' # "second"
    <3>1. UNCHANGED <<where, m_Player, since>>
      BY <1>6, <2>2 DEF NextHalfStarts
    <3> QED BY <2>1, <3>1 DEF RoundsAreReported, RosterIn, Played
  <2>3. CASE half' = "second"
    <3>1. PICK players \in SUBSET Present :
             /\ where' = Balanced(players)
             /\ m_Player' = WithoutHalf(SwitchTeams(players), "second")
             /\ \A p \in Person :
                  /\ p \notin players => since'[p] = since[p]
                  /\ since'[p] = "start" => since[p] = "start" /\ p \notin players
                  /\ since'[p] = "switched" =>
                        IF p \in players THEN since[p] = "start" ELSE since[p] = "switched"
      <4>1. SecondHalfStarts
        BY <1>6, <2>3 DEF NextHalfStarts
      <4> QED BY <4>1, SecondHalfFacts
    <3>2. \A p \in Person : FromStart(p)' => FromStart(p)
      BY <3>1 DEF FromStart
    <3>3. ASSUME NEW p \in Person, FromStart(p)' PROVE RosterIn(p, "first")' = RosterIn(p, "first")
      <4>1. CASE p \in players
        <5>1. since[p] = "start" /\ since'[p] = "switched" /\ Rival(where'[p]) = where[p]
          BY <3>1, <3>3, <4>1, BalancedEffect DEF FromStart
        <5> QED BY <5>1 DEF RosterIn
      <4>2. CASE p \notin players
        <5>1. since'[p] = since[p] /\ where'[p] = where[p]
          BY <3>1, <4>2, BalancedEffect
        <5> QED BY <5>1 DEF RosterIn
      <4> QED BY <4>1, <4>2
    <3>4. ASSUME NEW p \in Person, FromStart(p)', NEW h \in {"first", "second"} \ stray
          PROVE  /\ m_Player'[p].Stats[h].Play = Played(h)
                 /\ m_Player'[p].Stats[h].Win = won[RosterIn(p, h)'][h]
      <4>1. p \in Known /\ p \in Known \cup players /\ FromStart(p) /\ Entry(p) = m_Player[p]
        BY <1>0, <2>1, <3>2, <3>4
      <4>2. CASE h = "second"
        <5>1. m_Player'[p].Stats[h] = [Play |-> 0, Win |-> 0]
          BY <3>1, <4>1, <4>2, SecondHalfEffect
        <5>2. RosterIn(p, h)' \in Rosters
          <6>1. where'[p] \in Rosters
            <7>1. Present' = Present
              BY <3>1, BalancedEffect
            <7> QED BY <1>0, <2>1, <4>1, <7>1 DEF Present
          <6> QED BY <4>2, <6>1 DEF RosterIn
        <5>3. \A r \in Rosters : won[r]["second"] = 0
          BY <1>6, <2>1, <2>3 DEF NextHalfStarts, Resume, BreakIsOpen
        <5> QED BY <4>2, <5>1, <5>2, <5>3 DEF Played, Rosters
      <4>3. CASE h = "first"
        <5>1. m_Player'[p].Stats[h] = m_Player[p].Stats[h]
          <6>1. "first" \in Halves \ {"second"}
            BY DEF Halves
          <6>2. \A h0 \in Halves \ {"second"} : m_Player'[p].Stats[h0] = Entry(p).Stats[h0]
            BY <3>1, <4>1, SecondHalfEffect
          <6> QED BY <4>1, <4>3, <6>1, <6>2
        <5>2. /\ m_Player[p].Stats[h].Play = Played(h)
              /\ m_Player[p].Stats[h].Win = won[RosterIn(p, h)][h]
          BY <2>1, <3>4, <4>1 DEF RoundsAreReported, FromStart
        <5>3. RosterIn(p, h)' = RosterIn(p, h)
          BY <3>3, <3>4, <4>3
        <5> QED BY <5>1, <5>2, <5>3
      <4> QED BY <3>4, <4>2, <4>3
    <3> QED BY <2>1, <3>4 DEF RoundsAreReported, FromStart, RosterIn, Played
  <2> QED BY <2>2, <2>3
<1>7. CASE LO3Live \/ MatchEnds \/ MatchIsForgotten \/ UNCHANGED statsVars
  BY <1>7 DEF LO3Live, MatchEnds, Finish, Decided, MatchIsForgotten, Forget, statsVars,
     rulesVars, RoundsAreReported, RosterIn, Played
<1> QED BY <1>1, <1>2, <1>3, <1>4, <1>5, <1>6, <1>7 DEF StatsNext, Moves

\* The counters of an entry are numbers.
LEMMA PlayIsNat ==
    ASSUME StatsTypeOK, NEW p \in Known
    PROVE  \A h \in Halves : m_Player[p].Stats[h].Play \in Nat
BY StatsFacts DEF Player

\* The rounds of an entry, in the report.
EntryPlay(p) == LET stats == Entry(p).Stats
                IN  stats["first"].Play + stats["second"].Play + stats["overtime"].Play

LEMMA TooManyStep ==
    ASSUME StatsTypeOK, SeenArePresent, RulesInv, BreakIsOpen,
           HalfIsFresh, NoRoundTooMany, [StatsNext]_statsVars
    PROVE  NoRoundTooMany'
<1>0. /\ m_Player \in [Known -> Player]
      /\ Known \subseteq Person /\ m_Match.Rounds \in Nat
      /\ RulesTypeOK /\ Halves = {"first", "second", "overtime"}
      /\ \A p \in Known, h \in Halves : m_Player[p].Stats[h].Play \in Nat
      /\ \A h \in {"first", "second"} : Played(h) \in Nat
      /\ \A h \in Halves : NoStats[h] = [Play |-> 0, Win |-> 0]
      /\ \A p \in Known : Entry(p) = m_Player[p]
      /\ \A p : p \notin Known => Entry(p).Stats = NoStats
  BY StatsFacts, EntryFacts, PlayIsNat
     DEF StatsTypeOK, RulesInv, RulesTypeOK, Halves, Played, Rosters, NoStats
<1>1. CASE \E p \in Person : Moves(p)
  <2>1. PICK p \in Person : Moves(p)
    BY <1>1
  <2>2. \A q \in Known' : \/ q \in Known /\ m_Player'[q].Stats = m_Player[q].Stats
                          \/ m_Player'[q].Stats = NoStats
    BY <1>0, <2>1, MoveEffect
  <2>3. UNCHANGED <<half, won, stray, m_Match>>
    BY <2>1, MoveEffect
  <2>4. ASSUME NEW q \in Known', half # "none"
        PROVE  /\ RoundPlay(q)' <= m_Match.Rounds
               /\ \A h \in {"first", "second"} \ stray :
                     m_Player'[q].Stats[h].Play <= Played(h)
    <3>1. CASE q \in Known /\ m_Player'[q].Stats = m_Player[q].Stats
      BY <2>4, <3>1 DEF NoRoundTooMany, RoundPlay
    <3>2. CASE m_Player'[q].Stats = NoStats
      BY <1>0, <3>2 DEF RoundPlay
    <3> QED BY <2>2, <2>4, <3>1, <3>2
  <2> QED BY <2>3, <2>4 DEF NoRoundTooMany, Played
<1>2. CASE \E r \in Rosters : CountedRound(r) \/ UncountedRound(r)
  <2>1. PICK r \in Rosters : CountedRound(r) \/ UncountedRound(r)
    BY <1>2
  <2>2. /\ half \in Halves /\ half' = half /\ RoundEnd(SideOf(r)) /\ SideOf(r) \in Team
        /\ Known' = Known \cup Present /\ half # "none"
    BY <2>1, RoundFacts DEF InHalf, Halves
  <2>3. m_Match'.Rounds = m_Match.Rounds + 1
    BY <2>2 DEF RoundEnd, ScoreRound
  <2>4. \A p \in Known \cup Present, h \in Halves :
          /\ h # half => m_Player'[p].Stats[h] = Entry(p).Stats[h]
          /\ \/ m_Player'[p].Stats[half].Play = Entry(p).Stats[half].Play
             \/ m_Player'[p].Stats[half].Play = Entry(p).Stats[half].Play + 1
    BY <1>0, <2>2, RoundEndEffect DEF InHalf
  <2>5. ASSUME NEW p \in Known \cup Present
        PROVE  /\ \A h \in Halves : Entry(p).Stats[h].Play \in Nat
               /\ EntryPlay(p) <= m_Match.Rounds
               /\ \A h \in {"first", "second"} \ stray : Entry(p).Stats[h].Play <= Played(h)
    <3>1. CASE p \in Known
      BY <1>0, <2>2, <3>1 DEF NoRoundTooMany, RoundPlay, EntryPlay
    <3>2. CASE p \notin Known
      BY <1>0, <3>2 DEF EntryPlay
    <3> QED BY <3>1, <3>2
  <2>6. ASSUME NEW p \in Known \cup Present PROVE RoundPlay(p)' <= m_Match'.Rounds
    <3>1. EntryPlay(p) <= m_Match.Rounds
      BY <2>5
    <3>2. RoundPlay(p)' <= EntryPlay(p) + 1 /\ RoundPlay(p)' \in Int /\ EntryPlay(p) \in Int
      <4> DEFINE new(h) == m_Player'[p].Stats[h].Play
                 old(h) == Entry(p).Stats[h].Play
      <4>1. /\ RoundPlay(p)' = new("first") + new("second") + new("overtime")
            /\ EntryPlay(p) = old("first") + old("second") + old("overtime")
        BY DEF RoundPlay, EntryPlay
      <4>2. \A h \in Halves : /\ old(h) \in Nat
                              /\ h # half => new(h) = old(h)
                              /\ h = half => new(h) = old(h) \/ new(h) = old(h) + 1
        BY <2>2, <2>4, <2>5, <2>6
      <4> HIDE DEF new, old
      <4> QED BY <1>0, <2>2, <4>1, <4>2
    <3> QED BY <1>0, <2>3, <3>1, <3>2
  <2>7. ASSUME NEW p \in Known \cup Present, NEW h \in {"first", "second"} \ stray'
        PROVE  m_Player'[p].Stats[h].Play <= Played(h)'
    <3>1. h \in Halves /\ h \notin stray
      BY <1>0, <2>1, <2>7, RoundFacts
    <3>2. Entry(p).Stats[h].Play <= Played(h) /\ Entry(p).Stats[h].Play \in Nat
      BY <2>5, <2>7, <3>1
    <3>3. CASE h = half
      <4>1. won' = [won EXCEPT ![r][half] = @ + 1] /\ half \in {"first", "second"}
        BY <2>1, <2>7, <3>3, RoundFacts
      <4>2. \A g \in {"first", "second"} :
              Played(g)' = IF g = half THEN Played(g) + 1 ELSE Played(g)
        BY <1>0, <4>1, WonEffect
      <4>3. Played(h)' = Played(h) + 1
        BY <2>7, <3>3, <4>2
      <4> QED BY <1>0, <2>4, <2>7, <3>1, <3>2, <3>3, <4>3
    <3>4. CASE h # half
      <4>1. Played(h)' = Played(h)
        <5>1. CASE won' = won
          BY <5>1 DEF Played
        <5>2. CASE half \in {"first", "second"} /\ won' = [won EXCEPT ![r][half] = @ + 1]
          BY <1>0, <2>7, <3>4, <5>2, WonEffect
        <5> QED BY <2>1, <5>1, <5>2, RoundFacts
      <4> QED BY <2>4, <2>7, <3>1, <3>2, <3>4, <4>1
    <3> QED BY <3>3, <3>4
  <2> QED BY <2>2, <2>6, <2>7 DEF NoRoundTooMany
<1>3. CASE LO3Restart
  <2>1. UNCHANGED <<half, won, m_Match>> /\ half \in Halves /\ lo3 > 0
    BY <1>3 DEF LO3Restart, rulesVars, InHalf
  <2>2. /\ Known' = Known /\ stray \subseteq stray' \cup {half}
        /\ half = "overtime" => stray' = stray
        /\ \A p \in Known, h \in Halves :
             \/ m_Player'[p].Stats[h] = m_Player[p].Stats[h] /\ (h = half => h = "overtime")
             \/ h = half /\ m_Player'[p].Stats[h] = [Play |-> 0, Win |-> 0]
    <3>1. CASE half = "overtime"
      BY <1>3, <3>1 DEF LO3Restart, ResetHalf, Known
    <3>2. CASE half # "overtime"
      <4>1. m_Player' = WithoutHalf(m_Player, half) /\ stray' = stray \ {half}
        BY <1>3, <3>2 DEF LO3Restart, ResetHalf
      <4>2. Known' = Known
        BY <4>1 DEF WithoutHalf, Known
      <4> QED BY <1>0, <2>1, <3>2, <4>1, <4>2, WithoutHalfEffect
    <3> QED BY <3>1, <3>2
  <2>3. ASSUME NEW p \in Known
        PROVE  /\ RoundPlay(p)' <= m_Match.Rounds
               /\ \A h \in {"first", "second"} \ stray' :
                     m_Player'[p].Stats[h].Play <= Played(h)
    <3>1. /\ RoundPlay(p) <= m_Match.Rounds
          /\ \A h \in {"first", "second"} \ stray : m_Player[p].Stats[h].Play <= Played(h)
      BY <1>0, <2>1, <2>3 DEF NoRoundTooMany
    <3>2. \A h \in Halves : /\ m_Player'[p].Stats[h].Play \in Nat
                            /\ m_Player'[p].Stats[h].Play <= m_Player[p].Stats[h].Play
      BY <1>0, <2>2, <2>3
    <3>3. RoundPlay(p)' <= RoundPlay(p) /\ RoundPlay(p)' \in Int /\ RoundPlay(p) \in Int
      BY <1>0, <2>3, <3>2 DEF RoundPlay
    <3>4. ASSUME NEW h \in {"first", "second"} \ stray'
          PROVE  m_Player'[p].Stats[h].Play <= Played(h)
      <4>1. h \in Halves /\ Played(h) \in Nat
        BY <1>0, <3>4
      <4>2. CASE h \notin stray /\ m_Player'[p].Stats[h] = m_Player[p].Stats[h]
        BY <3>1, <3>4, <4>2
      <4>3. CASE m_Player'[p].Stats[h] = [Play |-> 0, Win |-> 0]
        BY <4>1, <4>3
      <4> QED BY <2>2, <2>3, <3>4, <4>1, <4>2, <4>3
    <3> QED BY <1>0, <3>1, <3>3, <3>4
  <2> QED BY <2>1, <2>2, <2>3 DEF NoRoundTooMany, Played
<1>4. CASE FirstHalfStarts
  <2>1. /\ m_Match'.Rounds = 0 /\ \A p \in Known' : m_Player'[p].Stats = NoStats
    BY <1>4 DEF FirstHalfStarts, PlayersOfMatch, NewPlayer, NoMatch, Known
  <2>2. \A h \in {"first", "second"} : Played(h)' = 0
    BY <1>4 DEF FirstHalfStarts, Start, RulesInv, NotYetPlayed, Played, Rosters
  <2> QED BY <1>0, <2>1, <2>2 DEF NoRoundTooMany, RoundPlay
<1>5. CASE HalftimeStarts
  <2>1. /\ UNCHANGED <<won, stray>> /\ half # "none" /\ m_Match'.Rounds = m_Match.Rounds
    BY <1>5 DEF HalftimeStarts, SwapSides, SwapScores, Break, FirstOver, TiedUp, StatsTypeOK
  <2>2. \A p \in Known' : m_Player'[p].Stats = Entry(p).Stats
    <3>1. CASE SidesSwap
      <4>1. m_Player' = SwitchTeams(Present)
        BY <1>5, <3>1 DEF HalftimeStarts, SwapSides
      <4>2. Known' = Known \cup Present
        BY <4>1, SwitchTeamsEffect DEF Known
      <4> QED BY <4>1, <4>2, SwitchTeamsEffect
    <3>2. CASE ~SidesSwap
      BY <1>0, <1>5, <3>2 DEF HalftimeStarts, Known
    <3> QED BY <3>1, <3>2
  <2>3. ASSUME NEW p \in Known'
        PROVE  /\ RoundPlay(p)' <= m_Match.Rounds
               /\ \A h \in {"first", "second"} \ stray :
                     m_Player'[p].Stats[h].Play <= Played(h)
    <3>1. CASE p \in Known
      BY <1>0, <2>1, <2>2, <2>3, <3>1 DEF NoRoundTooMany, RoundPlay
    <3>2. CASE p \notin Known
      <4>1. m_Player'[p].Stats = NoStats
        BY <1>0, <2>2, <2>3, <3>2
      <4> QED BY <1>0, <4>1 DEF RoundPlay
    <3> QED BY <3>1, <3>2
  <2> QED BY <2>1, <2>3 DEF NoRoundTooMany, Played
<1>6. CASE NextHalfStarts
  <2>1. UNCHANGED <<won, stray, m_Match>> /\ half = "break"
    BY <1>6 DEF NextHalfStarts, Resume
  <2>2. \A p \in Known', h \in Halves :
          \/ m_Player'[p].Stats[h] = Entry(p).Stats[h]
          \/ m_Player'[p].Stats[h] = [Play |-> 0, Win |-> 0]
    <3>1. CASE SecondHalfStarts
      <4>1. PICK players \in SUBSET Present :
               m_Player' = WithoutHalf(SwitchTeams(players), "second")
        BY <3>1 DEF SecondHalfStarts
      <4>2. Known' = Known \cup players
        BY <4>1, SecondHalfEffect
      <4>3. \A p \in Known \cup players :
              /\ m_Player'[p].Stats["second"] = [Play |-> 0, Win |-> 0]
              /\ \A h \in Halves \ {"second"} : m_Player'[p].Stats[h] = Entry(p).Stats[h]
        BY <4>1, SecondHalfEffect
      <4> QED BY <4>2, <4>3
    <3>2. CASE m_Player' = m_Player
      BY <1>0, <3>2 DEF Known
    <3> QED BY <1>6, <3>1, <3>2 DEF NextHalfStarts
  <2>3. ASSUME NEW p \in Known'
        PROVE  /\ RoundPlay(p)' <= m_Match.Rounds
               /\ \A h \in {"first", "second"} \ stray :
                     m_Player'[p].Stats[h].Play <= Played(h)
    <3>1. CASE p \in Known
      <4>1. /\ RoundPlay(p) <= m_Match.Rounds
            /\ \A h \in {"first", "second"} \ stray : m_Player[p].Stats[h].Play <= Played(h)
        BY <1>0, <2>1, <3>1 DEF NoRoundTooMany
      <4>2. \A h \in Halves : /\ m_Player'[p].Stats[h].Play \in Nat
                              /\ m_Player'[p].Stats[h].Play <= m_Player[p].Stats[h].Play
        BY <1>0, <2>2, <2>3, <3>1
      <4>3. RoundPlay(p)' <= RoundPlay(p) /\ RoundPlay(p)' \in Int /\ RoundPlay(p) \in Int
        BY <1>0, <3>1, <4>2 DEF RoundPlay
      <4> QED BY <1>0, <3>1, <4>1, <4>2, <4>3
    <3>2. CASE p \notin Known
      <4>1. \A h \in Halves : m_Player'[p].Stats[h].Play = 0
        BY <1>0, <2>2, <2>3, <3>2
      <4> QED BY <1>0, <4>1 DEF RoundPlay
    <3> QED BY <3>1, <3>2
  <2> QED BY <2>1, <2>3 DEF NoRoundTooMany, Played
<1>7. CASE LO3Live \/ MatchEnds \/ MatchIsForgotten \/ UNCHANGED statsVars
  <2>1. CASE MatchIsForgotten
    BY <2>1 DEF MatchIsForgotten, Forget, NoRoundTooMany
  <2>2. CASE LO3Live \/ MatchEnds \/ UNCHANGED statsVars
    BY <2>2 DEF LO3Live, MatchEnds, Finish, Decided, statsVars, rulesVars,
       NoRoundTooMany, RoundPlay, Played, Known
  <2> QED BY <1>7, <2>1, <2>2
<1> QED BY <1>1, <1>2, <1>3, <1>4, <1>5, <1>6, <1>7 DEF StatsNext, Moves

\* The score of a side moves with the rounds of the roster on it, and the lead with
\* the lead of the match.
LEMMA ScoreStep ==
    ASSUME StatsTypeOK, RulesInv, BreakIsOpen, ScoresAgree, [StatsNext]_statsVars
    PROVE  ScoresAgree'
<1>0. /\ RulesTypeOK /\ Rosters = {"A", "B"} /\ roster \in Rosters
      /\ m_Match.Score \in [Team -> Nat] /\ Team = {1, 2}
      /\ \A r \in Rosters : Regular(r) \in Nat /\ wonOT[r] \in Nat
  BY DEF StatsTypeOK, RulesTypeOK, Rosters, Regular, Team, TERRORIST, CT
<1>1. CASE \E p \in Person : Moves(p)
  <2>1. UNCHANGED <<half, won, wonOT, roster, m_Match, stray>>
    BY <1>1, MoveEffect
  <2> QED BY <2>1 DEF ScoresAgree, Lead, Total, Regular, SideOf
<1>2. CASE \E r \in Rosters : CountedRound(r) \/ UncountedRound(r)
  <2>1. PICK r \in Rosters : CountedRound(r) \/ UncountedRound(r)
    BY <1>2
  <2> SUFFICES ASSUME half' # "none", "score" \notin stray' PROVE Lead' = (Total("A") - Total("B"))'
    BY DEF ScoresAgree
  <2>2. /\ half # "none" /\ "score" \notin stray /\ RoundEnd(SideOf(r)) /\ roster' = roster
        /\ SideOf(r) \in Team
    BY <2>1, RoundFacts
  <2>3. Lead = Total("A") - Total("B")
    BY <2>2 DEF ScoresAgree
  <2>4. Lead' = IF r = "A" THEN Lead + 1 ELSE Lead - 1
    <3>1. m_Match'.Score = [m_Match.Score EXCEPT ![SideOf(r)] = @ + 1]
      BY <2>2 DEF RoundEnd, ScoreRound
    <3> QED BY <1>0, <2>1, <2>2, <3>1 DEF Lead, SideOf, TERRORIST, CT
  <2>5. (Total("A") - Total("B"))' = IF r = "A" THEN Total("A") - Total("B") + 1
                                                ELSE Total("A") - Total("B") - 1
    <3>1. CASE half \in {"first", "second"} /\ won' = [won EXCEPT ![r][half] = @ + 1]
               /\ wonOT' = wonOT
      <4>1. Regular(r)' = Regular(r) + 1 /\ Regular(Rival(r))' = Regular(Rival(r))
        BY <1>0, <3>1, WinRegular
      <4>2. (r = "A" /\ Rival(r) = "B") \/ (r = "B" /\ Rival(r) = "A")
        BY <1>0 DEF Rival
      <4>3. /\ Regular("A")' = IF r = "A" THEN Regular("A") + 1 ELSE Regular("A")
            /\ Regular("B")' = IF r = "B" THEN Regular("B") + 1 ELSE Regular("B")
        BY <4>1, <4>2
      <4> QED BY <1>0, <3>1, <4>3 DEF Total
    <3>2. CASE won' = won /\ wonOT' = [wonOT EXCEPT ![r] = @ + 1]
      <4>1. /\ wonOT'["A"] = IF r = "A" THEN wonOT["A"] + 1 ELSE wonOT["A"]
            /\ wonOT'["B"] = IF r = "B" THEN wonOT["B"] + 1 ELSE wonOT["B"]
        BY <1>0, <3>2 DEF RulesTypeOK
      <4>2. Regular("A")' = Regular("A") /\ Regular("B")' = Regular("B")
        BY <3>2 DEF Regular
      <4> QED BY <1>0, <4>1, <4>2 DEF Total
    <3> QED BY <2>1, <3>1, <3>2, RoundFacts
  <2> QED BY <2>3, <2>4, <2>5
<1>3. CASE LO3Restart
  <2>1. /\ UNCHANGED <<half, won, wonOT, roster, m_Match>>
        /\ "score" \notin stray' => "score" \notin stray
    BY <1>3 DEF LO3Restart, ResetHalf, rulesVars, InHalf, Halves
  <2> QED BY <2>1 DEF ScoresAgree, Lead, Total, Regular, SideOf
<1>4. CASE FirstHalfStarts
  <2>1. Lead' = 0
    BY <1>4 DEF FirstHalfStarts, NoMatch, Lead, SideOf, Team, TERRORIST, CT
  <2>2. /\ \A r \in Rosters : won'[r]["first"] = 0 /\ won'[r]["second"] = 0
        /\ wonOT' = NoRoundsOT
    BY <1>4 DEF FirstHalfStarts, Start, RulesInv, NotYetPlayed
  <2>3. Total("A")' = 0 /\ Total("B")' = 0
    BY <1>0, <2>2 DEF Total, Regular, NoRoundsOT
  <2> QED BY <2>1, <2>3 DEF ScoresAgree
<1>5. CASE HalftimeStarts
  <2>1. UNCHANGED <<won, wonOT, stray>> /\ half # "none"
    BY <1>5 DEF HalftimeStarts, Break, FirstOver, TiedUp
  <2>2. Lead' = Lead
    <3>1. CASE SidesSwap
      <4>1. /\ roster' = Rival(roster)
            /\ m_Match'.Score = [side \in Team |-> m_Match.Score[Other(side)]]
        BY <1>5, <3>1 DEF HalftimeStarts, SwapSides, SwapScores, StatsTypeOK
      <4> QED BY <1>0, <4>1 DEF Lead, SideOf, Rival, Other, Team, TERRORIST, CT
    <3>2. CASE ~SidesSwap
      BY <1>5, <3>2 DEF HalftimeStarts, Lead, SideOf
    <3> QED BY <3>1, <3>2
  <2> QED BY <2>1, <2>2 DEF ScoresAgree, Total, Regular
<1>6. CASE NextHalfStarts
  <2>1. UNCHANGED <<won, stray, roster, m_Match>> /\ half = "break"
    BY <1>6 DEF NextHalfStarts, Resume
  <2>2. Total("A")' - Total("B")' = Total("A") - Total("B")
    <3>1. CASE wonOT' = wonOT
      BY <2>1, <3>1 DEF Total, Regular
    <3>2. CASE PlayedOT = 2 * HalfRoundsOT /\ wonOT' = NoRoundsOT
      <4>1. wonOT["A"] = wonOT["B"] /\ wonOT'["A"] = 0 /\ wonOT'["B"] = 0
        BY <1>0, <2>1, <3>2, RulesAssumption DEF BreakIsOpen, PlayedOT, NoRoundsOT
      <4>2. Regular("A")' = Regular("A") /\ Regular("B")' = Regular("B")
        BY <2>1 DEF Regular
      <4> QED BY <1>0, <4>1, <4>2 DEF Total
    <3> QED BY <1>6, <3>1, <3>2 DEF NextHalfStarts, Resume
  <2>3. Lead' = Lead
    BY <2>1 DEF Lead, SideOf
  <2> QED BY <2>1, <2>2, <2>3 DEF ScoresAgree
<1>7. CASE LO3Live \/ MatchEnds \/ MatchIsForgotten \/ UNCHANGED statsVars
  BY <1>7 DEF LO3Live, MatchEnds, Finish, Decided, MatchIsForgotten, Forget, statsVars,
     rulesVars, ScoresAgree, Lead, Total, Regular, SideOf
<1> QED BY <1>1, <1>2, <1>3, <1>4, <1>5, <1>6, <1>7 DEF StatsNext, Moves

\* The side that is ahead has the greater score.
LEMMA AheadIsLeader ==
    ASSUME NEW score \in [Team -> Nat], NEW side \in Team
    PROVE  Ahead(score) = side <=> score[side] > score[Other(side)]
BY DEF Ahead, Other, Team, TERRORIST, CT

LEMMA FlagsStep ==
    ASSUME StatsInv, RulesInv, BreakIsOpen, [StatsNext]_statsVars,
           StatsTypeOK', RulesTypeOK', ScoresAgree', SeenArePresent'
    PROVE  FlagsFollow'
<1>0. /\ StatsTypeOK /\ TeamsAreStored /\ SeenArePresent /\ RulesTypeOK
      /\ m_Player \in [Known -> Player]
      /\ \A p \in Person : half # "none" /\ Seen(p) =>
           p \in Known /\ m_Player[p].Team = SideOf(where[p])
      /\ \A p \in Present : where[p] \in Rosters
  BY StatsFacts DEF StatsInv, RulesInv, SeenArePresent, TeamsAreStored, Seen
<1>1. CASE \E p \in Person : Moves(p)
  <2>1. PICK p \in Person : Moves(p)
    BY <1>1
  <2>2. UNCHANGED <<half, won, wonOT, stray>>
    BY <1>0, <2>1, MoveEffect
  <2>3. \A q \in Person : half # "none" /\ Seen(q)' =>
          /\ Seen(q) /\ where'[q] = where[q]
          /\ m_Player'[q].Winner = m_Player[q].Winner
    BY <1>0, <2>1, MoveEffect DEF Seen
  <2>4. Decided \/ half = "over" => half # "none"
    BY DEF Decided
  <2> QED BY <2>2, <2>3, <2>4 DEF StatsInv, FlagsFollow, Decided, Total, Regular
<1>2. CASE \E r \in Rosters : CountedRound(r) \/ UncountedRound(r)
  <2>1. PICK r \in Rosters : CountedRound(r) \/ UncountedRound(r)
    BY <1>2
  <2>2. /\ InHalf /\ half' = half /\ RoundEnd(SideOf(r)) /\ SideOf(r) \in Team
        /\ roster' = roster /\ where' = where
    BY <1>0, <2>1, RoundFacts
  <2>3. SUFFICES ASSUME "score" \notin stray', NEW p \in Person, Seen(p)'
                 PROVE  m_Player'[p].Winner = 1 <=>
                          Total(where[p])' > Total(Rival(where[p]))'
    BY DEF FlagsFollow
  <2>4. /\ p \in Present /\ where'[p] \in Rosters /\ p \in Known
        /\ m_Player[p].Team = SideOf(where[p])
    <3>1. half # "none" /\ since[p] # "moved" /\ Present' = Present /\ p \in Present'
      <4>1. half # "none" /\ Present' = Present
        BY <2>2 DEF InHalf, Halves, Present
      <4>2. p \in Present'
        BY <2>3 DEF SeenArePresent
      <4>3. since[p] # "moved"
        <5>1. since'[p] = since[p] \/ since[p] = "nothing"
          BY <1>0, <2>1, <2>3, RoundFacts
        <5>2. since'[p] # "moved"
          BY <2>3 DEF Seen
        <5> QED BY <5>1, <5>2
      <4> QED BY <4>1, <4>2, <4>3
    <3> QED BY <1>0, <2>2, <3>1 DEF TeamsAreStored
  <2>5. Lead' = (Total("A") - Total("B"))'
    BY <2>2, <2>3 DEF ScoresAgree, InHalf, Halves
  <2>6. m_Player'[p].Winner = 1 <=> Ahead(m_Match'.Score) = SideOf(where[p])
    BY <1>0, <2>2, <2>4, RoundEndEffect
  <2>7. /\ m_Match'.Score \in [Team -> Nat]
        /\ SideOf(where[p]) \in Team /\ SideOf("A") \in Team /\ SideOf("B") \in Team
    BY <1>0, <2>4, StatsFacts DEF StatsTypeOK, Rosters
  <2>8. /\ m_Match'.Score[SideOf(where[p])] \in Nat
        /\ m_Match'.Score[Other(SideOf(where[p]))] \in Nat
        /\ m_Player'[p].Winner = 1 <=> m_Match'.Score[SideOf(where[p])]
                                        > m_Match'.Score[Other(SideOf(where[p]))]
    <3>1. Other(SideOf(where[p])) \in Team
      BY <2>7 DEF Other, Team
    <3> QED BY <2>6, <2>7, <3>1, AheadIsLeader
  <2>9. Total("A")' \in Nat /\ Total("B")' \in Nat
    BY DEF RulesTypeOK, Total, Regular, Rosters
  <2>10. Lead' = m_Match'.Score[SideOf("A")] - m_Match'.Score[SideOf("B")]
    BY <2>2 DEF Lead, SideOf
  <2>11. CASE where[p] = "A"
    <3>1. Other(SideOf("A")) = SideOf("B") /\ Rival("A") = "B"
      BY <1>0 DEF StatsTypeOK, Rosters, Other, SideOf, Rival, TERRORIST, CT
    <3>2. Total(where[p])' = Total("A")' /\ Total(Rival(where[p]))' = Total("B")'
      BY <2>2, <2>11, <3>1
    <3> QED BY <2>5, <2>8, <2>9, <2>10, <2>11, <3>1, <3>2
  <2>12. CASE where[p] = "B"
    <3>1. Other(SideOf("B")) = SideOf("A") /\ Rival("B") = "A"
      BY <1>0 DEF StatsTypeOK, Rosters, Other, SideOf, Rival, TERRORIST, CT
    <3>2. Total(where[p])' = Total("B")' /\ Total(Rival(where[p]))' = Total("A")'
      BY <2>2, <2>12, <3>1
    <3> QED BY <2>5, <2>8, <2>9, <2>10, <2>12, <3>1, <3>2
  <2> QED BY <2>2, <2>4, <2>11, <2>12 DEF Rosters
<1>3. CASE LO3Restart
  <2>1. /\ UNCHANGED <<half, won, wonOT, where, since>> /\ half \in Halves
        /\ "score" \notin stray' => "score" \notin stray
    BY <1>3 DEF LO3Restart, ResetHalf, rulesVars, InHalf, Halves
  <2>2. \A p \in Known : m_Player'[p].Winner = m_Player[p].Winner
    BY <1>0, <1>3, <2>1, WithoutHalfEffect DEF LO3Restart, ResetHalf
  <2>3. \A p \in Person : Seen(p)' => Seen(p) /\ m_Player'[p].Winner = m_Player[p].Winner
    BY <1>0, <2>1, <2>2 DEF Seen, Halves
  <2> QED BY <2>1, <2>3 DEF StatsInv, FlagsFollow, Decided, Total, Regular
<1>4. CASE FirstHalfStarts \/ HalftimeStarts
  BY <1>4 DEF FirstHalfStarts, Start, HalftimeStarts, Break, FlagsFollow, Decided
<1>5. CASE NextHalfStarts
  <2>1. /\ \A r \in Rosters : /\ Regular(r) \in Nat /\ wonOT[r] \in Nat
                              /\ won[r]["first"] \in Nat
        /\ half = "break" /\ won' = won
    BY <1>0, <1>5 DEF NextHalfStarts, Resume, RulesTypeOK, Regular
  <2>2. ~Decided'
    <3>1. CASE half' = "second"
      <4>1. \A r \in Rosters : Regular(r) <= HalfRounds
        BY <1>0, <1>5, <2>1, <3>1
           DEF NextHalfStarts, Resume, BreakIsOpen, Regular
      <4> QED BY <2>1, <3>1, <4>1, RulesAssumption DEF Decided, Regular
    <3>2. CASE half' = "overtime"
      <4>1. \A r \in Rosters : wonOT'[r] <= HalfRoundsOT
        BY <1>5, <2>1, <3>2, RulesAssumption
           DEF NextHalfStarts, Resume, BreakIsOpen, NoRoundsOT
      <4>2. \A r \in Rosters : wonOT'[r] \in Nat
        BY DEF RulesTypeOK
      <4> QED BY <3>2, <4>1, <4>2, RulesAssumption DEF Decided
    <3> QED BY <1>5, <3>1, <3>2 DEF NextHalfStarts, Resume
  <2> QED BY <1>5, <2>2 DEF NextHalfStarts, Resume, FlagsFollow
<1>6. CASE LO3Live \/ MatchEnds \/ MatchIsForgotten \/ UNCHANGED statsVars
  <2>1. CASE MatchIsForgotten
    BY <2>1 DEF MatchIsForgotten, Forget, FlagsFollow, Decided
  <2>2. CASE LO3Live \/ MatchEnds \/ UNCHANGED statsVars
    BY <2>2 DEF LO3Live, MatchEnds, Finish, statsVars, rulesVars, StatsInv, FlagsFollow,
       Decided, Seen, Total, Regular
  <2> QED BY <1>6, <2>1, <2>2
<1> QED BY <1>1, <1>2, <1>3, <1>4, <1>5, <1>6 DEF StatsNext, Moves
-----------------------------------------------------------------------------
(***************************************************************************)
(* The theorems.                                                           *)
(***************************************************************************)
LEMMA StatsStep ==
    RulesInv /\ BreakIsOpen /\ StatsInv /\ [StatsNext]_statsVars
      => RulesInv' /\ BreakIsOpen' /\ StatsInv'
<1> SUFFICES ASSUME RulesInv, BreakIsOpen, StatsInv, [StatsNext]_statsVars
             PROVE  RulesInv' /\ BreakIsOpen' /\ StatsInv'
  OBVIOUS
<1>1. /\ StatsTypeOK /\ SeenArePresent /\ TeamsAreStored /\ HalfIsFresh
      /\ RoundsAreReported /\ NoRoundTooMany /\ ScoresAgree
  BY DEF StatsInv
<1>2. [Next]_rulesVars
  BY StatsStepKeepsRules
<1>3. RulesInv' /\ BreakIsOpen' /\ RulesTypeOK'
  BY <1>2, RulesNext, BreakStep DEF RulesInv
<1>4. StatsTypeOK'
  BY <1>1, <1>3, StatsTypeStep
<1>5. SeenArePresent' /\ TeamsAreStored'
  BY <1>1, <1>4, TeamsStep
<1>6. HalfIsFresh'
  BY <1>1, HalfStep
<1>7. RoundsAreReported'
  BY <1>1, ReportStep
<1>8. NoRoundTooMany'
  BY <1>1, TooManyStep
<1>9. ScoresAgree'
  BY <1>1, ScoreStep
<1>10. FlagsFollow'
  BY <1>3, <1>4, <1>5, <1>9, FlagsStep
<1> QED BY <1>3, <1>4, <1>5, <1>6, <1>7, <1>8, <1>9, <1>10 DEF StatsInv

LEMMA StatsInvariant == StatsSpec => [](RulesInv /\ BreakIsOpen /\ StatsInv)
<1>1. StatsInit => RulesInv /\ BreakIsOpen /\ StatsInv
  BY StatsInitInv, RulesInit DEF StatsInit
<1> QED BY <1>1, StatsStep, PTL DEF StatsSpec

\* The tables of the statistics keep their shape, however many players come and go
\* and are moved.
THEOREM StatsType == StatsSpec => []StatsTypeOK
<1>1. StatsInv => StatsTypeOK
  BY DEF StatsInv
<1> QED BY <1>1, StatsInvariant, PTL

\* Who stays for the match is reported with the rounds of each half, and with those
\* won by the roster that he played the half for, also if the engine's balance put him
\* on the other roster at halftime.
THEOREM ReportedRounds == StatsSpec => []RoundsAreReported
<1>1. StatsInv => RoundsAreReported
  BY DEF StatsInv
<1> QED BY <1>1, StatsInvariant, PTL

\* Who comes and goes is never reported with more rounds than were played.
THEOREM ReportedAtMost == StatsSpec => []NoRoundTooMany
<1>1. StatsInv => NoRoundTooMany
  BY DEF StatsInv
<1> QED BY <1>1, StatsInvariant, PTL

\* The players of the roster that won the match are its winners, whenever they came
\* and wherever the engine put them, but for those whom an admin has moved.
THEOREM ReportedWinners == StatsSpec => []WinnersAreFlagged
<1>1. StatsInv => WinnersAreFlagged
  BY DEF StatsInv, FlagsFollow, WinnersAreFlagged, Seen, Total
<1> QED BY <1>1, StatsInvariant, PTL
=============================================================================
