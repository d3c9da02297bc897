----------------------------- MODULE MatchRules -----------------------------
(***************************************************************************)
(* What PugMod promises of a match between two rosters: who may win rounds *)
(* in which half, when a half, the match and an overtime are over, and     *)
(* what follows.  The rules are those that the scores of CPugMod::RoundEnd *)
(* and the transitions of CPugMod::SetState are there to keep, for ties    *)
(* that go to overtime (pug_ot_type 1).  Sides, tasks, restarts, votes and *)
(* the clock are left to PugMod, which is shown to keep these rules.       *)
(***************************************************************************)
EXTENDS Integers

CONSTANTS HalfRounds,   \* rounds of each half
          HalfRoundsOT  \* rounds of each half of an overtime

ASSUME RulesAssumption == HalfRounds \in Nat \ {0} /\ HalfRoundsOT \in Nat \ {0}

VARIABLES half,   \* the half that is on, "break" between two, "none", "over"
          won,    \* regular rounds won, per roster and half
          wonOT   \* overtime rounds won, per roster and overtime

rulesVars == <<half, won, wonOT>>

Rosters == {"A", "B"}
Rival(r) == IF r = "A" THEN "B" ELSE "A"

Regular(r) == won[r]["first"] + won[r]["second"]
Played(h) == won["A"][h] + won["B"][h]
PlayedOT == wonOT["A"] + wonOT["B"]

NoRounds == [r \in Rosters |-> [h \in {"first", "second"} |-> 0]]
NoRoundsOT == [r \in Rosters |-> 0]

FirstOver == half = "first" /\ Played("first") = HalfRounds

\* Faulty Decided: the match is over when all its rounds are played, whoever leads.
DecidedByRounds ==
    half = "second" /\ Played("first") + Played("second") = 2 * HalfRounds

Decided == \/ half = "second" /\ \E r \in Rosters : Regular(r) > HalfRounds
           \/ half = "overtime" /\ \E r \in Rosters : wonOT[r] > HalfRoundsOT
TiedUp == \/ half = "second" /\ \A r \in Rosters : Regular(r) = HalfRounds
          \/ half = "overtime" /\ \A r \in Rosters : wonOT[r] = HalfRoundsOT
-----------------------------------------------------------------------------
Init == half = "none" /\ won = NoRounds /\ wonOT = NoRoundsOT

Start == half = "none" /\ half' = "first" /\ UNCHANGED <<won, wonOT>>

\* Faulty Win: a round that one roster wins is taken from the other.
WinTakesBack(r) ==
    /\ ~FirstOver /\ ~Decided /\ ~TiedUp
    /\ half \in {"first", "second"}
    /\ won' = [won EXCEPT ![r][half] = @ + 1, ![Rival(r)][half] = @ - 1]
    /\ UNCHANGED <<half, wonOT>>

\* A roster wins a round of a half that is not over.
Win(r) ==
    /\ ~FirstOver /\ ~Decided /\ ~TiedUp
    /\ \/ /\ half \in {"first", "second"}
          /\ won' = [won EXCEPT ![r][half] = @ + 1]
          /\ UNCHANGED <<half, wonOT>>
       \/ /\ half = "overtime"
          /\ wonOT' = [wonOT EXCEPT ![r] = @ + 1]
          /\ UNCHANGED <<half, won>>

\* A half that is over, or a tie, leads to a break.
Break ==
    /\ FirstOver \/ TiedUp \/ (half = "overtime" /\ PlayedOT = HalfRoundsOT)
    /\ half' = "break" /\ UNCHANGED <<won, wonOT>>

\* After the break comes the second half, or an overtime: a new one, unless the
\* last one is at its halftime.
Resume ==
    /\ half = "break"
    /\ \/ /\ Played("first") + Played("second") < 2 * HalfRounds
          /\ half' = "second" /\ UNCHANGED wonOT
       \/ /\ Played("first") + Played("second") >= 2 * HalfRounds
          /\ half' = "overtime"
          /\ wonOT' = IF PlayedOT = 2 * HalfRoundsOT THEN NoRoundsOT ELSE wonOT
    /\ UNCHANGED won

Finish == Decided /\ half' = "over" /\ UNCHANGED <<won, wonOT>>

\* The next match starts from nothing.
Forget == half = "over" /\ half' = "none" /\ won' = NoRounds /\ wonOT' = NoRoundsOT

Next == \/ Start \/ Break \/ Resume \/ Finish \/ Forget
        \/ \E r \in Rosters : Win(r)

Spec == Init /\ [][Next]_rulesVars
-----------------------------------------------------------------------------
RulesTypeOK ==
    /\ half \in {"none", "first", "break", "second", "overtime", "over"}
    /\ won \in [Rosters -> [{"first", "second"} -> Nat]]
    /\ wonOT \in [Rosters -> Nat]

\* A match that is over has a winner: the rounds of the halves and of the last
\* overtime are not shared evenly.  (CPugMod::RoundEnd, the tests for STATE_END.)
EndHasWinner ==
    half = "over" => \E r \in Rosters :
        Regular(r) + wonOT[r] > Regular(Rival(r)) + wonOT[Rival(r)]

\* An overtime is played by rosters that share the regular rounds.
OvertimeIsTied ==
    half = "overtime" => \A r \in Rosters : Regular(r) = HalfRounds
=============================================================================
