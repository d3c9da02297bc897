------------------------------ MODULE PugPause ------------------------------
(***************************************************************************)
(* CPugPause beside the match of PugMod.  A team's vote or an admin asks   *)
(* for a pause; the next restart of a round starts it, by freezing the     *)
(* round, raising mp_buytime and starting a task that looks every half     *)
(* second whether the pause is over.  The match does not know of pauses:   *)
(* each of its callbacks may come in between, and some of them restart the *)
(* round, which calls CPugPause::RestartRound back.                        *)
(*                                                                         *)
(* The task's half second is the model's instant: it looks once between    *)
(* two seconds of the clock.  buytime is in hundredths of a minute.        *)
(***************************************************************************)
EXTENDS PugMod

CONSTANT PauseTime  \* pug_pause_timeout, seconds

ASSUME PauseAssumption == PauseTime \in Nat /\ PauseTime > 0

VARIABLES
    pause,       \* CPugPause::m_State and m_BuyTime
    m_PauseTask, \* CPugTask's slot PAUSE_MATCH
    buytime,     \* the cvar mp_buytime
    age,         \* seconds since CSGameRules()->m_fRoundStartTime, up to PauseTime
    held         \* history: an ordinary pause is on, see StartPause

pauseVars == <<pause, m_PauseTask, buytime, age, held>>
allVars == <<vars, pauseVars>>

PauseSlot == {"PAUSE_MATCH"}
PauseOn == m_PauseTask["PAUSE_MATCH"].on
NotPaused == [state |-> "none", saved |-> 0]

\* Faulty PauseBuyTime: mp_buytime is in minutes, not in seconds.
PauseBuyTimeInMinutes == (100 * PauseTime) \div 60

PauseBuyTime == 100 * PauseTime
\* mp_buytime in the configuration that SetState executes, g_Pug_Config.
BuyTimeOf(state) ==
    CASE state = STATE_HALFTIME -> -1
      [] state = STATE_DEAD \/ Playing(state) -> 25
      [] OTHER -> 0
-----------------------------------------------------------------------------
(***************************************************************************)
(* CPugPause's own handlers.                                               *)
(***************************************************************************)
\* CPugPause::Init, for an admin or for a team whose vote succeeded.
AskPause ==
    /\ Up /\ m_State \in Half
    /\ pause' = [pause EXCEPT !.state = "asked"]
    /\ UNCHANGED <<vars, m_PauseTask, buytime, age, held>>

\* Faulty StartPause: the task does not repeat.
StartPauseOnce ==
    /\ pause' = [state |-> "paused", saved |-> buytime]
    /\ buytime' = PauseBuyTime
    /\ m_PauseTask' = Create(m_PauseTask, "PAUSE_MATCH", 1, FALSE, PauseTime)
    /\ age' = 0
    /\ held' = (Counts /\ ~PauseOn /\ buytime = BuyTimeOf(m_State))

\* CPugPause::RestartRound in a half, for a pause that was asked for.  The history
\* calls it ordinary if the half counts and has its own buy time, so that it is
\* neither a pause of the LO3 restarts nor one that replaces another.
StartPause ==
    /\ pause' = [state |-> "paused", saved |-> buytime]
    /\ buytime' = PauseBuyTime
    /\ m_PauseTask' = Create(m_PauseTask, "PAUSE_MATCH", 1, TRUE, PauseTime)
    /\ age' = 0
    /\ held' = (Counts /\ ~PauseOn /\ buytime = BuyTimeOf(m_State))

\* CPugPause::RestartRound otherwise.  Out of a half it forgets the pause, but
\* the task goes on.
PassRestart(state) ==
    /\ pause' = IF state \in Half THEN pause ELSE NotPaused
    /\ age' = 0
    /\ UNCHANGED <<m_PauseTask, buytime, held>>

\* Faulty FrozenFor: without the second that lets the task come first.
FrozenForTooShort == PauseTime

\* What SetRoundTime is given when a pause starts: one second more than it takes.
FrozenFor == PauseTime + 1

\* Faulty EndPause: the round goes on with the buy time of the pause.
EndPauseKeepsBuyTime ==
    /\ pause' = [pause EXCEPT !.state = "none"]
    /\ m_PauseTask' = Remove(m_PauseTask, "PAUSE_MATCH")
    /\ IF m_bCompleteReset \/ round.phase # "play"
       THEN UNCHANGED round ELSE round' = [round EXCEPT !.left = FreezeTime]
    /\ age' = IF m_bCompleteReset THEN age ELSE 0
    /\ held' = FALSE
    /\ UNCHANGED buytime

\* CPugPause::Timer when the time is up.  SetRoundTime starts the freeze time of
\* whatever round is on, unless a complete reset is coming.
EndPause ==
    /\ pause' = [pause EXCEPT !.state = "none"]
    /\ m_PauseTask' = Remove(m_PauseTask, "PAUSE_MATCH")
    /\ buytime' = pause.saved
    /\ IF m_bCompleteReset \/ round.phase # "play"
       THEN UNCHANGED round ELSE round' = [round EXCEPT !.left = FreezeTime]
    /\ age' = IF m_bCompleteReset THEN age ELSE 0
    /\ held' = FALSE

Timer ==
    IF age < PauseTime
    THEN /\ pause' = [pause EXCEPT !.state = "paused"]
         /\ m_PauseTask' = Rearm(m_PauseTask, "PAUSE_MATCH")
         /\ UNCHANGED <<buytime, age, held, round>>
    ELSE EndPause

TimerFires ==
    /\ Up /\ IsDue(m_PauseTask, "PAUSE_MATCH")
    /\ Timer
    /\ UNCHANGED <<m_State, scoreVars, m_Task, m_Wait, voteVars, m_VoteMap,
                   m_bGameStarted, m_bCompleteReset, teamVars, server>>
-----------------------------------------------------------------------------
(***************************************************************************)
(* The callbacks of the match, with what each does to a pause.             *)
(***************************************************************************)
RestartsRound ==
    \/ /\ m_State \in Half /\ pause.state = "asked"
       /\ RestartRoundFrozen(FrozenFor) /\ StartPause
    \/ /\ ~(m_State \in Half /\ pause.state = "asked")
       /\ RestartRound /\ PassRestart(m_State)

\* CPugMod::SetState executes the configuration of the state it enters, and at
\* halftime SwapTeams restarts the round.
ChangesState ==
    /\ SetStateFires \/ SpectatorDrops
    /\ buytime' = BuyTimeOf(m_State')
    /\ IF m_State' = STATE_HALFTIME /\ TeamsSwap
       THEN pause' = NotPaused /\ age' = 0
       ELSE UNCHANGED <<pause, age>>
    /\ held' = FALSE
    /\ UNCHANGED m_PauseTask

PauseDeactivate ==
    /\ ServerDeactivate
    /\ m_PauseTask' = Cleared(PauseSlot)
    /\ held' = FALSE
    /\ UNCHANGED <<pause, buytime, age>>

\* CPugMod::ServerActivate executes pugmod.cfg.
PauseActivate ==
    /\ ServerActivate
    /\ pause' = NotPaused
    /\ m_PauseTask' = Cleared(PauseSlot)
    /\ buytime' = BuyTimeOf(STATE_DEAD)
    /\ age' = 0 /\ held' = FALSE

Second ==
    /\ NoneDue(m_PauseTask)
    /\ Tick
    /\ m_PauseTask' = Elapse(m_PauseTask)
    /\ age' = IF age < PauseTime THEN age + 1 ELSE age
    /\ UNCHANGED <<pause, buytime, held>>

\* The other callbacks of the match do not reach CPugPause.
OtherTaskFires == MapChangeFires \/ LO3Fires \/ VoteSwapFires \/ VoteOvertimeFires
Elsewhere ==
    /\ \/ RoundDraw \/ \E winner \in Team : RoundEnd(winner)
       \/ OtherTaskFires \/ VoteStops \/ WaitEnds \/ Picks
       \/ PlayersAct /\ ~SpectatorDrops
       \/ \E next \in AdminStates : AdminSetState(next)
    /\ UNCHANGED pauseVars
-----------------------------------------------------------------------------
PauseInit ==
    /\ Init
    /\ pause = NotPaused /\ m_PauseTask = Cleared(PauseSlot)
    /\ buytime = BuyTimeOf(STATE_DEAD)
    /\ age = 0 /\ held = FALSE

PauseNext == \/ AskPause \/ TimerFires
             \/ RestartsRound \/ ChangesState \/ Second \/ Elsewhere
             \/ PauseDeactivate \/ PauseActivate

PauseSpec == PauseInit /\ [][PauseNext]_allVars

\* As in PugMod: what runs every frame is fair, and nobody has to ask for a pause.
FairPauseSpec ==
    /\ PauseSpec
    /\ WF_allVars(Second) /\ WF_allVars(RestartsRound)
    /\ WF_allVars(SetStateFires /\ ChangesState)
    /\ WF_allVars(OtherTaskFires /\ UNCHANGED pauseVars)
    /\ WF_allVars(VoteStops /\ UNCHANGED pauseVars)
    /\ WF_allVars(WaitEnds /\ UNCHANGED pauseVars)
    /\ WF_allVars(Picks /\ UNCHANGED pauseVars)
    /\ WF_allVars(TimerFires)
    /\ WF_allVars(PauseDeactivate) /\ WF_allVars(PauseActivate)
-----------------------------------------------------------------------------
PauseTypeOK ==
    /\ pause \in [state: {"none", "asked", "paused"},
                  saved: {-1, 0, 25, 100 * PauseTime}]
    /\ m_PauseTask \in [PauseSlot -> Task({0, PauseTime})]
    /\ buytime \in {-1, 0, 25, 100 * PauseTime}
    /\ age \in 0..PauseTime
    /\ held \in BOOLEAN

\* A round that is paused is not played: between the pause's start in a half that
\* counts and its end, or the end of that half, no round ends.
PausedRoundWaits == [][held => round'.phase # "over"]_allVars

\* A pause gives the buy time back that it found, if the half it began in is still on.
PauseGivesBack ==
    [][held /\ ~held' /\ m_State' = m_State /\ server' = server
          => buytime' = BuyTimeOf(m_State)]_allVars

\* A pause of a round that counts is over some time.
PauseLifts == held ~> ~held
=============================================================================
