SPECIFICATION Spec
CONSTANTS
    Rounds = 2
    RoundsOT = 2
    OvertimeType = 0
    ReadyType = 1
    PlayersMin = 1
    PlayersMax = 1
    TeamType = 0
    KnifeRound = TRUE
    VoteDelay = 1
    RestartDelay = 2
    KnifeDelay = 2
    FreezeTime = 1
    MapChoice = FALSE
    AdminStates = {6, 10}
    Churn = TRUE
    MaxRound = 2
INVARIANTS
    LO3EndsLive
    CompleteHasExit
PROPERTIES
    LiveAfterLO3
