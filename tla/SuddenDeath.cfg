SPECIFICATION FairPauseSpec
CONSTANTS
    PauseTime = 3
    Rounds = 4
    RoundsOT = 3
    OvertimeType = 1
    ReadyType = 2
    PlayersMin = 1
    PlayersMax = 1
    TeamType = 4
    KnifeRound = FALSE
    VoteDelay = 2
    RestartDelay = 4
    KnifeDelay = 8
    FreezeTime = 2
    MapChoice = TRUE
    AdminStates = {}
    Churn = FALSE
    MaxRound = 7
INVARIANTS
    PauseTypeOK
    OvertimeNeedsEvenRounds
PROPERTIES
    PausedRoundWaits
    PauseGivesBack
    PauseLifts
