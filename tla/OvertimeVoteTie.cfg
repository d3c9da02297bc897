SPECIFICATION Spec
CONSTANTS
    Rounds = 2
    RoundsOT = 2
    OvertimeType = 0
    ReadyType = 1
    PlayersMin = 2
    PlayersMax = 2
    TeamType = 0
    KnifeRound = TRUE
    VoteDelay = 2
    RestartDelay = 4
    KnifeDelay = 8
    FreezeTime = 2
    MapChoice = TRUE
    AdminStates = {}
    Churn = FALSE
    MaxRound = 6
PROPERTIES
    OvertimeFromTie
