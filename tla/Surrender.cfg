SPECIFICATION ReportSpec
CONSTANTS
    Rounds = 2
    RoundsOT = 2
    OvertimeType = 1
    ReadyType = 1
    PlayersMin = 2
    PlayersMax = 2
    TeamType = 3
    KnifeRound = FALSE
    VoteDelay = 2
    RestartDelay = 4
    KnifeDelay = 8
    FreezeTime = 3
    MapChoice = TRUE
    AdminStates = {}
    Churn = TRUE
    MaxRound = 2
INVARIANTS
    ReportNamesWinner
