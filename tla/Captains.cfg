SPECIFICATION Spec
CONSTANTS
    Rounds = 2
    RoundsOT = 2
    OvertimeType = 2
    ReadyType = 1
    PlayersMin = 2
    PlayersMax = 2
    TeamType = 1
    KnifeRound = FALSE
    VoteDelay = 1
    RestartDelay = 1
    KnifeDelay = 1
    FreezeTime = 1
    MapChoice = TRUE
    AdminStates = {}
    Churn = TRUE
    MaxRound = 1
INVARIANTS
    PhaseHasDriver
