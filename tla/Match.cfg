SPECIFICATION FairReportSpec
CONSTANTS
    Rounds = 6
    RoundsOT = 2
    OvertimeType = 1
    ReadyType = 1
    PlayersMin = 2
    PlayersMax = 2
    TeamType = 0
    KnifeRound = TRUE
    VoteDelay = 2
    RestartDelay = 4
    KnifeDelay = 8
    FreezeTime = 3
    MapChoice = TRUE
    AdminStates = {}
    Churn = FALSE
    MaxRound = 12
INVARIANTS
    TypeOK
    ScoreFollowsRoster
    ReportFollowsScore
PROPERTIES
    NoExtraRound
    OvertimeHalfSwaps
    DecidedMatchEnds
    TeamVoteSettles
    KeepsTheRules
