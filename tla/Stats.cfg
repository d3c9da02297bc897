SPECIFICATION StatsSpec
CONSTANTS
    Person = {"ann"}
    HalfRounds = 2
    HalfRoundsOT = 1
    MaxRounds = 6
    TransferRounds = 3
INVARIANTS
    StatsTypeOK
    RoundsAreReported
    NoRoundTooMany
    WinnersAreFlagged
    EndHasWinner
