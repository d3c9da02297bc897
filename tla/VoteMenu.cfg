SPECIFICATION Spec
CONSTANTS
    Slot = {s1, s2, s3}
    Client = {c1, c2, adm}
    Immune = {adm}
    Map = {dust}
    Items = {"KICK", "MAP", "PAUSE", "RESTART", "CANCEL", "SURRENDER"}
    Nobody = Nobody
    PlayersMin = 2
    VotePercent = 70
    LO3Restarts = 2
SYMMETRY Alike
INVARIANTS
    VoteMenuTypeOK
    VotesBelong
PROPERTIES
    DecidedByMajority
