SPECIFICATION FairSpec
CONSTANTS
    ann = ann
    lan = lan
    adm = adm
    Person = {ann, lan, adm}
    Generic = {lan}
    Admins = {adm}
    Address <- MCAddress
    PlayersMax = 2
    RageQuitLimit = 1
    Swaps = TRUE
    Slow = {ann}
INVARIANTS
    LeaverTypeOK
    ListIsWatched
PROPERTIES
    BannedAreAway
    LeaverIsSettled
    ReconnectKeepsSide
