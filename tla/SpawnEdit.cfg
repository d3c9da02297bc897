SPECIFICATION Spec
CONSTANTS
    Admin = {p1, p2}
    MaxSpawn = 3
    NearOrigin = {2}
    MaxList = 3
    MaxExec = 2
SYMMETRY Alike
INVARIANTS
    EditTypeOK
    MarkIsTheSame
    SavedSpawnsArePlayed
