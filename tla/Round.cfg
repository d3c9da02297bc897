SPECIFICATION Spec
CONSTANTS
    ann = ann
    bob = bob
    cyd = cyd
    s1 = s1
    s2 = s2
    Person = {ann, bob, cyd}
    Slot = {s1, s2}
    Side <- MCSide
    TradeWindow = 0
    MaxCredits = 1
SYMMETRY Alike
INVARIANTS
    RoundTypeOK
    HitsBelong
PROPERTIES
    TradesAvenge
    LoneWinsVersus
