SPECIFICATION Spec
CONSTANTS
    ann = ann
    bob = bob
    cyd = cyd
    bot = bot
    Person = {ann, bob, cyd, bot}
    Bot = {bot}
    Slot = {1, 2, 3}
    MaxClients = 5
    Skill <- FewSkills
    Option = {"random", "balance", "swap"}
SYMMETRY Alike
INVARIANTS
    VotesTypeOK
    OneVoteEach
PROPERTIES
    TeamsAreEven
