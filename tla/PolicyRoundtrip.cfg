SPECIFICATION FairSpec
CONSTANTS
    Runs = {r1, r2}
    Probes = {r2}
    MaxLate = 2
    MaxKills = 1
INVARIANTS
    TypeOK
    PassLeavesNothing
    LeftoversAreAccountedFor
    NothingVanishesInUse
PROPERTIES
    DependentsGoFirst
    EveryRunEnds
CHECK_DEADLOCK FALSE
