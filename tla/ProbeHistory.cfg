SPECIFICATION Spec
CONSTANTS
    Runs = {r1, r2}
    Probes = {r2}
    MaxLate = 2
    MaxKills = 1
INVARIANTS
    ProbePassMeansHistory
CHECK_DEADLOCK FALSE
