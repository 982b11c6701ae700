SPECIFICATION Spec
CONSTANTS
    Downloads = {d1, d2}
    Threshold = 3
    Cooldown = 2
    ProbeEvery = 3
    Rerolls = 1
PROPERTY TripsOnlyDown
PROPERTY Converges
PROPERTY LeavesDeadCdn
