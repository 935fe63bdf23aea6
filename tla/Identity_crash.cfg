\* Two processes that start and crash at any moment, and a loss of power.
CONSTANTS
    p1 = p1
    p2 = p2
    Procs = {p1, p2}
    MaxMints = 4
    MaxCrashes = 2
    MaxPowerLosses = 1
SPECIFICATION Spec
CHECK_DEADLOCK FALSE
INVARIANTS StableAcrossRestarts KeySurvives
