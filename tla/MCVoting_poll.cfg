CONSTANTS
    Validators = {v1, v2, v3}
    Stakes = {0, 1, 3}
    MaxEpoch = 3
    MaxTime = 1
SPECIFICATION Spec
INVARIANTS NoMissedMajority
PROPERTY EndsByCurrentMajority
SYMMETRY ValidatorSymmetry
CHECK_DEADLOCK FALSE
