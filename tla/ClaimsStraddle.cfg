SPECIFICATION Spec
CONSTANTS
    Works = {w1, w2}
    LockTiers = {extract}
    Measurement = measurement
    Releases = {r1}
    ClaimIds = {c1, c2}
    Leases = {1, 2}
    MaxOpen = 2
    MaxTime = 2
INVARIANT
    Exclusion
SYMMETRY Symmetry
CHECK_DEADLOCK FALSE
