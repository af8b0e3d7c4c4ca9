SPECIFICATION Spec
CONSTANTS
    Works = {w1, w2}
    LockTiers = {screen}
    Measurement = measurement
    Releases = {r1, r2}
    ClaimIds = {c1, c2, c3, c4, c5}
    Runners = {n1, n2}
    Tier = screen
    Offers <- WholePile
    TTL = 1
    Workers = 2
    Attempts = 2
    MaxFaults = 1
INVARIANTS
    TypeOK
    CompleteMeansAnswered
    NoConcurrentSpend
    BoundedRebuy
PROPERTIES
    ImplementsWorkLease
SYMMETRY Symmetry
