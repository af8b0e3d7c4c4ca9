SPECIFICATION Spec
CONSTANTS
    Works = {w1, w2}
    LockTiers = {extract}
    Measurement = measurement
    Releases = {rel}
    ClaimIds = {c1, c2, c3}
    Runs = {r1, r2}
    Tier = extract
    Release = rel
    Modes = {live}
    BatchSize = 1
    Limits = {2}
    Named <- AllOrNone
    Patched <- Together
    MaxFaults = 1
INVARIANTS
    TypeOK
    LeaseKept
    WritesAlone
    OncePerRun
    NewestSpeaks
PROPERTIES
    ImplementsWorkLease
CHECK_DEADLOCK FALSE
SYMMETRY Symmetry
VIEW View
