SPECIFICATION Spec
CONSTANTS
    Works = {w1}
    LockTiers = {screen}
    Measurement = measurement
    Releases = {r1}
    ClaimIds = {c1, c2, c3, c4}
    Runners = {n1, n2}
    Tier = screen
    Offers <- WholePile
    TTL = 3
    Workers = 1
    Attempts = 2
    MaxFaults = 0
PROPERTIES
    NoRebuy
