SPECIFICATION FairSpec
CONSTANTS
    r1 = r1
    r2 = r2
    g1 = g1
    g2 = g2
    t1 = t1
    t2 = t2
    Runs = {r1, r2}
    Screens = {g1, g2}
    Equivalent <- NewAcceptsOld
    Grandfathered = {g1}
    Texts = {t1, t2}
    Starts <- Before2
    MaxEvents = 2
INVARIANTS
    TypeOK
    OneScreen
PROPERTIES
    StaysDecided
    Sandboxed
    Screened
CHECK_DEADLOCK FALSE
