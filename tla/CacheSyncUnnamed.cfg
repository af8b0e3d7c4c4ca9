SPECIFICATION Spec
CONSTANTS
    m1 = m1
    m2 = m2
    e1 = e1
    e2 = e2
    e3 = e3
    e4 = e4
    p1 = p1
    p2 = p2
    Machines = {m1, m2}
    Entries = {e1, e2, e3, e4}
    Shards = {1, 2, 3}
    Parts = {p1, p2}
    ShardOf <- ThreeShards
    PartOf <- TwoParts
    Asked <- AllOrFirst
    Held <- TheRest
    Buys <- OwnBuys
    BatchSize = 1
    SaveEvery = 1
    MaxFaults = 0
PROPERTIES
    StaysNamed
CHECK_DEADLOCK FALSE
