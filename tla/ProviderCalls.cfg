SPECIFICATION Spec
CONSTANTS
    p1 = p1
    t1 = t1
    t2 = t2
    Processes = {p1}
    Threads = {t1, t2}
    Of <- OneProcess
    Keys = 2
    Retries = 1
    Attempts = 2
    GeminiKeys = 2
    Patience = 1
    Resends = 1
    Caps = {"tokens", "dollars"}
    Budget = 1
    MaxCalls = 3
    MaxFaults = 1
INVARIANTS
    TypeOK
    KeysInTurn
    Counted
    Overshoot
    ChargesBounded
PROPERTIES
    CallsEnd
CHECK_DEADLOCK FALSE
