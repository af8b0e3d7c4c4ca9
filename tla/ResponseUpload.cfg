SPECIFICATION FairSpec
CONSTANTS
    v1 = v1
    v2 = v2
    v3 = v3
    b1 = b1
    b2 = b2
    Verdicts = {v1, v2, v3}
    Blobs = {b1, b2}
    Blob <- SharedBlob
    BatchSize = 2
    MaxFaults = 2
INVARIANTS
    TypeOK
    UploadedMeansOnHub
    NothingForgotten
PROPERTIES
    AllPushed
CHECK_DEADLOCK FALSE
