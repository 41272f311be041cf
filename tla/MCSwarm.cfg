SPECIFICATION MCSpec
CONSTANTS
    Clients = {1, 2}
    Files = {fa, fb}
    Pieces = {1, 2}
    MaxThreads = 2
    Backlog = 1
    MaxDownloads = 2
INVARIANTS
    OnlyACircleStops
    TypeOK
    CompletedIsWhole
    OnlyTheRightPieces
PROPERTIES
    WorkRunsOut
    RemovedStaysAway
    KeptUntilFailure
    EverySeederIsTried
    OneWayEnds
ACTION_CONSTRAINT
    FirstOfOneFile
CHECK_DEADLOCK FALSE
