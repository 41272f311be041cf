SPECIFICATION MCSpec
CONSTANTS
    Clients = {1, 2}
    Files = {fa, fb}
    Pieces = {1}
    MaxThreads = 1
    Backlog = 1
    MaxDownloads = 2
PROPERTIES
    RequestsEnd
ACTION_CONSTRAINT
    FirstOfOneFile
CHECK_DEADLOCK FALSE
