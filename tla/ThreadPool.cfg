SPECIFICATION Spec
CONSTANTS
    MaxThreads = 3
    Assigners = {listener, download}
    Joiners = {download}
    NoThread = NoThread
    MaxNotices = 2
INVARIANTS
    TypeOK
    SlotAccounting
    LoneAssignerSurvives
    WakeUpsCoverFreeSlots
PROPERTIES
    RefinesCounter
    NoLostWakeup
CHECK_DEADLOCK FALSE
