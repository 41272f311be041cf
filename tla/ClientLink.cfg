SPECIFICATION Spec
CONSTANTS
    MaxCommands = 4
    MaxBreaks = 1
INVARIANTS
    TypeOK
    RepliesInStep
    BeliefHasSession
    NeverBothWait
PROPERTIES
    AnsweredAlone
CHECK_DEADLOCK FALSE
