SPECIFICATION Spec
CONSTANTS
    MaxCommands = 3
    MaxBreaks = 0
PROPERTIES
    AnsweredDuringDownload
CHECK_DEADLOCK FALSE
