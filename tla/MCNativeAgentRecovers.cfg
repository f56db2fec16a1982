CONSTANTS
    Kind <- OneBatch
    MaxRuns = 1
    MaxFaults = 3
    CreateInOrder = TRUE
SPECIFICATION WatchdogSpec
PROPERTIES
    LeaseFences
    StopSurvivesFaults
