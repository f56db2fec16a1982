CONSTANTS
    Kind <- OneServer
    MaxRuns = 1
    MaxFaults = 1
    CreateInOrder = TRUE
SPECIFICATION Spec
INVARIANTS
    AckProvesStopped
