CONSTANTS
    Kind <- BatchThenServer
    MaxRuns = 2
    MaxFaults = 1
    CreateInOrder = FALSE
    None = None
    Other = Other
SPECIFICATION HostSpec
INVARIANTS
    TypesOK
    
    
    NoUnrecordedService
PROPERTIES
    SucceededOnce
    KeepsContract
