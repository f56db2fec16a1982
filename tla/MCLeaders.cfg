CONSTANTS
    Callers = {c1, c2}
    MaxInt64 = 3
    MaxAttempts = 2
    MaxHosts = 2
    Hosts = {h1, h2}
    Nowhere = Nowhere
    Shown = {a1}
    NotYet = NotYet
    Gone = Gone
    None = None
SYMMETRY Symmetry
SPECIFICATION LeadersSpec
INVARIANTS
    TypesOK
    EpochsIncrease
    OneHostPerWorkload
    
PROPERTIES
    ImplementsEpochs
    KeepsContract
    ProjectionOutlivesRun
    
