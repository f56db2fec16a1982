CONSTANTS
    Controllers = {c1}
    Kind <- ServerThenFinite
    Hosts = {h1}
    NoHost = NoHost
    MaxEpoch = 3
    MaxUid = 2
    MaxFaults = 1
    Wheels = {w1}
    Files = {f1}
    Commits = {g1, g2, g3}
    Matching = {g1, g2}
    Clients = {k1}
    Names = {m1, m2}
    Followers = {r1}
    Requests = {q1, q2}
    Nodes = {n1}
    None = None
    Other = Other
SPECIFICATION NativeSpec
INVARIANTS
    TypesOK
    FiniteRunsOnce
    GoneMeansFinished
    PreparationSound
    StoppedMeansGone
    WrongModelNeverLoaded
    EndIsFaithful
    
    FollowersSeeEverything
    RestartKeepsToken
    
PROPERTIES
    KeepsContract
    ReleasesOwn
