CONSTANTS
    Controllers = {c1}
    Kind <- OneFinite
    Hosts = {h1}
    NoHost = NoHost
    MaxEpoch = 1
    MaxUid = 1
    MaxFaults = 0
SPECIFICATION FairSpec
PROPERTIES DeletionCompletes
