CONSTANTS
    Controllers = {c1}
    Kind <- ServerThenFinite
    Hosts = {h1}
    NoHost = NoHost
    MaxEpoch = 2
    MaxUid = 2
    MaxFaults = 0
    Clients = {k1}
    Names = {m1, m2}
    None = None
SPECIFICATION ProgressSpec
PROPERTIES
    WorkloadDeleted
    RuntimeStops
