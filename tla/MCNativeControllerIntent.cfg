CONSTANTS
    Controllers = {c1}
    Kind <- ServerThenFinite
    Hosts = {h1}
    NoHost = NoHost
    MaxEpoch = 2
    MaxUid = 2
    MaxFaults = 1
SPECIFICATION Spec
INVARIANTS CreatedFromIntent
