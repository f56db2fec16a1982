CONSTANTS
    Agents = {a1, a2}
    Execs = {e1, e2}
    Plans = {n1, n2}
    Pids = {p1, p2}
    Exits = {ok, failed}
    Twins = {x1, x2}
    Twins2 = {y1, y2}
    OneLink = {l1}
    OneName = {m1}
    Absent = Absent
    Other = Other
    None = None
SYMMETRY Symmetry
SPECIFICATION MachineSpec
INVARIANTS
    TypesOK
    Durable
    WorkerNothingForgotten
    
    
    DeviceExclusive
PROPERTIES
    ImplementsJournal
    DeletesInOrder
