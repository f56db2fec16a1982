CONSTANTS
  Roles = {"server"}
  Clients = {k1}
  Names = {m1, m2}
  MaxRunRecords = 1
  MaxLines = 2
  MaxEdits = 1
  MaxFaults = 0
  None = None
SPECIFICATION FairSpec
PROPERTY ServerStops
