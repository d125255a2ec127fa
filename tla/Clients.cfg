SPECIFICATION FairSpec
CONSTANTS
  Projects = {p1}
  Files = {f1}
  FullScan = full_scan
  Priorities = {0, 1}
  MaxJobs = 4
  MaxClock = 0
  Modes = {"global", "project"}
  MaxChildren = 2
  d1 = d1
  e1 = e1
  u1 = u1
  u2 = u2
  Dirty = {d1}
  Enrich = {e1}
  UiClients = {u1, u2}
  Casts <- MCCasts
  Nobody = Nobody
  MaxStarts = 2
INVARIANTS TypeOK SilenceMeansScanned OneConfigUi
PROPERTIES LinesAreRead
CHECK_DEADLOCK FALSE
