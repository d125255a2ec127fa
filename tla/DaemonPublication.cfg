CONSTANTS
  Projects = {p1}
  Files = {f1}
  FullScan = FullScan
  Priorities = {0}
  MaxJobs = 3
  MaxClock = 0
  MaxRestarts = 3
SPECIFICATION TrackSpec
INVARIANT PublicationSchedulesFullScans
CHECK_DEADLOCK FALSE
