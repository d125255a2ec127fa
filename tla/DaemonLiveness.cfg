CONSTANTS
  Projects = {p1}
  Files = {f1}
  FullScan = FullScan
  Priorities = {0, 1}
  MaxJobs = 2
  MaxClock = 1
  MaxRestarts = 3
SPECIFICATION TrackFairSpec
INVARIANT NoEditLost
PROPERTIES PendingIsServedInTurn ExecutingEnds
CHECK_DEADLOCK FALSE
