CONSTANTS
  Projects = {p1}
  Files = {f1, f2}
  FullScan = FullScan
  Priorities = {0}
  MaxJobs = 3
  MaxClock = 0
  MaxRestarts = 2
SPECIFICATION TrackSpec
INVARIANTS TypeOK SchemaHolds SupersededIsCovered SlotMatchesTable SlotIsReleased NoEditLost
PROPERTIES TerminalIsFinal CancelWins SupersededByPending ImplementsContract
SYMMETRY Symmetry
CHECK_DEADLOCK FALSE
