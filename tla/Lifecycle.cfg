CONSTANTS
  Clients = {c1, c2}
  Daemons = {d1, d2}
  NoOne = NoOne
  MaxCommands = 3
SPECIFICATION Spec
INVARIANTS TypeOK FilesLeadToOwner StoppedDaemonLetGo
SYMMETRY Symmetry
CHECK_DEADLOCK FALSE
