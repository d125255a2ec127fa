CONSTANTS
  Clients = {c1}
  Daemons = {d1}
  NoOne = NoOne
  MaxCommands = 1
SPECIFICATION Spec
PROPERTY AwaitedDaemonIsLetIn
CHECK_DEADLOCK FALSE
