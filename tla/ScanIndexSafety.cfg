CONSTANTS
  f = f
  g = g
  h = h
  a = a
  Scanners = {p, q}
  Files = {f, g, h}
  Parsable = {f, g}
  Contents = {a, unreadable}
  Unreadable = {unreadable}
  Absent = Absent
  NoScanner = NoScanner
  Requests <- MCRequests
  InitialDbs <- MCInitialDbs
  MaxScans = 2
  MaxEdits = 1
SYMMETRY Symmetric
SPECIFICATION Spec
INVARIANTS TypeOK NoLostUpdate
PROPERTIES ScanConverges BackedUpBeforeRemoval
CHECK_DEADLOCK FALSE
