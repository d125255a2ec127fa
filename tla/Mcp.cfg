SPECIFICATION Spec
CONSTANTS
  FIELDS <- MCFIELDS
  Layers <- MCLayers
  Dirs = 1
  Symbols <- MCSymbols
  Files <- MCFiles
  FileOf <- MCFileOf
  Names <- MCNames
  Named <- MCNamed
  Hinted = {"gd"}
  CallRows <- MCCallRows
  ImportRows <- MCImportRows
  Questions <- MCQuestions
  CHUNK = 1
  MaxCommits = 1
  Sessions = {"graph", "navigate", "facts", "nothing"}
  MaxDuring = 2
  StartCalls <- MCStartCalls
  StartImports <- MCStartImports
  SymbolNodes = {"s"}
  FileNodes = {"p"}
  ClusterNodes = {"k"}
  Owner <- MCOwner
  Bodies = {"t1", "t2"}
  Signature <- MCSignature
  Texts = {"t1", "t2"}
  Statuses = {"ok", "pending"}
  Relevant = {"t1"}
  Alike <- MCAlike
  Quota = 1
  Callers = {n1, n2}
  MaxVersions = 3
  MaxWrites = 4
SYMMETRY CallerSymmetry
INVARIANTS WalkMatchesIndex FlowIsShortest ProjectionIsCurrent SummaryIsOfThisCode CachedRankingSawSameTexts
CHECK_DEADLOCK FALSE
