CONSTANTS
  Files = {1, 2, 3}
  Symbols = {1, 2}
  Names = {"m", "C.m"}
  AnswersTo <- MCAnswersTo
  Modules = {"both", "two", "os"}
  Stdlib = {"os"}
  Matches <- MCMatches
  LanguageOf <- OneC
  ScoreSameFile = 2
  ScoreDirectImport = 1
  ScoreGlobal = 0
  FanoutCap = 2
  Contents <- MCContents
  Group <- TwoGroups
  SubGroup <- TwoGroups
  SynthFanoutCap = 1
  MinSymbols = 1
  CohesionPct = 100
  DensityPct = 50
  MaxSize = 2
  EntryCount = 1
  MaxEdited = 2
SPECIFICATION Spec
INVARIANTS TypeOK ResolutionIsGlobal KindsAreGlobal ClusterMembersAreGlobal
