SPECIFICATION FairSpec
CONSTANTS
  Objects <- Trio
  Sources <- ThreeSources
  UnknownKeys = {}
  UserSpecs <- TrioSpecs
  NoSpec = NoSpec
  UserWrites <- Writes
  InitialSpecs <- Situations
  Revisions = {"r1", "r2"}
  NoRevision = NoRevision
  Missing = Missing
  InitialSources <- AtFirst
  SourceMoves <- Moves
  Broken <- BrokenB
  Default = ""
  NoCrossNamespaceRef = FALSE
  Workers = 1
  MaxGeneration = 2
  MaxEvents = 1
INVARIANTS
  EntangledNeverStart
  NobodyIsForgotten
PROPERTIES
  DependenciesGoFirst
  ReadersHear
  EachHasItsLoop
  OthersConverge
