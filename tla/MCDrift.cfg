SPECIFICATION FairSpec
CONSTANTS
  Revisions = {"r1"}
  NoRevision = NoRevision
  MaxGeneration = 1
  Ids = {1, 2}
  NoArn = NoArn
  Contents = {"c1", "c2"}
  NoContent = NoContent
  InitialStacks <- OnlyAbsent
  EmptyReasons = {"noChanges"}
  FaultKinds = {"outOfBandUpdate"}
  MaxFaults = 1
  Templates = {"t1"}
  Render <- ByTemplate
  UserSpecs <- LifecycleSpecs
  InitialSpecs <- LifecycleSpecs
  UserActions = {}
  InitialSources <- RevisionSource
  SourceMoves <- NoMoves
  MaxEdits = 0
PROPERTIES
  Converges
