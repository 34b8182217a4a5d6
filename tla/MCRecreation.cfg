SPECIFICATION Spec
CONSTANTS
  i1 = i1
  i2 = i2
  i3 = i3
  Revisions = {"r1"}
  NoRevision = NoRevision
  MaxGeneration = 2
  Ids = {i1, i2, i3}
  NoArn = NoArn
  Contents = {"c1", "c2"}
  NoContent = NoContent
  InitialStacks <- OnlyAbsent
  EmptyReasons = {"noChanges"}
  FaultKinds = {}
  MaxFaults = 0
  Templates = {"t1", "t2"}
  Render <- ByTemplate
  UserSpecs <- KeepStackSpecs
  InitialSpecs <- KeepStackSpecs
  UserActions = {"delete", "create"}
  InitialSources <- RevisionSource
  SourceMoves <- NoMoves
  MaxEdits = 2
SYMMETRY IdSymmetry
PROPERTIES
  ExecutesWhatItRead
CHECK_DEADLOCK FALSE
