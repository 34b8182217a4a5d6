SPECIFICATION Spec
CONSTANTS
  i1 = i1
  i2 = i2
  i3 = i3
  Revisions = {"r1", "r2"}
  NoRevision = NoRevision
  MaxGeneration = 1
  Ids = {i1, i2, i3}
  NoArn = NoArn
  Contents = {"c1", "c2"}
  NoContent = NoContent
  InitialStacks <- OnlyAbsent
  EmptyReasons = {"noChanges"}
  FaultKinds = {}
  MaxFaults = 0
  Templates = {"t1"}
  Render <- ByTemplateAndRevision
  UserSpecs <- LifecycleSpecs
  InitialSpecs <- LifecycleSpecs
  UserActions = {}
  InitialSources <- RevisionSource
  SourceMoves <- BackAndForth
  MaxEdits = 2
SYMMETRY IdSymmetry
PROPERTIES
  AppliedRevisionIsDeployed
