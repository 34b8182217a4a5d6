SPECIFICATION Spec
CONSTANTS
  i1 = i1
  i2 = i2
  i3 = i3
  Revisions = {"r1", "r2"}
  NoRevision = NoRevision
  MaxGeneration = 1
  Ids = {i1, i2, i3}
  NoArn = NoArn
  Contents = {"c1", "c2"}
  NoContent = NoContent
  InitialStacks <- RollbackFailed
  EmptyReasons = {"noChanges"}
  FaultKinds = {}
  MaxFaults = 0
  Templates = {"t1"}
  Render <- ByTemplateAndRevision
  UserSpecs <- PlainSpecs
  InitialSpecs <- PlainSpecs
  UserActions = {}
  InitialSources <- RevisionSource
  SourceMoves <- NoMoves
  MaxEdits = 0
SYMMETRY IdSymmetry
INVARIANTS
  NeverPanics
