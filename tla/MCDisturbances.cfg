SPECIFICATION Spec
CONSTANTS
  i1 = i1
  i2 = i2
  i3 = i3
  Revisions = {"r1"}
  NoRevision = NoRevision
  MaxGeneration = 1
  Ids = {i1, i2, i3}
  NoArn = NoArn
  Contents = {"c1", "c2"}
  NoContent = NoContent
  InitialStacks <- ExistingStacks
  EmptyReasons = {"noChanges"}
  FaultKinds = {"api", "changeSet", "stack", "outOfBandUpdate", "outOfBandDelete", "source", "dependency"}
  MaxFaults = 2
  Templates = {"t1"}
  Render <- ByTemplate
  UserSpecs <- PlainSpecs
  InitialSpecs <- PlainSpecs
  UserActions = {}
  InitialSources <- AnySource
  SourceMoves <- Outage
  MaxEdits = 1
SYMMETRY IdSymmetry
PROPERTIES
  DeletesOnlyWithCause
  ImplementsLoop
