SPECIFICATION Spec
CONSTANTS
  i1 = i1
  i2 = i2
  i3 = i3
  Revisions = {"r1", "r2"}
  NoRevision = NoRevision
  MaxGeneration = 2
  Ids = {i1, i2, i3}
  NoArn = NoArn
  Contents = {"c1", "c2", "c3", "c4"}
  NoContent = NoContent
  InitialStacks <- OnlyAbsent
  EmptyReasons = {"noChanges"}
  FaultKinds = {"crash"}
  MaxFaults = 1
  Templates = {"t1", "t2"}
  Render <- Distinct
  UserSpecs <- LifecycleSpecs
  InitialSpecs <- FirstSpec
  UserActions = {"edit"}
  InitialSources <- RevisionSource
  SourceMoves <- BackAndForth
  MaxEdits = 2
SYMMETRY IdSymmetry
INVARIANTS
  TypeOK
  NoLostWakeup
  ReadyIsForGeneration
PROPERTIES
  ReadyMeansDeployed
  ExecutesWhatItRead
