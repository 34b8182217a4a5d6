SPECIFICATION FairSpec
CONSTANTS
  Revisions = {"r1", "r2"}
  NoRevision = NoRevision
  MaxGeneration = 1
  Ids = {1, 2}
  NoArn = NoArn
  Contents = {"c1", "c2"}
  NoContent = NoContent
  InitialStacks <- OnlyAbsent
  EmptyReasons = {"noChanges"}
  FaultKinds = {"api", "reply", "kube", "kubeReply", "crash"}
  MaxFaults = 1
  Templates = {"t1"}
  Render <- ByTemplateAndRevision
  UserSpecs <- LifecycleSpecs
  InitialSpecs <- LifecycleSpecs
  UserActions = {}
  InitialSources <- RevisionSource
  SourceMoves <- ForwardMoves
  MaxEdits = 1
PROPERTIES
  Converges
  ReportsReady
