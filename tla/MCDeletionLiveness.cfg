SPECIFICATION FairSpec
CONSTANTS
  Revisions = {"r1"}
  NoRevision = NoRevision
  MaxGeneration = 2
  Ids = {1, 2, 3}
  NoArn = NoArn
  Contents = {"c1", "c2"}
  NoContent = NoContent
  InitialStacks <- OnlyAbsent
  EmptyReasons = {"noChanges"}
  FaultKinds = {"api", "reply", "kube", "kubeReply", "crash", "stackDeletion", "stack"}
  MaxFaults = 1
  Templates = {"t1"}
  Render <- ByTemplate
  UserSpecs <- DeletionSpecs
  InitialSpecs <- DeletionSpecs
  UserActions = {"delete", "create"}
  InitialSources <- RevisionSource
  SourceMoves <- NoMoves
  MaxEdits = 2
PROPERTIES
  DeletionCompletes
  LooksAgain
  ReadyMeansDeployed
CHECK_DEADLOCK FALSE
