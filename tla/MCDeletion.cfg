SPECIFICATION Spec
CONSTANTS
  i1 = i1
  Revisions = {"r1"}
  NoRevision = NoRevision
  MaxGeneration = 4
  Ids = {i1}
  NoArn = NoArn
  Contents = {"c1", "c2"}
  NoContent = NoContent
  InitialStacks <- ExistingStacks
  EmptyReasons = {"noChanges"}
  FaultKinds = {"api", "reply", "kube", "kubeReply", "crash", "stackDeletion"}
  MaxFaults = 2
  Templates = {"t1"}
  Render <- ByTemplate
  UserSpecs <- DeletionSpecs
  InitialSpecs <- DeletionSpecs
  UserActions = {"edit", "delete", "create"}
  InitialSources <- NoSource
  SourceMoves <- NoMoves
  MaxEdits = 3
SYMMETRY IdSymmetry
INVARIANTS
  ControlInv
PROPERTIES
  FinalizerGuardsStack
  DeletesOnlyWithCause
  ImplementsLoop
CHECK_DEADLOCK FALSE
