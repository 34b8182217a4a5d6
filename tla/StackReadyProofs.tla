--------------------------- MODULE StackReadyProofs ---------------------------
(***************************************************************************)
(* Why a Ready condition that names the object's generation can be relied  *)
(* on: no patch can bring back the condition of an older copy under the    *)
(* object's own generation, and no older copy is worked on any more.       *)
(***************************************************************************)
EXTENDS StackDeploymentProofs

-----------------------------------------------------------------------------
(* What else is true of the service.                                        *)

Executing(a) == css[a].execution = "EXECUTE_IN_PROGRESS"

\* Where there is no stack nothing is deployed; a change set that is gone has left
\* nothing; what is executed shows in the stack's status.
StackTells ==
  /\ StackNotFound(stack.status) => stack.content = NoContent
  /\ \A a \in Arns : Executing(a) =>
       /\ Live(a)
       /\ stack.status \in {"CREATE_IN_PROGRESS", "UPDATE_IN_PROGRESS", "DELETE_IN_PROGRESS"}

\* What a deployment decides on stays: the stack can take a change set, and it is not
\* for an object being deleted.
TakesSets(st) == StackNotFound(st) \/ StackIsSuccess(st) \/ IsRecoverableFailure(st)

Deploys == {"observe", "source", "describeStack", "continueRollback", "panic", "cleanup",
            "describeChangeSet", "upload", "create", "deleteEmpty", "deleteFailed", "execute"}

DeploymentTells ==
  /\ pc \in {"describeChangeSet", "deleteEmpty"} => TakesSets(stack.status)
  /\ pc \in Deploys => ~cfnObj.deleting

\* A generation of the object is being deleted in every copy, or in none.
SameDeletion(o) == Exists(obj) /\ o.gen = obj.gen => o.deleting = obj.deleting

DeletionTells == SameDeletion(cachedObj) /\ SameDeletion(cfnObj)

\* The cache shows an older generation, and already with its finalizer: reconciles
\* will read that one.
Unread == Exists(obj) /\ cachedObj.finalizer /\ cachedObj.gen < obj.gen

AtWork == pc \notin {"idle", "down", "addFinalizer"}

\* The response to the finalizer's patch is the only way past the cache.  Whoever
\* comes that way to a generation the cache does not show is the first there.
FirstReader ==
  Unread /\ (pc = "addFinalizer" \/ (AtWork /\ cfnObj.gen = obj.gen)) =>
    IF pc = "patchStatus" THEN cfnStatus.ready # "True"
    ELSE pc # "deleteEmpty" /\ \A a \in Arns : Live(a) => a.name.generation # obj.gen

-----------------------------------------------------------------------------
(* What a Ready condition means.                                            *)

\* A stack that was deployed and that only updates have touched since.
Established ==
  \/ StackIsSuccess(stack.status) \/ IsRecoverableFailure(stack.status)
  \/ stack.status \in {"UPDATE_IN_PROGRESS", "UPDATE_ROLLBACK_IN_PROGRESS",
                       "UPDATE_ROLLBACK_FAILED"}

\* The stack holds what the object's generation renders to, and nobody is left who
\* could put anything else there.
Settled ==
  /\ Established /\ ~obj.deleting /\ ~Unread
  /\ \E r \in Revisions : stack.content = Render[<<obj.spec.template, r>>]
  /\ \A a \in Arns : Executing(a) => a.name.generation = obj.gen

SaidReady == status.ready = "True" /\ status.readyGeneration = obj.gen

SaysReady ==
  pc = "patchStatus" /\ cfnStatus.ready = "True" /\ cfnStatus.readyGeneration = obj.gen

ReadyInv ==
  /\ status.readyGeneration <= obj.gen
  /\ pc = "patchStatus" => cfnStatus.readyGeneration = cfnObj.gen
  /\ Exists(obj) /\ (SaidReady \/ SaysReady) => Settled
  /\ Exists(obj) /\ SaidReady /\ AtWork => cfnObj.gen = obj.gen

ReadinessInv == StackTells /\ DeploymentTells /\ DeletionTells /\ FirstReader /\ ReadyInv

-----------------------------------------------------------------------------
(* The service.                                                             *)

\* No step of the reconciler but one starts an execution.
LEMMA ReconcileKeepsTelling ==
  ASSUME TypeInv, StackTells, NameInv, StartReconcile \/ ReconcileStep
  PROVE  StackTells'
<1>1. css \in [Arns -> Descriptions] /\ stack \in Stacks
  BY SetsAreDescribed
<1>2. UNCHANGED service => StackTells'
  BY DEF service, StackTells, Executing, Live
<1>3. CASE CreateChangeSet /\ ~UNCHANGED service
  <2>1. PICK arn \in Arns : \E content :
          /\ CreateAccepted(arn, clientStack.isCreate)
          /\ CreateChangeSetCall(arn, content, clientStack.isCreate)
    BY <1>3 DEF CreateChangeSet, NewArns, Call
  <2>2. \A a \in Arns : Executing(a)' => Executing(a) /\ css'[a] = css[a]
    BY <1>1, <2>1 DEF CreateChangeSetCall, Executing
  <2>3. CASE clientStack.isCreate
    <3>1. /\ StackNotFound(stack.status) /\ stack'.content = stack.content
          /\ \A a \in Arns : ~Executing(a)
      BY <1>1, <2>1, <2>3 DEF CreateAccepted, CreateChangeSetCall, Stacks, StackNotFound, StackTells
    <3>2. QED
      BY <2>2, <3>1 DEF StackTells
  <2>4. CASE ~clientStack.isCreate
    BY <2>1, <2>2, <2>4 DEF CreateChangeSetCall, StackTells, Live
  <2>5. QED
    BY <2>3, <2>4
<1>4. CASE ExecuteChangeSet /\ ~UNCHANGED service
  <2>1. /\ clientStack.arn \in Arns
        /\ ExecuteAccepted(clientStack.arn) /\ ExecuteChangeSetCall(clientStack.arn)
    BY <1>4 DEF ExecuteChangeSet, Call, At, NameInv, ArnIsWanted
  <2>2. stack'.status \in {"CREATE_IN_PROGRESS", "UPDATE_IN_PROGRESS"}
    BY <1>1, <2>1 DEF ExecuteChangeSetCall, Stacks
  <2>3. css'[clientStack.arn].status = "CREATE_COMPLETE"
    BY <1>1, <2>1 DEF ExecuteAccepted, ExecuteChangeSetCall, ReadyForExecution, IsCreated,
                      Descriptions
  <2>4. \A a \in Arns \ {clientStack.arn} : ~Executing(a)'
    BY <2>1 DEF ExecuteChangeSetCall, Executing, Deleted
  <2>5. QED
    BY <2>2, <2>3, <2>4 DEF StackTells, StackNotFound, Live
<1>5. CASE (DeleteEmptyChangeSet \/ DeleteFailedChangeSet) /\ ~UNCHANGED service
  <2>1. clientStack.arn \in Arns /\ DeleteChangeSetCall(clientStack.arn)
    BY <1>5 DEF DeleteEmptyChangeSet, DeleteFailedChangeSet, Call, At, NameInv, ArnIsWanted
  <2>2. \A a \in Arns : /\ Executing(a)' => Executing(a)
                        /\ Live(a) => Live(a)'
    BY <1>1, <2>1 DEF DeleteChangeSetCall, Executing, Live, Descriptions
  <2>3. QED
    BY <2>1, <2>2 DEF DeleteChangeSetCall, StackTells
<1>6. CASE (CleanupStack \/ DeleteStack) /\ ~UNCHANGED service
  <2>1. UNCHANGED css /\ stack'.content = stack.content
        /\ \/ stack'.status = "DELETE_IN_PROGRESS"
           \/ stack.status = "DELETE_COMPLETE" /\ stack'.status = "DELETE_COMPLETE"
    BY <1>1, <1>6 DEF CleanupStack, DeleteStack, Call, DeleteStackCall, Stacks
  <2>2. QED
    BY <2>1 DEF StackTells, StackNotFound, Executing, Live
<1>7. CASE ContinueRollback /\ ~UNCHANGED service
  <2>1. UNCHANGED css /\ stack.status = "UPDATE_ROLLBACK_FAILED"
        /\ stack'.status = "UPDATE_ROLLBACK_IN_PROGRESS"
    BY <1>1, <1>7
       DEF ContinueRollback, Call, ContinueRollbackAccepted, RequiresRollbackContinuation,
           ContinueRollbackCall, Stacks
  <2>2. QED
    BY <2>1 DEF StackTells, StackNotFound, Executing, Live
<1>8. CASE \/ StartReconcile \/ AddFinalizer \/ ObserveGeneration \/ ReconcileSource
           \/ DescribeStack \/ RecoverPanic \/ DescribeChangeSet \/ UploadTemplate
           \/ DescribeStackForDelete \/ RemoveFinalizer \/ PatchStatus
  BY <1>2, <1>8
     DEF StartReconcile, AddFinalizer, ObserveGeneration, ReconcileSource, DescribeStack,
         RecoverPanic, DescribeChangeSet, UploadTemplate, DescribeStackForDelete,
         RemoveFinalizer, PatchStatus
<1>9. QED
  BY <1>2, <1>3, <1>4, <1>5, <1>6, <1>7, <1>8 DEF ReconcileStep

\* The service makes and removes change sets on its own, and executes none of them.
ChangeSetsMove ==
  ChangeSetCreated \/ ChangeSetCreationFails \/ ChangeSetDeleted \/ ChangeSetDeletionFails

LEMMA MovesStartNothing ==
  ASSUME TypeInv, ChangeSetsMove
  PROVE  /\ UNCHANGED stack
         /\ \A a \in Arns : Executing(a)' => Executing(a) /\ (Live(a) => Live(a)')
<1>1. UNCHANGED stack
  BY DEF ChangeSetsMove, ChangeSetCreated, ChangeSetCreationFails, ChangeSetDeleted,
         ChangeSetDeletionFails
<1>2. PICK a \in Arns :
        \/ css' = [css EXCEPT ![a].status = "CREATE_COMPLETE", ![a].execution = "AVAILABLE"]
        \/ \E reason : css' = [css EXCEPT ![a].status = "FAILED", ![a].reason = reason]
        \/ css' = [css EXCEPT ![a] = Deleted]
        \/ css' = [css EXCEPT ![a].status = "DELETE_FAILED"]
  BY DEF ChangeSetsMove, ChangeSetCreated, ChangeSetCreationFails, ChangeSetDeleted,
         ChangeSetDeletionFails
<1>3. css \in [Arns -> Descriptions]
  BY SetsAreDescribed
<1>4. /\ \A b \in Arns \ {a} : css'[b] = css[b]
      /\ \/ css'[a].status \in {"FAILED", "DELETE_FAILED"}
            /\ css'[a].execution = css[a].execution
         \/ css'[a].execution \in {"AVAILABLE", "UNAVAILABLE"}
  BY <1>2, <1>3 DEF Descriptions, Deleted
<1>5. QED
  BY <1>1, <1>4 DEF Executing, Live

LEMMA AwsKeepsTelling ==
  ASSUME TypeInv, StackTells, Aws, NobodyElse
  PROVE  StackTells'
<1>1. css \in [Arns -> Descriptions] /\ stack \in Stacks
  BY SetsAreDescribed
<1>2. CASE ChangeSetsMove
  <2>1. /\ UNCHANGED stack
        /\ \A a \in Arns : Executing(a)' => Executing(a) /\ (Live(a) => Live(a)')
    BY <1>2, MovesStartNothing
  <2>2. QED
    BY <2>1 DEF StackTells
<1>3. CASE StackActionFails
  <2>1. \A a \in Arns : ~Executing(a)'
    BY <1>1, <1>3 DEF StackActionFails, Executed, Executing, Descriptions
  <2>2. ~StackNotFound(stack'.status)
    BY <1>1, <1>3 DEF StackActionFails, FailsTo, Stacks, StackNotFound
  <2>3. QED
    BY <2>1, <2>2 DEF StackTells
<1>4. CASE StackActionSucceeds
  <2>1. CASE stack.status \in {"CREATE_IN_PROGRESS", "UPDATE_IN_PROGRESS"}
    <3>1. stack'.status \in {"CREATE_COMPLETE", "UPDATE_COMPLETE"}
          /\ css' = Executed("EXECUTE_COMPLETE")
      BY <1>4, <2>1 DEF StackActionSucceeds
    <3>2. \A a \in Arns : ~Executing(a)'
      BY <1>1, <3>1 DEF Executed, Executing, Descriptions
    <3>3. QED
      BY <3>1, <3>2 DEF StackTells, StackNotFound
  <2>2. CASE stack.status \in {"ROLLBACK_IN_PROGRESS", "UPDATE_ROLLBACK_IN_PROGRESS"}
    <3>1. /\ UNCHANGED css
          /\ stack'.status \in {"ROLLBACK_COMPLETE", "UPDATE_ROLLBACK_COMPLETE"}
      BY <1>1, <1>4, <2>2 DEF StackActionSucceeds, Stacks
    <3>2. QED
      BY <2>2, <3>1 DEF StackTells, StackNotFound, Executing, Live
  <2>3. CASE stack.status = "DELETE_IN_PROGRESS"
    <3>1. stack'.content = NoContent /\ \A a \in Arns : ~Executing(a)'
      BY <1>4, <2>3 DEF StackActionSucceeds, Executing, Deleted
    <3>2. QED
      BY <3>1 DEF StackTells
  <2>4. QED
    BY <1>4, <2>1, <2>2, <2>3 DEF StackActionSucceeds
<1>5. ~OutOfBandUpdate /\ ~OutOfBandDelete
  BY DEF OutOfBandUpdate, OutOfBandDelete, Fault, NobodyElse
<1>6. QED
  BY <1>2, <1>3, <1>4, <1>5 DEF Aws, AwsStep, ChangeSetsMove

-----------------------------------------------------------------------------
(* What a deployment decides on.                                            *)

LEMMA ReconcileKeepsDeployment ==
  ASSUME TypeInv, DeploymentTells, StartReconcile \/ ReconcileStep
  PROVE  DeploymentTells'
<1>1. pc' \in {"describeChangeSet", "deleteEmpty"} => TakesSets(stack'.status)
  <2>1. CASE pc' = "describeChangeSet"
    <3>1. StackVerdict(stack.status) \in {"create", "update"} /\ UNCHANGED stack
      BY <2>1, ReconcileComesFrom
         DEF DescribeStack, ApiCallFails, Report, Goto, service
    <3>2. QED
      BY <3>1 DEF StackVerdict, TakesSets
  <2>2. CASE pc' = "deleteEmpty"
    <3>1. pc = "describeChangeSet" /\ UNCHANGED stack
      BY <2>2, ReconcileComesFrom DEF DescribeChangeSet, service, At
    <3>2. QED
      BY <3>1 DEF DeploymentTells
  <2>3. QED
    BY <2>1, <2>2
<1>2. pc' \in Deploys => ~cfnObj'.deleting
  <2>1. \A s, wait : Report(s, wait) => pc' \notin Deploys
    BY DEF Report, Deploys
  <2>2. ApiCallFails => pc' \notin Deploys
    BY DEF ApiCallFails, Report, Deploys
  <2>3. ReturnError \/ ReturnNothing \/ ReturnAfter(result) => pc' \notin Deploys
    BY DEF ReturnError, ReturnNothing, ReturnAfter, Deploys
  <2>4. \A o \in Objects, s \in Statuses : AfterFinalizer(o, s) \in Deploys => ~o.deleting
    BY DEF AfterFinalizer, Objects, Specs, Deploys
  <2>5. CASE StartReconcile
    <3>1. cachedObj \in Objects /\ cachedStatus \in Statuses
      BY DEF TypeInv, TypeOK, CacheTypeOK
    <3>2. QED
      BY <2>4, <2>5, <3>1 DEF StartReconcile, Deploys
  <2>6. CASE AddFinalizer
    <3>1. [obj EXCEPT !.finalizer = TRUE] \in Objects /\ status \in Statuses
      BY DEF TypeInv, TypeOK, ServerTypeOK, Objects
    <3>2. QED
      BY <2>3, <2>4, <2>6, <3>1 DEF AddFinalizer, Deploys
  <2>7. CASE PatchStatus \/ RemoveFinalizer \/ RecoverPanic
    BY <2>3, <2>7 DEF PatchStatus, PatchCall, RemoveFinalizer, RecoverPanic
  <2>8. CASE DescribeStackForDelete \/ DeleteStack
    BY <2>1, <2>2, <2>8 DEF DescribeStackForDelete, DeleteStack, Call, Goto, Deploys
  <2>9. CASE \/ ObserveGeneration \/ ReconcileSource \/ DescribeStack \/ ContinueRollback
             \/ CleanupStack \/ DescribeChangeSet \/ UploadTemplate \/ CreateChangeSet
             \/ DeleteEmptyChangeSet \/ DeleteFailedChangeSet \/ ExecuteChangeSet
    <3>1. pc \in Deploys
      BY <2>9 DEF ObserveGeneration, ReconcileSource, DescribeStack, ContinueRollback,
                  CleanupStack, DescribeChangeSet, UploadTemplate, CreateChangeSet,
                  DeleteEmptyChangeSet, DeleteFailedChangeSet, ExecuteChangeSet, At, Deploys
    <3>2. UNCHANGED cfnObj
      BY <2>9 DEF ObserveGeneration, PatchCall, ReconcileSource, SourceMissing, SourceFails,
                  DependencyNotReady, BuildClientStack, DescribeStack, ContinueRollback,
                  CleanupStack, DescribeChangeSet, UploadTemplate, CreateChangeSet,
                  DeleteEmptyChangeSet, DeleteFailedChangeSet, ExecuteChangeSet, Call, Goto,
                  Report, ApiCallFails
    <3>3. QED
      BY <3>1, <3>2 DEF DeploymentTells
  <2>10. QED
    BY <2>5, <2>6, <2>7, <2>8, <2>9 DEF ReconcileStep
<1>3. QED
  BY <1>1, <1>2 DEF DeploymentTells

\* A stack that can take a change set stays as it is.
LEMMA AwsLeavesStill ==
  ASSUME TypeInv, Aws, NobodyElse, TakesSets(stack.status)
  PROVE  UNCHANGED stack
<1>1. ~OutOfBandUpdate /\ ~OutOfBandDelete
  BY DEF OutOfBandUpdate, OutOfBandDelete, Fault, NobodyElse
<1>2. ~StackActionSucceeds /\ ~StackActionFails
  BY DEF StackActionSucceeds, StackActionFails, FailsTo, TakesSets, StackNotFound,
         StackIsSuccess, SuccessfulDeploymentStackStatuses, IsRecoverableFailure,
         RecoverableFailureStackStatuses
<1>3. QED
  BY <1>1, <1>2
     DEF Aws, AwsStep, ChangeSetCreated, ChangeSetCreationFails, ChangeSetDeleted,
         ChangeSetDeletionFails

LEMMA SurroundingsKeepDeployment ==
  ASSUME TypeInv, DeploymentTells, NobodyElse,
         \/ TimerFires \/ CacheSync \/ Restart \/ Users \/ Aws \/ Crash \/ UNCHANGED vars
  PROVE  DeploymentTells'
<1>1. UNCHANGED <<pc, cfnObj>> \/ pc' \in {"idle", "down"}
  BY DEF TimerFires, CacheSync, Restart, Users, EditSpec, DeleteObject, CreateObject,
         SourceChanges, Crash, Overtaken, Aws, AwsStep, local, vars
<1>2. TakesSets(stack.status) => UNCHANGED stack
  BY AwsLeavesStill
     DEF TimerFires, CacheSync, Restart, Users, EditSpec, DeleteObject, CreateObject,
         SourceChanges, Crash, service, vars
<1>3. QED
  BY <1>1, <1>2 DEF DeploymentTells, Deploys

-----------------------------------------------------------------------------
(* Copies of the object, and what is said of them.                          *)

\* The ways a reconcile comes by its copy: it keeps it, drops it, reads the cache, or
\* is handed the object when it adds the finalizer.
CopyMoves ==
  \/ cfnObj' = cfnObj /\ AtWork /\ AtWork'
  \/ cfnObj' = NoObject /\ pc' = "idle"
  \/ cfnObj' = cachedObj /\ ~cachedObj.finalizer /\ pc' = "addFinalizer"
  \/ cfnObj' = cachedObj /\ cachedObj.finalizer /\ pc' \in Outcomes
  \/ cfnObj' = obj' /\ pc = "addFinalizer" /\ pc' \in Outcomes

\* The object stays what it is to a reconcile, or goes.
ObjectStays ==
  \/ obj'.gen = obj.gen /\ obj'.spec = obj.spec /\ obj'.deleting = obj.deleting
  \/ obj' = NoObject /\ status' = EmptyStatus

LEMMA ReconcileMovesCopies ==
  ASSUME TypeInv, StartReconcile \/ ReconcileStep
  PROVE  UNCHANGED cachedObj /\ ObjectStays /\ CopyMoves
<1>1. \A s, wait : Report(s, wait) => UNCHANGED cfnObj /\ pc' = "patchStatus"
  BY DEF Report
<1>2. ApiCallFails => UNCHANGED cfnObj /\ pc' = "patchStatus"
  BY DEF ApiCallFails, Report
<1>3. ReturnError \/ ReturnNothing \/ ReturnAfter(result) => cfnObj' = NoObject /\ pc' = "idle"
  BY DEF ReturnError, ReturnNothing, ReturnAfter, ForgetLocals
<1>4. \A o \in Objects, s \in Statuses : AfterFinalizer(o, s) \in Outcomes
  BY FinalizerDecides
<1>5. CASE StartReconcile
  <2>1. cachedObj \in Objects /\ cachedStatus \in Statuses
    BY DEF TypeInv, TypeOK, CacheTypeOK
  <2>2. UNCHANGED <<cachedObj, obj>>
    BY <1>5 DEF StartReconcile, server, cache
  <2>3. CopyMoves
    BY <1>4, <1>5, <2>1 DEF StartReconcile, ForgetLocals, CopyMoves
  <2>4. QED
    BY <2>2, <2>3 DEF ObjectStays
<1>6. CASE AddFinalizer
  <2>1. obj' = obj \/ obj' = [obj EXCEPT !.finalizer = TRUE]
    BY <1>6 DEF AddFinalizer, server
  <2>2. obj' \in Objects /\ status \in Statuses
    BY <2>1 DEF TypeInv, TypeOK, ServerTypeOK, Objects
  <2>3. ObjectStays
    BY <2>1 DEF ObjectStays, TypeInv, TypeOK, ServerTypeOK, Objects
  <2>4. UNCHANGED cachedObj
    BY <1>6 DEF AddFinalizer, CacheUnsynced, cache
  <2>5. CopyMoves
    BY <1>3, <1>4, <1>6, <2>2 DEF AddFinalizer, ForgetLocals, CopyMoves, At
  <2>6. QED
    BY <2>3, <2>4, <2>5
<1>7. CASE ObserveGeneration \/ PatchStatus
  <2>1. UNCHANGED <<obj, cachedObj>>
    BY <1>7 DEF ObserveGeneration, PatchStatus, PatchCall, PatchEffect, CacheUnsynced,
                server, cache
  <2>2. CopyMoves
    BY <1>1, <1>3, <1>7
       DEF ObserveGeneration, PatchStatus, PatchCall, CopyMoves, At, AtWork
  <2>3. QED
    BY <2>1, <2>2 DEF ObjectStays
<1>8. CASE RemoveFinalizer \/ RecoverPanic
  <2>1. UNCHANGED cachedObj /\ (UNCHANGED obj \/ (obj' = NoObject /\ status' = EmptyStatus))
    BY <1>8 DEF RemoveFinalizer, RecoverPanic, CacheUnsynced, server, cache
  <2>2. cfnObj' = NoObject /\ pc' = "idle"
    BY <1>3, <1>8 DEF RemoveFinalizer, RecoverPanic
  <2>3. QED
    BY <2>1, <2>2 DEF ObjectStays, CopyMoves
<1>9. CASE \/ ReconcileSource \/ DescribeStack \/ DescribeChangeSet \/ UploadTemplate
           \/ DescribeStackForDelete
  <2>1. UNCHANGED <<obj, cachedObj>>
    BY <1>9 DEF ReconcileSource, DescribeStack, DescribeChangeSet, UploadTemplate,
                DescribeStackForDelete, Outside, server, cache
  <2>2. UNCHANGED cfnObj /\ AtWork /\ AtWork'
    BY <1>1, <1>2, <1>9
       DEF ReconcileSource, SourceMissing, SourceFails, DependencyNotReady, BuildClientStack,
           DescribeStack, DescribeChangeSet, UploadTemplate, DescribeStackForDelete, Goto,
           At, AtWork
  <2>3. QED
    BY <2>1, <2>2 DEF ObjectStays, CopyMoves
<1>10. CASE \/ ContinueRollback \/ CleanupStack \/ CreateChangeSet \/ DeleteEmptyChangeSet
            \/ DeleteFailedChangeSet \/ ExecuteChangeSet \/ DeleteStack
  <2>1. UNCHANGED <<obj, cachedObj>>
    BY <1>10 DEF ContinueRollback, CleanupStack, CreateChangeSet, DeleteEmptyChangeSet,
                 DeleteFailedChangeSet, ExecuteChangeSet, DeleteStack, Outside, server, cache
  <2>2. UNCHANGED cfnObj /\ AtWork /\ AtWork'
    BY <1>1, <1>2, <1>10
       DEF ContinueRollback, CleanupStack, CreateChangeSet, DeleteEmptyChangeSet,
           DeleteFailedChangeSet, ExecuteChangeSet, DeleteStack, Call, Goto, At, AtWork
  <2>3. QED
    BY <2>1, <2>2 DEF ObjectStays, CopyMoves
<1>11. QED
  BY <1>5, <1>6, <1>7, <1>8, <1>9, <1>10 DEF ReconcileStep

\* Who changes the status at the server: the return of a reconcile, and the first thing it
\* does with a new generation.
LEMMA WhoWrites ==
  ASSUME TypeInv, StartReconcile \/ ReconcileStep
  PROVE  \/ status'.ready = status.ready /\ status'.readyGeneration = status.readyGeneration
         \/ obj' = NoObject /\ status' = EmptyStatus
         \/ /\ pc = "patchStatus" /\ pc' = "idle" /\ UNCHANGED <<obj, cachedObj, service>>
            /\ Exists(obj)
            /\ status'.ready = cfnStatus.ready
            /\ status'.readyGeneration = cfnStatus.readyGeneration
         \/ status'.ready = "Unknown" /\ status'.readyGeneration = cfnObj.gen /\ UNCHANGED obj
            /\ Exists(obj)
<1>1. status \in Statuses /\ cachedStatus \in Statuses /\ cfnStatus \in Statuses
      /\ cfnObj \in Objects
  BY DEF TypeInv, TypeOK, ServerTypeOK, CacheTypeOK, LocalTypeOK
<1>2. \A new \in Statuses : status' \in Patched(status, cachedStatus, new) =>
        \/ status'.ready = status.ready /\ status'.readyGeneration = status.readyGeneration
        \/ status'.ready = new.ready /\ status'.readyGeneration = new.readyGeneration
  BY <1>1 DEF Patched, ConditionFields, Statuses
<1>3. CASE ObserveGeneration
  <2> DEFINE s == Progressing(cfnStatus, cfnObj.gen, NoRevision, NoArn)
  <2>1. s \in Statuses
    BY <1>1, UpdatesAreStatuses DEF Objects
  <2>2. s.ready = "Unknown" /\ s.readyGeneration = cfnObj.gen
    BY <1>1 DEF Progressing, SetReadiness, Statuses
  <2>3. /\ UNCHANGED obj
        /\ \/ UNCHANGED status
           \/ Exists(obj) /\ status' \in Patched(status, cachedStatus, s)
    BY <1>3 DEF ObserveGeneration, PatchCall, PatchAccepted, PatchEffect, server
  <2> HIDE DEF s
  <2>4. QED
    BY <1>2, <2>1, <2>2, <2>3
<1>4. CASE PatchStatus
  <2>1. /\ UNCHANGED <<obj, cachedObj>>
        /\ \/ UNCHANGED status
           \/ Exists(obj) /\ status' \in Patched(status, cachedStatus, cfnStatus)
    BY <1>4 DEF PatchStatus, PatchCall, PatchAccepted, PatchEffect, CacheUnsynced, server, cache
  <2>2. pc = "patchStatus" /\ pc' = "idle" /\ UNCHANGED service
    BY <1>4 DEF PatchStatus, PatchCall, ReturnAfter, ReturnError, At
  <2>3. QED
    BY <1>1, <1>2, <2>1, <2>2
<1>5. CASE RemoveFinalizer
  BY <1>5 DEF RemoveFinalizer, server
<1>6. CASE ~ObserveGeneration /\ ~PatchStatus /\ ~RemoveFinalizer
  <2>1. UNCHANGED status
    BY <1>6
       DEF ReconcileStep, StartReconcile, AddFinalizer, ReconcileSource, DescribeStack,
           ContinueRollback, RecoverPanic, CleanupStack, DescribeChangeSet, UploadTemplate,
           CreateChangeSet, DeleteEmptyChangeSet, DeleteFailedChangeSet, ExecuteChangeSet,
           DescribeStackForDelete, DeleteStack, Outside, server
  <2>2. QED
    BY <2>1
<1>7. QED
  BY <1>3, <1>4, <1>5, <1>6

\* A reconcile reports on the generation it works for, and reports success in two places.
LEMMA ReportsName ==
  ASSUME TypeInv, StartReconcile \/ ReconcileStep, pc' = "patchStatus"
  PROVE  /\ UNCHANGED cfnObj /\ AtWork /\ pc # "patchStatus"
         /\ cfnStatus'.readyGeneration = cfnObj.gen
         /\ cfnStatus'.ready = "True" => pc \in {"describeChangeSet", "deleteEmpty"}
<1>1. cfnStatus \in Statuses
  BY DEF TypeInv, TypeOK, LocalTypeOK
<1>2. \A gen, revision, arn :
        /\ Progressing(cfnStatus, gen, revision, arn).ready = "Unknown"
        /\ NotReady(cfnStatus, gen, revision, arn).ready = "False"
        /\ Progressing(cfnStatus, gen, revision, arn).readyGeneration = gen
        /\ NotReady(cfnStatus, gen, revision, arn).readyGeneration = gen
        /\ Ready(cfnStatus, gen, arn).readyGeneration = gen
  BY <1>1 DEF Progressing, NotReady, Ready, SetReadiness, Statuses
<1>3. ~StartReconcile /\ ~AddFinalizer
  <2>1. cachedObj \in Objects /\ cachedStatus \in Statuses
    BY DEF TypeInv, TypeOK, CacheTypeOK
  <2>2. [obj EXCEPT !.finalizer = TRUE] \in Objects /\ status \in Statuses
    BY DEF TypeInv, TypeOK, ServerTypeOK, Objects
  <2>3. QED
    BY <2>1, <2>2, FinalizerDecides
       DEF StartReconcile, AddFinalizer, ReturnError, ReturnAfter, Outcomes
<1>4. ~PatchStatus /\ ~RemoveFinalizer /\ ~RecoverPanic
  BY DEF PatchStatus, PatchCall, RemoveFinalizer, RecoverPanic, ReturnError, ReturnNothing,
         ReturnAfter
<1>5. CASE ObserveGeneration \/ ReconcileSource \/ DescribeStack \/ UploadTemplate
             \/ DescribeStackForDelete
  BY <1>2, <1>5
     DEF ObserveGeneration, PatchCall, ReconcileSource, SourceMissing, SourceFails,
         DependencyNotReady, BuildClientStack, DescribeStack, UploadTemplate,
         DescribeStackForDelete, Goto, Report, ApiCallFails, At, AtWork
<1>6. CASE ContinueRollback \/ CleanupStack \/ CreateChangeSet \/ DeleteFailedChangeSet
             \/ ExecuteChangeSet \/ DeleteStack
  BY <1>2, <1>6
     DEF ContinueRollback, CleanupStack, CreateChangeSet, DeleteFailedChangeSet,
         ExecuteChangeSet, DeleteStack, Call, Goto, Report, ApiCallFails, At, AtWork
<1>7. CASE DescribeChangeSet \/ DeleteEmptyChangeSet
  BY <1>2, <1>7
     DEF DescribeChangeSet, DeleteEmptyChangeSet, Call, Goto, Report, ApiCallFails, At, AtWork
<1>8. QED
  BY <1>3, <1>4, <1>5, <1>6, <1>7 DEF ReconcileStep

-----------------------------------------------------------------------------
(* Generations and deletion, first readers.                                 *)

LEMMA ReconcileKeepsDeletion ==
  ASSUME TypeInv, DeletionTells, StartReconcile \/ ReconcileStep
  PROVE  DeletionTells'
<1>1. UNCHANGED cachedObj /\ ObjectStays /\ CopyMoves
  BY ReconcileMovesCopies
<1>2. NoObject.gen = 0 /\ ~Exists(NoObject) /\ obj.gen \in Nat
  BY Numbers
<1>3. CASE obj' = NoObject
  BY <1>2, <1>3 DEF DeletionTells, SameDeletion
<1>4. CASE obj'.gen = obj.gen /\ obj'.deleting = obj.deleting
  BY <1>1, <1>2, <1>4 DEF DeletionTells, SameDeletion, CopyMoves, Exists
<1>5. QED
  BY <1>1, <1>3, <1>4 DEF ObjectStays

LEMMA SurroundingsKeepDeletion ==
  ASSUME TypeInv, DeletionTells, NameInv, "create" \notin UserActions,
         \/ TimerFires \/ CacheSync \/ Restart \/ Users \/ Aws \/ Crash \/ UNCHANGED vars
  PROVE  DeletionTells'
<1>1. /\ NoObject.gen = 0 /\ ~Exists(NoObject)
      /\ obj.gen \in Nat /\ cachedObj.gen \in Nat /\ cfnObj.gen \in Nat
  BY Numbers
<1>2. CASE TimerFires \/ CacheSync \/ Restart \/ SourceChanges \/ Aws \/ Crash \/ UNCHANGED vars
  <2>1. UNCHANGED obj /\ cachedObj' \in {cachedObj, obj, NoObject} /\ cfnObj' \in {cfnObj, NoObject}
    BY <1>2 DEF TimerFires, CacheSync, Restart, SourceChanges, Aws, AwsStep, Crash, vars,
                server, cache, local, ForgetLocals
  <2>2. QED
    BY <1>1, <2>1 DEF DeletionTells, SameDeletion, Exists
<1>3. CASE EditSpec \/ DeleteObject
  <2>1. UNCHANGED <<cachedObj, cfnObj>> /\ Exists(obj)
        /\ (obj' = NoObject \/ obj'.gen = obj.gen + 1)
    BY <1>3 DEF EditSpec, DeleteObject, CacheUnsynced, Overtaken, TypeInv, TypeOK,
                ServerTypeOK, Objects
  <2>2. cachedObj.gen <= obj.gen /\ cfnObj.gen <= obj.gen
    BY <2>1 DEF NameInv, GenerationsTell
  <2>3. QED
    BY <1>1, <2>1, <2>2 DEF DeletionTells, SameDeletion
<1>4. ~CreateObject
  BY DEF CreateObject
<1>5. QED
  BY <1>2, <1>3, <1>4 DEF Users

\* Change sets come into being in one step.
LEMMA OnlyCreationAdds ==
  ASSUME TypeInv, StartReconcile \/ ReconcileStep, ~CreateChangeSet
  PROVE  NoNewContents
<1>1. UNCHANGED service => NoNewContents
  BY DEF service, NoNewContents, Live
<1>2. CASE \/ ContinueRollback \/ CleanupStack \/ DeleteEmptyChangeSet
           \/ DeleteFailedChangeSet \/ ExecuteChangeSet \/ DeleteStack
  <2>1. clientStack.arn \in Arns \cup {NoArn}
    BY DEF TypeInv, TypeOK, LocalTypeOK, ClientStacks
  <2>2. QED
    BY <1>1, <1>2, <2>1, CallsKeepContents
       DEF ContinueRollback, CleanupStack, DeleteEmptyChangeSet, DeleteFailedChangeSet,
           ExecuteChangeSet, DeleteStack, Call
<1>3. CASE ~(\/ ContinueRollback \/ CleanupStack \/ DeleteEmptyChangeSet
             \/ DeleteFailedChangeSet \/ ExecuteChangeSet \/ DeleteStack)
  BY <1>1, <1>3
     DEF ReconcileStep, StartReconcile, AddFinalizer, ObserveGeneration, ReconcileSource,
         DescribeStack, RecoverPanic, DescribeChangeSet, UploadTemplate,
         DescribeStackForDelete, RemoveFinalizer, PatchStatus
<1>4. QED
  BY <1>2, <1>3

\* Where the creation of a change set and the writing of the status lead.
LEMMA StepsLead ==
  ASSUME StartReconcile \/ ReconcileStep
  PROVE  /\ CreateChangeSet => pc' = "patchStatus"
         /\ pc = "patchStatus" => pc' = "idle"
         /\ pc = "addFinalizer" => AddFinalizer
<1>1. CreateChangeSet => pc' = "patchStatus"
  BY DEF CreateChangeSet, Call, Report, ApiCallFails
<1>2. pc = "patchStatus" => PatchStatus
  BY DEF ReconcileStep, StartReconcile, AddFinalizer, ObserveGeneration, ReconcileSource,
         DescribeStack, ContinueRollback, RecoverPanic, CleanupStack, DescribeChangeSet,
         UploadTemplate, CreateChangeSet, DeleteEmptyChangeSet, DeleteFailedChangeSet,
         ExecuteChangeSet, DescribeStackForDelete, DeleteStack, RemoveFinalizer, At
<1>3. PatchStatus => pc' = "idle"
  BY DEF PatchStatus, PatchCall, ReturnAfter, ReturnError
<1>4. pc = "addFinalizer" => AddFinalizer
  BY DEF ReconcileStep, StartReconcile, ObserveGeneration, ReconcileSource,
         DescribeStack, ContinueRollback, RecoverPanic, CleanupStack, DescribeChangeSet,
         UploadTemplate, CreateChangeSet, DeleteEmptyChangeSet, DeleteFailedChangeSet,
         ExecuteChangeSet, DescribeStackForDelete, DeleteStack, RemoveFinalizer, PatchStatus, At
<1>5. QED
  BY <1>1, <1>2, <1>3, <1>4

\* Success, or an empty change set to remove, needs a change set of the generation.
LEMMA DecisionsNeedSets ==
  ASSUME TypeInv, NameInv, DeployedInv, StartReconcile \/ ReconcileStep,
         pc # "deleteEmpty",
         pc' = "deleteEmpty" \/ (pc' = "patchStatus" /\ cfnStatus'.ready = "True")
  PROVE  \E a \in Arns : Live(a) /\ a.name.generation = cfnObj.gen
<1>1. PICK arn \in Described(clientStack.arn, DesiredName) : pc = "describeChangeSet"
  <2>1. CASE pc' = "deleteEmpty"
    BY <2>1, ReconcileComesFrom DEF DescribeChangeSet, ApiCallFails, Report, Goto, At
  <2>2. CASE pc' = "patchStatus"
    <3>1. pc = "describeChangeSet"
      BY <2>2, ReportsName
    <3>2. ~DeleteEmptyChangeSet
      BY <3>1 DEF DeleteEmptyChangeSet, At
    <3>3. QED
      BY <2>2, <3>1, <3>2, SuccessIsRight DEF Next, Controller
  <2>3. QED
    BY <2>1, <2>2
<1>2. arn \in Arns /\ Live(arn) /\ arn.name = DesiredName
  BY <1>1 DEF Described, NameInv, ArnIsWanted
<1>3. QED
  BY <1>2 DEF DesiredName, GetChangeSetName

LEMMA ReconcileKeepsFirst ==
  ASSUME TypeInv, NameInv, DeployedInv, FirstReader, StartReconcile \/ ReconcileStep
  PROVE  FirstReader'
<1> SUFFICES ASSUME Unread', pc' = "addFinalizer" \/ (AtWork' /\ cfnObj'.gen = obj'.gen)
             PROVE  IF pc' = "patchStatus" THEN cfnStatus'.ready # "True"
                    ELSE /\ pc' # "deleteEmpty"
                         /\ \A a \in Arns : Live(a)' => a.name.generation # obj'.gen
  BY DEF FirstReader
<1>1. UNCHANGED cachedObj /\ ObjectStays /\ CopyMoves
  BY ReconcileMovesCopies
<1>2. /\ ~Exists(NoObject) /\ obj.gen \in Nat /\ cachedObj.gen \in Nat
  BY Numbers
<1>3. obj'.gen = obj.gen /\ Unread
  BY <1>1, <1>2 DEF ObjectStays, Unread, Exists
<1>4. CASE cfnObj' = cfnObj /\ AtWork /\ AtWork'
  <2>1. AtWork /\ cfnObj.gen = obj.gen
    BY <1>3, <1>4 DEF AtWork
  <2>2. pc # "patchStatus"
    BY <1>4, StepsLead DEF AtWork
  <2>3. /\ pc # "deleteEmpty"
        /\ \A a \in Arns : Live(a) => a.name.generation # obj.gen
    BY <1>3, <2>1, <2>2 DEF FirstReader
  <2>4. ~(pc' = "deleteEmpty" \/ (pc' = "patchStatus" /\ cfnStatus'.ready = "True"))
    BY <2>1, <2>3, DecisionsNeedSets
  <2>5. pc' # "patchStatus" => NoNewContents
    BY OnlyCreationAdds, StepsLead
  <2>6. QED
    BY <1>3, <2>3, <2>4, <2>5 DEF NoNewContents
<1>5. CASE cfnObj' = obj' /\ pc = "addFinalizer" /\ pc' \in Outcomes
  <2>1. \A a \in Arns : Live(a) => a.name.generation # obj.gen
    BY <1>3, <1>5 DEF FirstReader
  <2>2. ~CreateChangeSet
    BY <1>5 DEF CreateChangeSet, At
  <2>3. NoNewContents
    BY <2>2, OnlyCreationAdds
  <2>4. QED
    BY <1>3, <1>5, <2>1, <2>3 DEF NoNewContents, Outcomes
<1>6. ~(cfnObj' = NoObject /\ pc' = "idle")
  BY DEF AtWork
<1>7. ~(cfnObj' = cachedObj /\ ~cachedObj.finalizer /\ pc' = "addFinalizer")
  BY <1>3 DEF Unread
<1>8. ~(cfnObj' = cachedObj /\ cachedObj.finalizer /\ pc' \in Outcomes)
  BY <1>2, <1>3 DEF Unread, Outcomes
<1>9. QED
  BY <1>1, <1>4, <1>5, <1>6, <1>7, <1>8 DEF CopyMoves

LEMMA SurroundingsKeepFirst ==
  ASSUME TypeInv, NameInv, FirstReader, "create" \notin UserActions,
         \/ TimerFires \/ CacheSync \/ Restart \/ Users \/ Aws \/ Crash \/ UNCHANGED vars
  PROVE  FirstReader'
<1>1. /\ NoObject.gen = 0 /\ ~Exists(NoObject) /\ ~NoObject.finalizer
      /\ obj.gen \in Nat /\ cachedObj.gen \in Nat /\ cfnObj.gen \in Nat
  BY Numbers DEF NoObject
<1>2. CASE CacheSync \/ Restart \/ Crash
  <2>1. UNCHANGED obj /\ cachedObj' \in {obj, NoObject}
    BY <1>2 DEF CacheSync, Restart, Crash, server
  <2>2. ~Unread'
    BY <1>1, <2>1 DEF Unread
  <2>3. QED
    BY <2>2 DEF FirstReader
<1>3. CASE TimerFires \/ SourceChanges \/ Aws \/ UNCHANGED vars
  <2>1. UNCHANGED <<obj, cachedObj, cfnObj, cfnStatus, pc>>
    BY <1>3 DEF TimerFires, SourceChanges, Aws, AwsStep, vars, server, cache, local
  <2>2. NoNewContents
    <3>1. UNCHANGED service => NoNewContents
      BY DEF service, NoNewContents, Live
    <3>2. QED
      BY <1>3, <3>1, ServiceKeepsContents DEF TimerFires, SourceChanges, vars, service
  <2>3. QED
    BY <2>1, <2>2 DEF FirstReader, Unread, AtWork, Exists, NoNewContents
<1>4. CASE EditSpec \/ DeleteObject
  <2>1. UNCHANGED <<cachedObj, cfnObj, css, pc>> /\ Exists(obj)
        /\ (obj' = NoObject \/ obj'.gen = obj.gen + 1)
    BY <1>4 DEF EditSpec, DeleteObject, CacheUnsynced, Overtaken, TypeInv, TypeOK,
                ServerTypeOK, Objects, service
  <2>2. CASE obj' = NoObject
    BY <1>1, <2>2 DEF FirstReader, Unread
  <2>3. CASE obj'.gen = obj.gen + 1
    <3>1. cfnObj.gen <= obj.gen /\ \A a \in Arns : Live(a) => a.name.generation <= obj.gen
      BY <2>1 DEF NameInv, GenerationsTell, NamesTell
    <3>2. \A a \in Arns : a.name.generation \in Nat
      BY ArnsHaveGenerations, ServiceConstants
    <3>3. cfnObj'.gen # obj'.gen
      BY <1>1, <2>1, <2>3, <3>1
    <3>4. \A a \in Arns : Live(a)' => a.name.generation # obj'.gen
      BY <1>1, <2>1, <2>3, <3>1, <3>2 DEF Live
    <3>5. QED
      BY <3>3, <3>4 DEF FirstReader
  <2>4. QED
    BY <2>1, <2>2, <2>3
<1>5. ~CreateObject
  BY DEF CreateObject
<1>6. QED
  BY <1>2, <1>3, <1>4, <1>5 DEF Users

-----------------------------------------------------------------------------
(* Readiness.                                                                *)

\* Success is reported for a stack that is settled.
LEMMA SuccessSettles ==
  ASSUME TypeInv, NameInv, DeployedInv, StackTells, DeploymentTells, DeletionTells, FirstReader,
         StartReconcile \/ ReconcileStep, Exists(obj'), pc' = "patchStatus",
         cfnStatus'.ready = "True", cfnStatus'.readyGeneration = obj'.gen
  PROVE  Settled'
<1>1. /\ UNCHANGED cachedObj
      /\ obj'.gen = obj.gen /\ obj'.spec = obj.spec /\ obj'.deleting = obj.deleting
  BY ReconcileMovesCopies, Numbers DEF ObjectStays
<1>2. /\ AtWork /\ cfnObj.gen = obj.gen /\ Exists(obj) /\ Exists(cfnObj)
      /\ pc \in {"describeChangeSet", "deleteEmpty"}
  BY <1>1, ReportsName DEF Exists
<1>3. ~Unread'
  <2>1. SUFFICES ASSUME Unread PROVE FALSE
    BY <1>1, <1>2 DEF Unread, Exists
  <2>2. pc # "deleteEmpty" /\ \A a \in Arns : Live(a) => a.name.generation # obj.gen
    BY <1>2, <2>1 DEF FirstReader
  <2>3. QED
    BY <1>2, <2>2, DecisionsNeedSets
<1>4. ~obj'.deleting
  BY <1>1, <1>2 DEF DeploymentTells, Deploys, DeletionTells, SameDeletion
<1>5. /\ stack'.content = Render[<<cfnObj.spec.template, clientStack.revision>>]
      /\ UNCHANGED stack
      /\ UNCHANGED css \/ (clientStack.arn \in Arns /\ DeleteChangeSetCall(clientStack.arn))
  <2>1. Next
    BY DEF Next, Controller
  <2>2. DeleteEmptyChangeSet \/ UNCHANGED service
    BY <1>2, <2>1, SuccessIsRight
  <2>3. CASE DeleteEmptyChangeSet
    BY <1>2, <2>1, <2>3, SuccessIsRight
       DEF DeleteEmptyChangeSet, At, Call, DeleteChangeSetCall, NameInv, ArnIsWanted, service
  <2>4. QED
    BY <1>2, <2>1, <2>2, <2>3, SuccessIsRight DEF service
<1>6. clientStack.revision \in Revisions /\ cfnObj.spec.template \in Templates
  BY <1>2 DEF TypeInv, RevisionRead, TypeOK, LocalTypeOK, Objects, Specs
<1>7. cfnObj.spec = obj'.spec
  BY <1>1, <1>2 DEF NameInv, GenerationsTell, SameSpec
<1>8. Render[<<cfnObj.spec.template, clientStack.revision>>] \in Contents
  BY <1>6, ControllerConstants
<1>9. TakesSets(stack.status)
  BY <1>2 DEF DeploymentTells
<1>10. Established'
  BY <1>5, <1>8, <1>9, ServiceConstants DEF Established, TakesSets, StackTells
<1>11. \A a \in Arns : ~Executing(a)'
  <2>1. \A a \in Arns : ~Executing(a)
    BY <1>9
       DEF StackTells, TakesSets, StackNotFound, StackIsSuccess,
           SuccessfulDeploymentStackStatuses, IsRecoverableFailure,
           RecoverableFailureStackStatuses
  <2>2. css \in [Arns -> Descriptions]
    BY SetsAreDescribed
  <2>3. \A a \in Arns : css'[a].execution = css[a].execution
    BY <1>5, <2>2 DEF DeleteChangeSetCall, Descriptions
  <2>4. QED
    BY <2>1, <2>3 DEF Executing
<1>12. QED
  BY <1>3, <1>4, <1>5, <1>6, <1>7, <1>10, <1>11 DEF Settled

\* What a reconcile does to the stack of the generation it works for keeps it settled.
LEMMA ReconcileStaysSettled ==
  ASSUME TypeInv, ControlInv, NameInv, StackTells, DeletionTells, Settled, Exists(obj),
         AtWork => cfnObj.gen = obj.gen, StartReconcile \/ ReconcileStep, Exists(obj')
  PROVE  Settled'
<1>1. /\ UNCHANGED cachedObj
      /\ obj'.gen = obj.gen /\ obj'.spec = obj.spec /\ obj'.deleting = obj.deleting
  BY ReconcileMovesCopies, Numbers DEF ObjectStays
<1>2. css \in [Arns -> Descriptions] /\ stack \in Stacks
  BY SetsAreDescribed
<1>3. ASSUME Established', stack'.content = stack.content,
             \A a \in Arns : Executing(a)' => a.name.generation = obj.gen
      PROVE  Settled'
  BY <1>1, <1>3 DEF Settled, Unread, Exists
<1>4. UNCHANGED service => Settled'
  BY <1>3 DEF service, Settled, Established, Executing
<1>5. CASE CreateChangeSet /\ ~UNCHANGED service
  <2>1. PICK arn \in Arns : \E content :
          /\ CreateAccepted(arn, clientStack.isCreate)
          /\ CreateChangeSetCall(arn, content, clientStack.isCreate)
    BY <1>5 DEF CreateChangeSet, NewArns, Call
  <2>2. \A a \in Arns : Executing(a)' => Executing(a)
    BY <1>2, <2>1 DEF CreateChangeSetCall, Executing
  <2>3. ~StackNotFound(stack.status)
    BY DEF Settled, Established, StackNotFound, StackIsSuccess,
           SuccessfulDeploymentStackStatuses, IsRecoverableFailure,
           RecoverableFailureStackStatuses
  <2>4. UNCHANGED stack
    BY <2>1, <2>3 DEF CreateAccepted, CreateChangeSetCall
  <2>5. QED
    BY <1>3, <2>2, <2>4 DEF Settled, Established
<1>6. CASE ExecuteChangeSet /\ ~UNCHANGED service
  <2>1. /\ ExecuteAccepted(clientStack.arn) /\ ExecuteChangeSetCall(clientStack.arn)
        /\ pc = "execute"
    BY <1>6 DEF ExecuteChangeSet, Call, At
  <2>2. clientStack.arn.name.generation = obj.gen
    BY <2>1 DEF NameInv, ArnIsWanted, DesiredName, GetChangeSetName, AtWork
  <2>3. \A a \in Arns : Executing(a)' => a.name.generation = obj.gen
    BY <2>1, <2>2 DEF ExecuteChangeSetCall, Executing, Deleted
  <2>4. stack.status # "REVIEW_IN_PROGRESS"
    BY DEF Settled, Established, StackIsSuccess, SuccessfulDeploymentStackStatuses,
           IsRecoverableFailure, RecoverableFailureStackStatuses
  <2>5. stack'.status = "UPDATE_IN_PROGRESS" /\ stack'.content = stack.content
    BY <1>2, <2>1, <2>4 DEF ExecuteChangeSetCall, Stacks
  <2>6. QED
    BY <1>3, <2>3, <2>5 DEF Established
<1>7. CASE (DeleteEmptyChangeSet \/ DeleteFailedChangeSet) /\ ~UNCHANGED service
  <2>1. DeleteChangeSetCall(clientStack.arn)
    BY <1>7 DEF DeleteEmptyChangeSet, DeleteFailedChangeSet, Call
  <2>2. \A a \in Arns : Executing(a)' => Executing(a)
    BY <1>2, <2>1 DEF DeleteChangeSetCall, Executing, Descriptions
  <2>3. QED
    BY <1>3, <2>1, <2>2 DEF DeleteChangeSetCall, Settled, Established
<1>8. ~CleanupStack
  BY DEF CleanupStack, At, ControlInv, DecisionsHold, Settled, Established, RequiresCleanup,
         UnrecoverableFailureStackStatuses, StackIsSuccess, SuccessfulDeploymentStackStatuses,
         IsRecoverableFailure, RecoverableFailureStackStatuses
<1>9. ~DeleteStack
  BY DEF DeleteStack, At, AtWork, ControlInv, DecisionsHold, Settled, DeletionTells,
         SameDeletion
<1>10. CASE ContinueRollback /\ ~UNCHANGED service
  <2>1. /\ UNCHANGED css /\ stack'.content = stack.content
        /\ stack'.status = "UPDATE_ROLLBACK_IN_PROGRESS"
    BY <1>2, <1>10 DEF ContinueRollback, Call, ContinueRollbackCall, Stacks
  <2>2. QED
    BY <1>3, <2>1 DEF Established, Settled, Executing
<1>11. CASE \/ StartReconcile \/ AddFinalizer \/ ObserveGeneration \/ ReconcileSource
            \/ DescribeStack \/ RecoverPanic \/ DescribeChangeSet \/ UploadTemplate
            \/ DescribeStackForDelete \/ RemoveFinalizer \/ PatchStatus
  BY <1>4, <1>11
     DEF StartReconcile, AddFinalizer, ObserveGeneration, ReconcileSource, DescribeStack,
         RecoverPanic, DescribeChangeSet, UploadTemplate, DescribeStackForDelete,
         RemoveFinalizer, PatchStatus
<1>12. QED
  BY <1>4, <1>5, <1>6, <1>7, <1>8, <1>9, <1>10, <1>11 DEF ReconcileStep

\* What the service does by itself keeps it settled too: what is executed there has the
\* object's generation in its name.
LEMMA AwsStaysSettled ==
  ASSUME TypeInv, NameInv, StackTells, Settled, Exists(obj), Aws, NobodyElse
  PROVE  Settled'
<1>1. css \in [Arns -> Descriptions] /\ stack \in Stacks
  BY SetsAreDescribed
<1>2. UNCHANGED <<obj, cachedObj>>
  BY DEF Aws, AwsStep, server, cache
<1>3. ASSUME Established', \A a \in Arns : Executing(a)' => Executing(a),
             \E r \in Revisions : stack'.content = Render[<<obj.spec.template, r>>]
      PROVE  Settled'
  BY <1>2, <1>3 DEF Settled, Unread, Exists
<1>4. CASE ChangeSetsMove
  <2>1. /\ UNCHANGED stack
        /\ \A a \in Arns : Executing(a)' => Executing(a) /\ (Live(a) => Live(a)')
    BY <1>4, MovesStartNothing
  <2>2. QED
    BY <1>3, <2>1 DEF Settled, Established
<1>5. CASE StackActionFails
  <2>1. \A a \in Arns : ~Executing(a)'
    BY <1>1, <1>5 DEF StackActionFails, Executed, Executing, Descriptions
  <2>2. /\ stack'.content = stack.content
        /\ stack'.status \in {"UPDATE_FAILED", "UPDATE_ROLLBACK_IN_PROGRESS",
                              "UPDATE_ROLLBACK_FAILED"}
    BY <1>1, <1>5
       DEF StackActionFails, FailsTo, Stacks, Settled, Established, StackIsSuccess,
           SuccessfulDeploymentStackStatuses, IsRecoverableFailure,
           RecoverableFailureStackStatuses
  <2>3. Established'
    BY <2>2 DEF Established, IsRecoverableFailure, RecoverableFailureStackStatuses
  <2>4. QED
    BY <1>3, <2>1, <2>2, <2>3 DEF Settled
<1>6. CASE StackActionSucceeds /\ stack.status = "UPDATE_IN_PROGRESS"
  <2>1. PICK a \in Arns : /\ Executing(a)
                          /\ stack' = [status |-> "UPDATE_COMPLETE", content |-> css[a].content]
    BY <1>6 DEF StackActionSucceeds, Executing
  <2>2. Live(a) /\ a.name.generation = obj.gen
    BY <2>1 DEF StackTells, Settled
  <2>3. css[a].content = Render[<<obj.spec.template, a.name.revision>>]
    BY <2>2 DEF NameInv, NamesTell, Rendered
  <2>4. a.name.revision \in Revisions
    BY DEF Arns, ChangeSetNames
  <2>5. css' = Executed("EXECUTE_COMPLETE")
    BY <1>6 DEF StackActionSucceeds
  <2>6. \A b \in Arns : ~Executing(b)'
    BY <1>1, <2>5 DEF Executed, Executing, Descriptions
  <2>7. Established'
    BY <2>1 DEF Established, StackIsSuccess, SuccessfulDeploymentStackStatuses
  <2>8. QED
    BY <1>3, <2>1, <2>3, <2>4, <2>6, <2>7
<1>7. CASE StackActionSucceeds /\ stack.status # "UPDATE_IN_PROGRESS"
  <2>1. /\ UNCHANGED css /\ stack'.content = stack.content
        /\ stack'.status = "UPDATE_ROLLBACK_COMPLETE"
    BY <1>1, <1>7
       DEF StackActionSucceeds, Stacks, Settled, Established, StackIsSuccess,
           SuccessfulDeploymentStackStatuses, IsRecoverableFailure,
           RecoverableFailureStackStatuses
  <2>2. Established'
    BY <2>1 DEF Established, StackIsSuccess, SuccessfulDeploymentStackStatuses,
                IsRecoverableFailure, RecoverableFailureStackStatuses
  <2>3. QED
    BY <1>3, <2>1, <2>2 DEF Settled, Executing
<1>8. ~OutOfBandUpdate /\ ~OutOfBandDelete
  BY DEF OutOfBandUpdate, OutOfBandDelete, Fault, NobodyElse
<1>9. QED
  BY <1>4, <1>5, <1>6, <1>7, <1>8 DEF Aws, AwsStep, ChangeSetsMove

LEMMA ReconcileKeepsReady ==
  ASSUME TypeInv, ControlInv, NameInv, DeployedInv, ReadinessInv,
         StartReconcile \/ ReconcileStep
  PROVE  ReadyInv'
<1>1. UNCHANGED cachedObj /\ ObjectStays /\ CopyMoves
  BY ReconcileMovesCopies
<1>2. /\ obj.gen \in Nat /\ cachedObj.gen \in Nat /\ cfnObj.gen \in Nat
      /\ NoObject.gen = 0 /\ ~Exists(NoObject)
  BY Numbers
<1>3. /\ status.readyGeneration <= obj.gen
      /\ pc = "patchStatus" => cfnStatus.readyGeneration = cfnObj.gen
      /\ Exists(obj) => cachedObj.gen <= obj.gen /\ cfnObj.gen <= obj.gen
  BY DEF ReadinessInv, ReadyInv, NameInv, GenerationsTell
<1>4. status'.readyGeneration <= obj'.gen
  <2>1. CASE obj' = NoObject /\ status' = EmptyStatus
    BY <1>2, <2>1 DEF EmptyStatus
  <2>2. CASE obj'.gen = obj.gen
    BY <1>2, <1>3, <2>2, WhoWrites DEF EmptyStatus
  <2>3. QED
    BY <1>1, <2>1, <2>2 DEF ObjectStays
<1>5. pc' = "patchStatus" => cfnStatus'.readyGeneration = cfnObj'.gen
  BY ReportsName
<1>6. ASSUME Exists(obj'), SaidReady'
      PROVE  \/ SaidReady
             \/ SaysReady /\ pc' = "idle" /\ UNCHANGED <<obj, cachedObj, service>>
  <2>1. obj'.gen = obj.gen
    BY <1>1, <1>2, <1>6 DEF ObjectStays
  <2>2. QED
    BY <1>2, <1>6, <2>1, WhoWrites DEF SaidReady, SaysReady
<1>7. Exists(obj') => Exists(obj) /\ obj'.gen = obj.gen
  BY <1>1, <1>2 DEF ObjectStays, Exists
<1>8. ASSUME Exists(obj'), SaidReady' \/ SaysReady' PROVE Settled'
  <2>1. CASE SaysReady'
    BY <1>8, <2>1, SuccessSettles DEF SaysReady, ReadinessInv
  <2>2. CASE SaidReady' /\ SaidReady
    <3>1. Settled /\ (AtWork => cfnObj.gen = obj.gen)
      BY <1>7, <1>8, <2>2 DEF ReadinessInv, ReadyInv
    <3>2. QED
      BY <1>7, <1>8, <3>1, ReconcileStaysSettled DEF ReadinessInv
  <2>3. CASE SaysReady /\ UNCHANGED <<obj, cachedObj, service>>
    <3>1. Settled
      BY <1>7, <1>8, <2>3 DEF ReadinessInv, ReadyInv
    <3>2. QED
      BY <2>3, <3>1 DEF Settled, Established, Unread, Exists, Executing, service
  <2>4. QED
    BY <1>6, <1>8, <2>1, <2>2, <2>3
<1>9. ASSUME Exists(obj'), SaidReady', AtWork' PROVE cfnObj'.gen = obj'.gen
  <2>1. SaidReady
    BY <1>6, <1>9 DEF AtWork
  <2>2. /\ AtWork => cfnObj.gen = obj.gen
        /\ cachedObj.finalizer => cachedObj.gen = obj.gen
    BY <1>2, <1>3, <1>7, <1>9, <2>1 DEF ReadinessInv, ReadyInv, Settled, Unread
  <2>3. QED
    BY <1>1, <1>7, <1>9, <2>2 DEF CopyMoves, AtWork
<1>10. QED
  BY <1>4, <1>5, <1>8, <1>9 DEF ReadyInv

LEMMA SurroundingsKeepReady ==
  ASSUME TypeInv, NameInv, ReadinessInv, "create" \notin UserActions, NobodyElse,
         \/ TimerFires \/ CacheSync \/ Restart \/ Users \/ Aws \/ Crash \/ UNCHANGED vars
  PROVE  ReadyInv'
<1>1. /\ obj.gen \in Nat /\ cachedObj.gen \in Nat /\ cfnObj.gen \in Nat
      /\ NoObject.gen = 0 /\ ~Exists(NoObject) /\ ~NoObject.finalizer
  BY Numbers DEF NoObject
<1>2. CASE TimerFires \/ CacheSync \/ Restart \/ SourceChanges \/ Aws \/ Crash \/ UNCHANGED vars
  <2>1. /\ UNCHANGED <<obj, status>>
        /\ cachedObj' \in {cachedObj, obj, NoObject}
        /\ UNCHANGED <<pc, cfnObj, cfnStatus>> \/ pc' \in {"idle", "down"}
    BY <1>2 DEF TimerFires, CacheSync, Restart, SourceChanges, Aws, AwsStep, Crash, vars,
                server, cache, local
  <2>2. Exists(obj) /\ Settled => Settled'
    <3>1. CASE Aws
      BY <3>1, AwsStaysSettled DEF ReadinessInv
    <3>2. CASE UNCHANGED service
      BY <1>1, <2>1, <3>2 DEF Settled, Established, Unread, Exists, Executing, service
    <3>3. QED
      BY <1>2, <3>1, <3>2 DEF TimerFires, CacheSync, Restart, SourceChanges, Crash, vars, service
  <2>3. SaidReady' => SaidReady
    BY <2>1 DEF SaidReady
  <2>4. SaysReady' => SaysReady
    BY <2>1 DEF SaysReady
  <2>5. AtWork' => AtWork /\ UNCHANGED cfnObj
    BY <2>1 DEF AtWork
  <2>6. pc' = "patchStatus" => pc = "patchStatus" /\ UNCHANGED <<cfnObj, cfnStatus>>
    BY <2>1
  <2>7. QED
    BY <2>1, <2>2, <2>3, <2>4, <2>5, <2>6 DEF ReadinessInv, ReadyInv, Exists
<1>3. CASE EditSpec \/ DeleteObject
  <2>1. UNCHANGED <<pc, cfnObj, cfnStatus>> /\ Exists(obj)
        /\ \/ obj' = NoObject /\ status' = EmptyStatus
           \/ obj'.gen = obj.gen + 1 /\ UNCHANGED status
    BY <1>3 DEF EditSpec, DeleteObject, Overtaken, TypeInv, TypeOK, ServerTypeOK, Objects
  <2>2. /\ status.readyGeneration <= obj.gen /\ status.readyGeneration \in Nat
        /\ pc = "patchStatus" => cfnStatus.readyGeneration = cfnObj.gen
        /\ cfnObj.gen <= obj.gen
    BY <2>1 DEF ReadinessInv, ReadyInv, NameInv, GenerationsTell, TypeInv, TypeOK,
                ServerTypeOK, Statuses
  <2>3. CASE obj' = NoObject /\ status' = EmptyStatus
    BY <1>1, <2>1, <2>2, <2>3 DEF ReadyInv, EmptyStatus
  <2>4. CASE obj'.gen = obj.gen + 1 /\ UNCHANGED status
    <3>1. status'.readyGeneration < obj'.gen
      BY <1>1, <2>2, <2>4
    <3>2. pc' = "patchStatus" =>
            cfnStatus'.readyGeneration = cfnObj'.gen /\ cfnObj'.gen < obj'.gen
      BY <1>1, <2>1, <2>2, <2>4
    <3>3. ~SaidReady' /\ ~SaysReady'
      BY <1>1, <2>1, <2>2, <2>4, <3>1, <3>2 DEF SaidReady, SaysReady
    <3>4. QED
      BY <1>1, <2>2, <2>4, <3>2, <3>3 DEF ReadyInv
  <2>5. QED
    BY <2>1, <2>3, <2>4
<1>4. ~CreateObject
  BY DEF CreateObject
<1>5. QED
  BY <1>2, <1>3, <1>4 DEF Users

-----------------------------------------------------------------------------
LEMMA ReadinessInvInit == Init => ReadinessInv
<1> SUFFICES ASSUME Init PROVE ReadinessInv
  OBVIOUS
<1>1. /\ NoObject.gen = 0 /\ ~NoObject.finalizer
      /\ cachedObj = NoObject /\ cfnObj = NoObject /\ obj.gen = 1
      /\ status = EmptyStatus /\ pc = "idle"
  BY NoObjectType DEF Init, NoObject
<1>2. StackTells
  BY AbsentStacks DEF Init, ServiceInit, StackTells, Executing, Deleted
<1>3. DeploymentTells /\ DeletionTells /\ FirstReader
  BY <1>1 DEF DeploymentTells, Deploys, DeletionTells, SameDeletion, FirstReader, Unread
<1>4. ReadyInv
  BY <1>1 DEF ReadyInv, EmptyStatus, SaidReady, SaysReady
<1>5. QED
  BY <1>2, <1>3, <1>4 DEF ReadinessInv

\* A status that says Ready of the object's own generation is right, and no reconcile that
\* is based on an older copy can make it wrong.
THEOREM ReadinessIsInvariant ==
  ASSUME "create" \notin UserActions, NobodyElse
  PROVE  Spec => []ReadinessInv
<1>1. Init => ReadinessInv
  BY ReadinessInvInit
<1>2. ASSUME TypeInv, ControlInv, NameInv, DeployedInv, ReadinessInv, [Next]_vars
      PROVE  ReadinessInv'
  <2>1. CASE StartReconcile \/ ReconcileStep
    BY <1>2, <2>1, ReconcileKeepsTelling, ReconcileKeepsDeployment, ReconcileKeepsDeletion,
       ReconcileKeepsFirst, ReconcileKeepsReady DEF ReadinessInv
  <2>2. CASE \/ TimerFires \/ CacheSync \/ Restart \/ Users \/ Aws \/ Crash \/ UNCHANGED vars
    <3>1. StackTells'
      <4>1. CASE Aws
        BY <1>2, <4>1, AwsKeepsTelling DEF ReadinessInv
      <4>2. CASE ~Aws
        <5>1. UNCHANGED service
          BY <2>2, <4>2 DEF TimerFires, CacheSync, Restart, Users, EditSpec, DeleteObject,
                            CreateObject, SourceChanges, Crash, vars, service
        <5>2. QED
          BY <1>2, <5>1 DEF ReadinessInv, StackTells, Executing, Live, service
      <4>3. QED
        BY <4>1, <4>2
    <3>2. QED
      BY <1>2, <2>2, <3>1, SurroundingsKeepDeployment, SurroundingsKeepDeletion,
         SurroundingsKeepFirst, SurroundingsKeepReady DEF ReadinessInv
  <2>3. QED
    BY <1>2, <2>1, <2>2 DEF Next, Controller
<1>3. Spec => []TypeInv
  BY TypeCorrectness DEF TypeInv
<1>4. QED
  BY <1>1, <1>2, <1>3, ControlIsInvariant, NamesAreInvariant, DeployedIsInvariant, PTL DEF Spec

\* A Ready condition that names the object's own generation means that the stack holds
\* what this generation renders to, although the status is put together from patches
\* computed from older copies of it; unless objects of the same name follow one another
\* or somebody else works on the stack.
THEOREM ReadyTellsTheGeneration ==
  ASSUME "create" \notin UserActions, NobodyElse
  PROVE  Spec => []ReadyIsForGeneration
<1>1. ReadinessInv => ReadyIsForGeneration
  BY DEF ReadinessInv, ReadyInv, SaidReady, Settled, ReadyIsForGeneration
<1>2. QED
  BY <1>1, ReadinessIsInvariant, PTL

===============================================================================
