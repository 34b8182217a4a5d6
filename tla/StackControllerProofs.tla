------------------------ MODULE StackControllerProofs ------------------------
(***************************************************************************)
(* Theorems about StackController, for every value of its constants.       *)
(***************************************************************************)
EXTENDS StackController, TLAPS

-----------------------------------------------------------------------------
(* The status vocabulary.                                                   *)

\* The verdicts over every status the service can report are exhaustive: the
\* branches of reconcileStack and reconcileDelete for a status they do not expect
\* are dead code.
THEOREM NoUnexpectedStackStatus ==
  ASSUME NEW st \in StackStatuses
  PROVE  /\ StackVerdict(st) \in {"create", "wait", "continueRollback", "cleanup", "update"}
         /\ DeletionVerdict(st) \in {"gone", "wait", "delete"}
<1> USE DEF StackNotFound, StackInProgress, RequiresRollbackContinuation, RequiresCleanup,
            StackIsSuccess, IsRecoverableFailure, ReadyForCleanup
<1>1. \/ StackNotFound(st) \/ StackInProgress(st) \/ RequiresRollbackContinuation(st)
      \/ RequiresCleanup(st) \/ StackIsSuccess(st) \/ IsRecoverableFailure(st)
  BY DEF StackStatuses
<1>2. StackVerdict(st) \in {"create", "wait", "continueRollback", "cleanup", "update"}
  BY <1>1 DEF StackVerdict
<1>3. DeletionVerdict(st) \in {"gone", "wait", "delete"}
  BY DEF DeletionVerdict
<1>4. QED
  BY <1>2, <1>3

\* Neither is there a change set that reconcileChangeset does not expect, whichever
\* way the service combines its two statuses and its reason.
THEOREM NoUnexpectedChangeSet ==
  ASSUME NEW d \in Descriptions
  PROVE  ChangeSetVerdict(d) \in {"create", "deleteEmpty", "deleteFailed", "wait", "ready", "execute"}
<1>1. /\ d.status \in ChangeSetStatuses /\ d.execution \in ExecutionStatuses
  BY DEF Descriptions
<1>2. \/ IsDeleted(d) \/ IsFailed(d) \/ ChangeSetInProgress(d) \/ IsSuccess(d) \/ ReadyForExecution(d)
  BY <1>1 DEF ChangeSetStatuses, ExecutionStatuses, IsDeleted, IsFailed, ChangeSetInProgress,
              IsSuccess, ReadyForExecution, IsCreated
<1>3. QED
  BY <1>2 DEF ChangeSetVerdict

-----------------------------------------------------------------------------
(* What the operators the actions are built from return.                    *)

\* An update of the status is a status.
LEMMA UpdatesAreStatuses ==
  ASSUME NEW s \in Statuses, NEW gen \in 0..MaxGeneration,
         NEW revision \in Revisions \cup {NoRevision}, NEW arn \in Arns \cup {NoArn}
  PROVE  /\ Progressing(s, gen, revision, arn) \in Statuses
         /\ NotReady(s, gen, revision, arn) \in Statuses
         /\ Ready(s, gen, arn) \in Statuses
<1>1. \A ready \in Conditions : SetReadiness(s, gen, ready, revision, arn) \in Statuses
  BY DEF SetReadiness, Statuses
<1>2. Ready(s, gen, arn) \in Statuses
  <2>1. s.lastAttemptedRevision \in Revisions \cup {NoRevision}
    BY DEF Statuses
  <2>2. SetReadiness(s, gen, "True", s.lastAttemptedRevision, arn) \in Statuses
    BY <2>1 DEF SetReadiness, Statuses, Conditions
  <2>3. QED
    BY <2>2 DEF Ready, Statuses
<1>3. QED
  BY <1>1, <1>2 DEF Progressing, NotReady, Conditions

\* So is what a merge patch leaves at the server.
LEMMA PatchesAreStatuses ==
  ASSUME NEW live \in Statuses, NEW base \in Statuses, NEW new \in Statuses
  PROVE  Patched(live, base, new) \subseteq Statuses
<1> SUFFICES ASSUME NEW condition \in Statuses
             PROVE  [f \in DOMAIN live |->
                       IF f \in ConditionFields THEN condition[f]
                       ELSE IF new[f] # base[f] THEN new[f] ELSE live[f]] \in Statuses
  BY DEF Patched
<1> QED
  BY DEF ConditionFields, Statuses

\* No object is a value of its own among the objects.
LEMMA NoObjectType == NoObject \in Objects /\ NoObject.gen = 0 /\ ~NoObject.deleting
<1>1. \E s \in Specs : TRUE
  <2>1. PICK t \in Templates : TRUE
    BY ControllerConstants
  <2>2. [template |-> t, suspend |-> FALSE, destroy |-> FALSE, retry |-> FALSE,
         dependsOn |-> FALSE] \in Specs
    BY <2>1 DEF Specs
  <2>3. QED
    BY <2>2
<1>2. (CHOOSE s \in Specs : TRUE) \in Specs
  BY <1>1
<1>3. 0 \in 0..MaxGeneration
  BY ServiceConstants
<1>4. QED
  BY <1>2, <1>3 DEF NoObject, Objects

LEMMA EmptyStatusType == EmptyStatus \in Statuses
<1>1. 0 \in 0..MaxGeneration
  BY ServiceConstants
<1>2. QED
  BY <1>1 DEF EmptyStatus, Statuses, Conditions

-----------------------------------------------------------------------------
(* The service: every call and every step of its own keeps it well typed.   *)

ServiceDataOK == stack \in Stacks /\ css \in [Arns -> Descriptions]

LEMMA FaultsAreCounted ==
  ASSUME faults \in 0..MaxFaults, NoFault \/ \E kind \in FaultKinds : Fault(kind)
  PROVE  faults' \in 0..MaxFaults
BY ServiceConstants DEF NoFault, Fault

LEMMA CallsKeepTypes ==
  ASSUME ServiceDataOK, NEW arn \in Arns \cup {NoArn}
  PROVE  /\ \A content \in Contents : \A isCreate \in BOOLEAN :
              CreateChangeSetCall(arn, content, isCreate) => ServiceDataOK'
         /\ ExecuteChangeSetCall(arn) => ServiceDataOK'
         /\ DeleteChangeSetCall(arn) => ServiceDataOK'
         /\ DeleteStackCall => ServiceDataOK'
         /\ ContinueRollbackCall => ServiceDataOK'
<1> USE DEF ServiceDataOK
<1>1. \A st \in {"REVIEW_IN_PROGRESS", "CREATE_IN_PROGRESS", "UPDATE_IN_PROGRESS",
                 "DELETE_IN_PROGRESS", "UPDATE_ROLLBACK_IN_PROGRESS"} :
        [stack EXCEPT !.status = st] \in Stacks
  BY DEF Stacks, StackStatuses, InProgressStackStatuses
<1>2. ASSUME NEW content \in Contents, NEW isCreate \in BOOLEAN,
             CreateChangeSetCall(arn, content, isCreate)
      PROVE  ServiceDataOK'
  <2>1. [content |-> content, status |-> "CREATE_IN_PROGRESS",
         execution |-> "UNAVAILABLE", reason |-> "none"] \in Descriptions
    BY DEF Descriptions, ChangeSetStatuses, InProgressChangeSetStatuses, ExecutionStatuses,
           InProgressChangeSetExecutionStatuses, StatusReasons
  <2>2. QED
    BY <1>1, <1>2, <2>1 DEF CreateChangeSetCall
<1>3. ASSUME ExecuteChangeSetCall(arn) PROVE ServiceDataOK'
  <2>1. Deleted \in Descriptions
    BY DEF Deleted, Descriptions, ChangeSetStatuses, ExecutionStatuses,
           InProgressChangeSetExecutionStatuses, StatusReasons
  <2>2. \A a \in Arns : [css[a] EXCEPT !.execution = "EXECUTE_IN_PROGRESS"] \in Descriptions
    BY DEF Descriptions, ExecutionStatuses, InProgressChangeSetExecutionStatuses
  <2>3. QED
    BY <1>1, <1>3, <2>1, <2>2 DEF ExecuteChangeSetCall
<1>4. ASSUME DeleteChangeSetCall(arn) PROVE ServiceDataOK'
  <2>1. \A a \in Arns : \A st \in {"DELETE_IN_PROGRESS", css[a].status} :
          [css[a] EXCEPT !.status = st] \in Descriptions
    BY DEF Descriptions, ChangeSetStatuses, InProgressChangeSetStatuses
  <2>2. QED
    BY <1>4, <2>1 DEF DeleteChangeSetCall
<1>5. ASSUME DeleteStackCall PROVE ServiceDataOK'
  BY <1>1, <1>5 DEF DeleteStackCall, Stacks
<1>6. ASSUME ContinueRollbackCall PROVE ServiceDataOK'
  BY <1>1, <1>6 DEF ContinueRollbackCall
<1>7. QED
  BY <1>2, <1>3, <1>4, <1>5, <1>6

LEMMA ServiceStepsKeepTypes ==
  ASSUME ServiceTypeOK,
         \/ ChangeSetCreated \/ ChangeSetCreationFails
         \/ ChangeSetDeleted \/ ChangeSetDeletionFails
         \/ StackActionSucceeds \/ StackActionFails
         \/ OutOfBandUpdate \/ OutOfBandDelete
  PROVE  ServiceTypeOK'
<1> USE DEF ServiceTypeOK
<1>1. Deleted \in Descriptions
  BY DEF Deleted, Descriptions, ChangeSetStatuses, ExecutionStatuses,
         InProgressChangeSetExecutionStatuses, StatusReasons
<1>2. ASSUME NEW a \in Arns
      PROVE  /\ \A st \in {"FAILED", "DELETE_FAILED"} :
                   [css[a] EXCEPT !.status = st] \in Descriptions
             /\ \A reason \in StatusReasons :
                   [css[a] EXCEPT !.status = "FAILED", !.reason = reason] \in Descriptions
             /\ [css[a] EXCEPT !.status = "CREATE_COMPLETE", !.execution = "AVAILABLE"]
                  \in Descriptions
             /\ \A x \in {"EXECUTE_COMPLETE", "EXECUTE_FAILED", "OBSOLETE"} :
                   [css[a] EXCEPT !.execution = x] \in Descriptions
  BY DEF Descriptions, ChangeSetStatuses, FailedChangeSetStatuses, ExecutionStatuses,
         FailedChangeSetExecutionStatuses
<1>3. Executed("EXECUTE_COMPLETE") \in [Arns -> Descriptions]
      /\ Executed("EXECUTE_FAILED") \in [Arns -> Descriptions]
  BY <1>2 DEF Executed
<1>4. CASE ChangeSetCreated
  <2>1. PICK a \in Arns :
          IF css[a].content = stack.content
            THEN \E reason \in EmptyReasons :
                   css' = [css EXCEPT ![a].status = "FAILED", ![a].reason = reason]
            ELSE css' = [css EXCEPT ![a].status = "CREATE_COMPLETE",
                                    ![a].execution = "AVAILABLE"]
    BY <1>4 DEF ChangeSetCreated
  <2>2. EmptyReasons \subseteq StatusReasons
    BY ServiceConstants DEF StatusReasons
  <2>3. CASE \E reason \in EmptyReasons :
               css' = [css EXCEPT ![a].status = "FAILED", ![a].reason = reason]
    <3>1. PICK reason \in EmptyReasons :
            css' = [css EXCEPT ![a].status = "FAILED", ![a].reason = reason]
      BY <2>3
    <3>2. css' = [css EXCEPT ![a] = [css[a] EXCEPT !.status = "FAILED", !.reason = reason]]
      BY <3>1 DEF Descriptions
    <3>3. QED
      BY <1>2, <1>4, <2>2, <3>2 DEF ChangeSetCreated, NoFault
  <2>4. CASE css' = [css EXCEPT ![a].status = "CREATE_COMPLETE", ![a].execution = "AVAILABLE"]
    <3>1. css' = [css EXCEPT ![a] = [css[a] EXCEPT !.status = "CREATE_COMPLETE",
                                                   !.execution = "AVAILABLE"]]
      BY <2>4 DEF Descriptions
    <3>2. QED
      BY <1>2, <1>4, <3>1 DEF ChangeSetCreated, NoFault
  <2>5. QED
    BY <2>1, <2>3, <2>4
<1>5. CASE ChangeSetCreationFails
  <2>1. PICK a \in Arns :
          css' = [css EXCEPT ![a].status = "FAILED", ![a].reason = "other"]
    BY <1>5 DEF ChangeSetCreationFails
  <2>2. css' = [css EXCEPT ![a] = [css[a] EXCEPT !.status = "FAILED", !.reason = "other"]]
    BY <2>1 DEF Descriptions
  <2>3. [css[a] EXCEPT !.status = "FAILED", !.reason = "other"] \in Descriptions
    BY <1>2 DEF StatusReasons
  <2>4. QED
    BY <1>5, <2>2, <2>3, FaultsAreCounted DEF ChangeSetCreationFails, Fault
<1>6. CASE ChangeSetDeleted
  BY <1>1, <1>6 DEF ChangeSetDeleted, NoFault
<1>7. CASE ChangeSetDeletionFails
  BY <1>2, <1>7, FaultsAreCounted DEF ChangeSetDeletionFails, Fault
<1>8. CASE StackActionSucceeds
  <2>1. {"CREATE_COMPLETE", "UPDATE_COMPLETE", "ROLLBACK_COMPLETE",
         "UPDATE_ROLLBACK_COMPLETE", "DELETE_COMPLETE"} \subseteq StackStatuses
    BY DEF StackStatuses, SuccessfulDeploymentStackStatuses,
           UnrecoverableFailureStackStatuses, RecoverableFailureStackStatuses
  <2>2. \A a \in Arns : css[a].content \in Contents \cup {NoContent}
    BY DEF Descriptions
  <2>3. stack' \in Stacks
    BY <1>8, <2>1, <2>2 DEF StackActionSucceeds, Stacks
  <2>4. css' \in [Arns -> Descriptions]
    BY <1>1, <1>3, <1>8 DEF StackActionSucceeds
  <2>5. QED
    BY <1>8, <2>3, <2>4 DEF StackActionSucceeds, NoFault
<1>9. CASE StackActionFails
  <2>1. \A st : FailsTo(st) \subseteq StackStatuses
    BY DEF FailsTo, StackStatuses, InProgressStackStatuses,
           UnrecoverableFailureStackStatuses, RecoverableFailureStackStatuses
  <2>2. stack' \in Stacks
    BY <1>9, <2>1 DEF StackActionFails, Stacks
  <2>3. css' \in [Arns -> Descriptions]
    BY <1>3, <1>9 DEF StackActionFails
  <2>4. faults' \in 0..MaxFaults
    BY <1>9, ServiceConstants DEF StackActionFails, Fault
  <2>5. QED
    BY <2>2, <2>3, <2>4
<1>10. CASE OutOfBandUpdate
  <2>1. "UPDATE_COMPLETE" \in StackStatuses
    BY DEF StackStatuses, SuccessfulDeploymentStackStatuses
  <2>2. stack' \in Stacks
    BY <1>10, <2>1 DEF OutOfBandUpdate, Stacks
  <2>3. css' \in [Arns -> Descriptions]
    BY <1>2, <1>10 DEF OutOfBandUpdate
  <2>4. QED
    BY <1>10, <2>2, <2>3, ServiceConstants DEF OutOfBandUpdate, Fault
<1>11. CASE OutOfBandDelete
  <2>1. ServiceDataOK'
    BY <1>11, CallsKeepTypes DEF OutOfBandDelete, ServiceDataOK
  <2>2. QED
    BY <1>11, <2>1, ServiceConstants DEF OutOfBandDelete, Fault, ServiceDataOK
<1>12. QED
  BY <1>4, <1>5, <1>6, <1>7, <1>8, <1>9, <1>10, <1>11

-----------------------------------------------------------------------------
(* Type correctness.  What a change set is created from is rendered at the   *)
(* revision the reconcile has read: past that point there is one.            *)

RevisionRead ==
  pc \in {"describeStack", "continueRollback", "cleanup", "describeChangeSet", "upload",
          "create", "deleteEmpty", "deleteFailed", "execute"}
    => clientStack.revision \in Revisions

TypeInv == TypeOK /\ RevisionRead

LEMMA ForgettingKeepsTypes ==
  ASSUME ForgetLocals, pc' \in {"idle", "down"}
  PROVE  LocalTypeOK' /\ RevisionRead'
BY NoObjectType, EmptyStatusType
   DEF ForgetLocals, LocalTypeOK, RevisionRead, PCs, NoClientStack, ClientStacks, Waits

LEMMA ReturningKeepsTypes ==
  ASSUME QueueTypeOK, \/ ReturnError \/ ReturnNothing \/ ReturnAfter(result)
  PROVE  LocalTypeOK' /\ RevisionRead' /\ QueueTypeOK'
<1>1. pc' = "idle" /\ ForgetLocals
  BY DEF ReturnError, ReturnNothing, ReturnAfter
<1>2. LocalTypeOK' /\ RevisionRead'
  BY <1>1, ForgettingKeepsTypes
<1>3. \A wait : (wait \in Waits) \in BOOLEAN
  OBVIOUS
<1>4. delayed' \in BOOLEAN
  BY <1>3, Zenon DEF ReturnError, ReturnNothing, ReturnAfter, QueueTypeOK, queue
<1>5. queued' \in BOOLEAN
  BY DEF ReturnError, ReturnNothing, ReturnAfter, QueueTypeOK, queue
<1>6. QED
  BY <1>2, <1>4, <1>5 DEF QueueTypeOK

LEMMA ReportingKeepsTypes ==
  ASSUME LocalTypeOK, NEW s \in Statuses, NEW wait \in Waits, Report(s, wait)
  PROVE  LocalTypeOK' /\ RevisionRead'
BY DEF Report, LocalTypeOK, RevisionRead, PCs, NoClientStack, ClientStacks

LEMMA FailingKeepsTypes ==
  ASSUME LocalTypeOK, ApiCallFails
  PROVE  LocalTypeOK' /\ RevisionRead'
<1>1. cfnObj.gen \in 0..MaxGeneration
  BY DEF LocalTypeOK, Objects
<1>2. clientStack.revision \in Revisions \cup {NoRevision}
  BY DEF LocalTypeOK, ClientStacks
<1>3. NotReady(cfnStatus, cfnObj.gen, clientStack.revision, NoArn) \in Statuses
  BY <1>1, <1>2, UpdatesAreStatuses DEF LocalTypeOK
<1>4. "backoff" \in Waits
  BY DEF Waits
<1>5. QED
  BY <1>3, <1>4, ReportingKeepsTypes DEF ApiCallFails

LEMMA WritingKeepsTypes ==
  ASSUME CacheTypeOK, NEW kind \in Lags, CacheUnsynced(kind)
  PROVE  CacheTypeOK'
BY DEF CacheTypeOK, CacheUnsynced, Behind, Lags

LEMMA PatchingKeepsTypes ==
  ASSUME ServerTypeOK, CacheTypeOK, NEW s \in Statuses, PatchEffect(s)
  PROVE  ServerTypeOK' /\ CacheTypeOK'
<1>1. status' \in Statuses
  BY PatchesAreStatuses DEF ServerTypeOK, CacheTypeOK, PatchEffect
<1>2. CacheTypeOK'
  BY WritingKeepsTypes DEF PatchEffect, Lags
<1>3. QED
  BY <1>1, <1>2 DEF PatchEffect, ServerTypeOK

\* Every status a reconcile may report, from what it holds.
LEMMA ReportsAreStatuses ==
  ASSUME LocalTypeOK
  PROVE  /\ \A revision \in Revisions \cup {NoRevision} : \A arn \in Arns \cup {NoArn} :
              /\ Progressing(cfnStatus, cfnObj.gen, revision, arn) \in Statuses
              /\ NotReady(cfnStatus, cfnObj.gen, revision, arn) \in Statuses
              /\ Ready(cfnStatus, cfnObj.gen, arn) \in Statuses
         /\ NoRevision \in Revisions \cup {NoRevision}
         /\ NoArn \in Arns \cup {NoArn}
         /\ clientStack.revision \in Revisions \cup {NoRevision}
         /\ clientStack.arn \in Arns \cup {NoArn}
         /\ RetryInterval(cfnObj.spec) \in Waits
         /\ {"poll", "interval", "retry", "dependency", "backoff"} \subseteq Waits
<1>1. cfnObj.gen \in 0..MaxGeneration
  BY DEF LocalTypeOK, Objects
<1>2. \A revision \in Revisions \cup {NoRevision} : \A arn \in Arns \cup {NoArn} :
        /\ Progressing(cfnStatus, cfnObj.gen, revision, arn) \in Statuses
        /\ NotReady(cfnStatus, cfnObj.gen, revision, arn) \in Statuses
        /\ Ready(cfnStatus, cfnObj.gen, arn) \in Statuses
  BY <1>1, UpdatesAreStatuses DEF LocalTypeOK
<1>3. clientStack.revision \in Revisions \cup {NoRevision}
      /\ clientStack.arn \in Arns \cup {NoArn}
  BY DEF LocalTypeOK, ClientStacks
<1>4. QED
  BY <1>2, <1>3 DEF RetryInterval, Waits

LEMMA TypeInvInit == Init => TypeInv
<1> SUFFICES ASSUME Init PROVE TypeInv
  OBVIOUS
<1>1. ServiceTypeOK
  BY ServiceConstants
     DEF Init, ServiceInit, ServiceTypeOK, Deleted, Descriptions, ChangeSetStatuses,
         ExecutionStatuses, InProgressChangeSetExecutionStatuses, StatusReasons
<1>2. ServerTypeOK
  BY EmptyStatusType, ServiceConstants, ControllerConstants DEF Init, ServerTypeOK, Objects
<1>3. CacheTypeOK
  BY EmptyStatusType, NoObjectType DEF Init, CacheTypeOK, Lags
<1>4. LocalTypeOK
  BY EmptyStatusType, NoObjectType
     DEF Init, LocalTypeOK, PCs, NoClientStack, ClientStacks, Waits
<1>5. QueueTypeOK
  BY DEF Init, QueueTypeOK
<1>6. WorldTypeOK
  <2>1. source \in Revisions \cup {NoRevision}
    BY ControllerConstants DEF Init
  <2>2. edits \in 0..MaxEdits
    BY ControllerConstants DEF Init
  <2>3. QED
    BY <2>1, <2>2 DEF WorldTypeOK
<1>7. RevisionRead
  BY DEF Init, RevisionRead
<1>8. QED
  BY <1>1, <1>2, <1>3, <1>4, <1>5, <1>6, <1>7 DEF TypeInv, TypeOK

\* The reconciler's steps, one by one.
LEMMA ReconcileKeepsTypes ==
  ASSUME TypeInv, StartReconcile \/ ReconcileStep
  PROVE  TypeInv'
<1> USE DEF TypeInv, TypeOK
<1>0. ServiceTypeOK /\ ServerTypeOK /\ CacheTypeOK /\ QueueTypeOK /\ LocalTypeOK
      /\ WorldTypeOK /\ RevisionRead /\ ServiceDataOK /\ faults \in 0..MaxFaults
  BY DEF ServiceTypeOK, ServiceDataOK
<1>1. ASSUME NEW o \in Objects, NEW st \in Statuses
      PROVE  AfterFinalizer(o, st)
               \in {"removeFinalizer", "describeForDelete", "idle", "observe", "source"}
  BY <1>1 DEF AfterFinalizer, Objects, Specs
<1>2. ASSUME UNCHANGED service, faults' \in 0..MaxFaults
      PROVE  ServiceTypeOK'
  BY <1>0, <1>2 DEF service, ServiceTypeOK
<1>3. ASSUME ServiceDataOK', faults' \in 0..MaxFaults
      PROVE  ServiceTypeOK'
  BY <1>3 DEF ServiceDataOK, ServiceTypeOK
<1>4. NoFault => faults' \in 0..MaxFaults
  BY <1>0 DEF NoFault
<1>5. \A kind \in {"api", "reply", "kube", "kubeReply", "source", "dependency"} :
        Fault(kind) => faults' \in 0..MaxFaults
  BY <1>0, FaultsAreCounted DEF Fault
<1>6. Outside => ServerTypeOK' /\ CacheTypeOK' /\ QueueTypeOK' /\ WorldTypeOK'
  BY <1>0 DEF Outside, server, cache, queue, world, ServerTypeOK, CacheTypeOK,
              QueueTypeOK, WorldTypeOK
<1>7. ASSUME NEW p \in PCs, Goto(p), At("describeStack") \/ At("describeChangeSet")
                \/ At("upload") \/ At("describeForDelete") \/ At("continueRollback")
      PROVE  LocalTypeOK' /\ (~At("describeForDelete") => RevisionRead')
  BY <1>0, <1>7 DEF Goto, At, LocalTypeOK, RevisionRead
<1>8. Outside => UNCHANGED <<server, cache, queue, world>>
  BY DEF Outside
<1>10. CASE StartReconcile
  <2>1. LocalTypeOK' /\ RevisionRead'
    <3>1. CASE pc' = "idle"
      BY <1>10, <3>1, ForgettingKeepsTypes DEF StartReconcile
    <3>2. CASE pc' # "idle"
      <4>1. pc' \in {"addFinalizer", "removeFinalizer", "describeForDelete", "observe", "source"}
        BY <1>0, <1>1, <1>10, <3>2 DEF StartReconcile, CacheTypeOK
      <4>2. held' \in BOOLEAN
        BY <1>10, <3>2 DEF StartReconcile
      <4>3. QED
        BY <1>0, <1>10, <3>2, <4>1, <4>2
           DEF StartReconcile, CacheTypeOK, LocalTypeOK, RevisionRead, PCs
    <3>3. QED
      BY <3>1, <3>2
  <2>2. ServiceTypeOK'
    BY <1>2, <1>4, <1>10 DEF StartReconcile
  <2>3. ServerTypeOK' /\ CacheTypeOK' /\ QueueTypeOK' /\ WorldTypeOK'
    BY <1>0, <1>10 DEF StartReconcile, server, cache, world, ServerTypeOK, CacheTypeOK,
                       QueueTypeOK, WorldTypeOK
  <2>4. QED
    BY <2>1, <2>2, <2>3
<1>11. CASE AddFinalizer
  <2>1. ServiceTypeOK' /\ WorldTypeOK'
    BY <1>0, <1>2, <1>4, <1>5, <1>11 DEF AddFinalizer, world, WorldTypeOK
  <2>2. [obj EXCEPT !.finalizer = TRUE] \in Objects
    BY <1>0 DEF ServerTypeOK, Objects
  <2>3. ServerTypeOK' /\ CacheTypeOK'
    BY <1>0, <1>11, <2>2, WritingKeepsTypes
       DEF AddFinalizer, server, cache, ServerTypeOK, CacheTypeOK, Lags
  <2>4. LocalTypeOK' /\ RevisionRead' /\ QueueTypeOK'
    <3>1. CASE ReturnError
      BY <1>0, <3>1, ReturningKeepsTypes
    <3>2. CASE ~ReturnError
      <4>1. /\ obj' = [obj EXCEPT !.finalizer = TRUE] /\ UNCHANGED status
            /\ pc' = AfterFinalizer(obj', status)
            /\ IF pc' = "idle" THEN ForgetLocals
               ELSE /\ cfnObj' = obj' /\ cfnStatus' = status /\ held' = obj'.deleting
                    /\ UNCHANGED <<clientStack, result>>
            /\ UNCHANGED queue
        BY <1>11, <3>2 DEF AddFinalizer
      <4>2. pc' \in {"removeFinalizer", "describeForDelete", "idle", "observe", "source"}
        BY <1>0, <1>1, <2>2, <4>1 DEF ServerTypeOK
      <4>3. QueueTypeOK'
        BY <1>0, <4>1 DEF QueueTypeOK, queue
      <4>4. CASE pc' = "idle"
        BY <4>1, <4>3, <4>4, ForgettingKeepsTypes
      <4>5. CASE pc' # "idle"
        <5>1. held' \in BOOLEAN
          BY <2>2, <4>1, <4>5 DEF Objects
        <5>2. QED
          BY <1>0, <2>2, <4>1, <4>2, <4>3, <4>5, <5>1
             DEF ServerTypeOK, LocalTypeOK, RevisionRead, PCs
      <4>6. QED
        BY <4>4, <4>5
    <3>3. QED
      BY <3>1, <3>2
  <2>5. QED
    BY <2>1, <2>3, <2>4
<1>12. CASE ObserveGeneration
  <2> DEFINE s == Progressing(cfnStatus, cfnObj.gen, NoRevision, NoArn)
  <2>1. s \in Statuses
    BY <1>0, ReportsAreStatuses
  <2>2. ServiceTypeOK' /\ WorldTypeOK' /\ QueueTypeOK'
    BY <1>0, <1>2, <1>4, <1>5, <1>12
       DEF ObserveGeneration, PatchCall, world, queue, WorldTypeOK, QueueTypeOK
  <2>3. ServerTypeOK' /\ CacheTypeOK'
    BY <1>0, <1>12, <2>1, PatchingKeepsTypes
       DEF ObserveGeneration, PatchCall, server, cache, ServerTypeOK, CacheTypeOK
  <2>4. LocalTypeOK' /\ RevisionRead'
    <3>1. CASE Report(s, "backoff")
      BY <1>0, <2>1, <3>1, ReportingKeepsTypes DEF Waits
    <3>2. CASE pc' = "source" /\ cfnStatus' = s
               /\ UNCHANGED <<cfnObj, held, clientStack, result>>
      BY <1>0, <2>1, <3>2 DEF LocalTypeOK, RevisionRead, PCs
    <3>3. QED
      BY <1>12, <3>1, <3>2 DEF ObserveGeneration, PatchCall
  <2>5. QED
    BY <2>2, <2>3, <2>4
<1>13. CASE ReconcileSource
  <2>1. ServiceTypeOK' /\ ServerTypeOK' /\ CacheTypeOK' /\ QueueTypeOK' /\ WorldTypeOK'
    BY <1>2, <1>4, <1>5, <1>6, <1>13 DEF ReconcileSource, SourceMissing, SourceFails, DependencyNotReady, BuildClientStack
  <2>2. LocalTypeOK' /\ RevisionRead'
    <3>1. ASSUME NEW revision \in Revisions \cup {NoRevision}, NEW wait \in Waits,
                 Report(NotReady(cfnStatus, cfnObj.gen, revision, NoArn), wait)
          PROVE  LocalTypeOK' /\ RevisionRead'
      BY <1>0, <3>1, ReportsAreStatuses, ReportingKeepsTypes
    <3>2. CASE At("source") /\ pc' = "describeStack" /\ source # NoRevision
               /\ LET last == cfnStatus.lastAttemptedChangeSet
                  IN clientStack' =
                       [revision |-> source,
                        arn |-> IF HasName(last, GetChangeSetName(cfnObj.gen, source))
                                  THEN last ELSE NoArn,
                        isCreate |-> FALSE]
               /\ UNCHANGED <<cfnObj, cfnStatus, held, result>>
      <4>1. cfnStatus.lastAttemptedChangeSet \in Arns \cup {NoArn}
        BY <1>0 DEF LocalTypeOK, Statuses
      <4>2. source \in Revisions
        BY <1>0, <3>2 DEF WorldTypeOK
      <4>3. QED
        BY <1>0, <3>2, <4>1, <4>2 DEF LocalTypeOK, RevisionRead, PCs, ClientStacks
    <3>3. source \in Revisions \cup {NoRevision} /\ NoRevision \in Revisions \cup {NoRevision}
      BY <1>0 DEF WorldTypeOK
    <3>4. QED
      BY <1>0, <1>13, <3>1, <3>2, <3>3, ReportsAreStatuses
         DEF ReconcileSource, SourceMissing, SourceFails, DependencyNotReady, BuildClientStack
  <2>3. QED
    BY <2>1, <2>2
<1>14. CASE DescribeStack
  <2>1. ServiceTypeOK' /\ ServerTypeOK' /\ CacheTypeOK' /\ QueueTypeOK' /\ WorldTypeOK'
    BY <1>2, <1>4, <1>5, <1>6, <1>14 DEF DescribeStack
  <2>2. LocalTypeOK' /\ RevisionRead'
    <3>1. CASE ApiCallFails
      BY <1>0, <3>1, FailingKeepsTypes
    <3>2. CASE At("describeStack") /\ pc' = "describeChangeSet"
               /\ (\E isCreate \in BOOLEAN :
                     clientStack' = [clientStack EXCEPT !.isCreate = isCreate])
               /\ UNCHANGED <<cfnObj, cfnStatus, held, result>>
      BY <1>0, <3>2 DEF At, LocalTypeOK, RevisionRead, PCs, ClientStacks
    <3>3. CASE Report(Progressing(cfnStatus, cfnObj.gen, clientStack.revision, NoArn), "poll")
      BY <1>0, <3>3, ReportsAreStatuses, ReportingKeepsTypes
    <3>4. CASE At("describeStack") /\ \E p \in {"continueRollback", "cleanup"} : Goto(p)
      BY <1>0, <1>7, <3>4 DEF PCs, At
    <3>5. (StackVerdict(stack.status) = "create") \in BOOLEAN
      OBVIOUS
    <3>6. QED
      BY <1>14, <3>1, <3>2, <3>3, <3>4, <3>5 DEF DescribeStack
  <2>3. QED
    BY <2>1, <2>2
<1>15. CASE ContinueRollback
  <2>1. ServerTypeOK' /\ CacheTypeOK' /\ QueueTypeOK' /\ WorldTypeOK'
    BY <1>6, <1>15 DEF ContinueRollback
  <2>2. ServiceTypeOK'
    BY <1>0, <1>2, <1>3, <1>4, <1>5, <1>15, CallsKeepTypes DEF ContinueRollback, Call
  <2>3. LocalTypeOK' /\ RevisionRead'
    <3>1. CASE ApiCallFails
      BY <1>0, <3>1, FailingKeepsTypes
    <3>2. CASE Report(NotReady(cfnStatus, cfnObj.gen, clientStack.revision, NoArn), "retry")
      BY <1>0, <3>2, ReportsAreStatuses, ReportingKeepsTypes
    <3>3. CASE Goto("panic") /\ At("continueRollback")
      BY <1>0, <1>7, <3>3 DEF PCs, At
    <3>4. QED
      BY <1>15, <3>1, <3>2, <3>3 DEF ContinueRollback, Call
  <2>4. QED
    BY <2>1, <2>2, <2>3
<1>16. CASE RecoverPanic
  <2>1. ServiceTypeOK' /\ ServerTypeOK' /\ CacheTypeOK' /\ WorldTypeOK'
    BY <1>0, <1>2, <1>4, <1>16 DEF RecoverPanic, server, cache, world, ServerTypeOK,
                                   CacheTypeOK, WorldTypeOK
  <2>2. QED
    BY <1>0, <1>16, <2>1, ReturningKeepsTypes DEF RecoverPanic
<1>17. CASE CleanupStack
  <2>1. ServerTypeOK' /\ CacheTypeOK' /\ QueueTypeOK' /\ WorldTypeOK'
    BY <1>6, <1>17 DEF CleanupStack
  <2>2. ServiceTypeOK'
    BY <1>0, <1>2, <1>3, <1>4, <1>5, <1>17, CallsKeepTypes DEF CleanupStack, Call
  <2>3. LocalTypeOK' /\ RevisionRead'
    <3>1. CASE ApiCallFails
      BY <1>0, <3>1, FailingKeepsTypes
    <3>2. CASE Report(NotReady(cfnStatus, cfnObj.gen, clientStack.revision, NoArn),
                      RetryInterval(cfnObj.spec))
      BY <1>0, <3>2, ReportsAreStatuses, ReportingKeepsTypes
    <3>3. QED
      BY <1>17, <3>1, <3>2 DEF CleanupStack, Call
  <2>4. QED
    BY <2>1, <2>2, <2>3
<1>18. CASE DescribeChangeSet
  <2>1. ServiceTypeOK' /\ ServerTypeOK' /\ CacheTypeOK' /\ QueueTypeOK' /\ WorldTypeOK'
    BY <1>2, <1>4, <1>5, <1>6, <1>18 DEF DescribeChangeSet
  <2>2. LocalTypeOK' /\ RevisionRead'
    <3>1. CASE ApiCallFails
      BY <1>0, <3>1, FailingKeepsTypes
    <3>2. CASE Goto("upload") /\ At("describeChangeSet")
      BY <1>0, <1>7, <3>2 DEF PCs, At
    <3>3. ASSUME NEW arn \in Arns, At("describeChangeSet"),
                 \/ /\ pc' \in {"deleteEmpty", "deleteFailed", "execute"}
                    /\ clientStack' = [clientStack EXCEPT !.arn = arn]
                    /\ UNCHANGED <<cfnObj, cfnStatus, held, result>>
                 \/ Report(Progressing(cfnStatus, cfnObj.gen, clientStack.revision, arn), "poll")
                 \/ Report(Ready(cfnStatus, cfnObj.gen, arn), "interval")
          PROVE  LocalTypeOK' /\ RevisionRead'
      <4>1. CASE /\ pc' \in {"deleteEmpty", "deleteFailed", "execute"}
                 /\ clientStack' = [clientStack EXCEPT !.arn = arn]
                 /\ UNCHANGED <<cfnObj, cfnStatus, held, result>>
        BY <1>0, <3>3, <4>1 DEF At, LocalTypeOK, RevisionRead, PCs, ClientStacks
      <4>2. CASE Report(Progressing(cfnStatus, cfnObj.gen, clientStack.revision, arn), "poll")
        BY <1>0, <4>2, ReportsAreStatuses, ReportingKeepsTypes
      <4>3. CASE Report(Ready(cfnStatus, cfnObj.gen, arn), "interval")
        BY <1>0, <4>3, ReportsAreStatuses, ReportingKeepsTypes
      <4>4. QED
        BY <3>3, <4>1, <4>2, <4>3
    <3>4. Described(clientStack.arn, DesiredName) \subseteq Arns
      BY DEF Described
    <3>5. QED
      BY <1>18, <3>1, <3>2, <3>3, <3>4 DEF DescribeChangeSet
  <2>3. QED
    BY <2>1, <2>2
<1>19. CASE UploadTemplate
  <2>1. ServiceTypeOK' /\ ServerTypeOK' /\ CacheTypeOK' /\ QueueTypeOK' /\ WorldTypeOK'
    BY <1>2, <1>4, <1>5, <1>6, <1>19 DEF UploadTemplate
  <2>2. LocalTypeOK' /\ RevisionRead'
    <3>1. CASE ApiCallFails
      BY <1>0, <3>1, FailingKeepsTypes
    <3>2. CASE Goto("create") /\ At("upload")
      BY <1>0, <1>7, <3>2 DEF PCs, At
    <3>3. QED
      BY <1>19, <3>1, <3>2 DEF UploadTemplate
  <2>3. QED
    BY <2>1, <2>2
<1>20. CASE CreateChangeSet
  <2>1. ServerTypeOK' /\ CacheTypeOK' /\ QueueTypeOK' /\ WorldTypeOK'
    BY <1>6, <1>20 DEF CreateChangeSet
  <2> DEFINE content == Render[<<cfnObj.spec.template, clientStack.revision>>]
  <2>2. PICK arn \in Arns :
          Call(CreateAccepted(arn, clientStack.isCreate),
               CreateChangeSetCall(arn, content, clientStack.isCreate),
               Report(Progressing(cfnStatus, cfnObj.gen, clientStack.revision, arn), "poll"),
               ApiCallFails)
    BY <1>20 DEF CreateChangeSet, NewArns
  <2>3. content \in Contents /\ clientStack.isCreate \in BOOLEAN
    <3>1. clientStack.revision \in Revisions
      BY <1>0, <1>20 DEF CreateChangeSet, At, RevisionRead
    <3>2. cfnObj.spec.template \in Templates
      BY <1>0 DEF LocalTypeOK, Objects, Specs
    <3>3. content \in Contents
      BY <3>1, <3>2, ControllerConstants
    <3>4. clientStack.isCreate \in BOOLEAN
      BY <1>0 DEF LocalTypeOK, ClientStacks
    <3>5. QED
      BY <3>3, <3>4
  <2>4. ServiceTypeOK'
    BY <1>0, <1>2, <1>3, <1>4, <1>5, <2>2, <2>3, CallsKeepTypes DEF Call
  <2>5. LocalTypeOK' /\ RevisionRead'
    <3>1. CASE ApiCallFails
      BY <1>0, <3>1, FailingKeepsTypes
    <3>2. CASE Report(Progressing(cfnStatus, cfnObj.gen, clientStack.revision, arn), "poll")
      BY <1>0, <3>2, ReportsAreStatuses, ReportingKeepsTypes
    <3>3. QED
      BY <2>2, <3>1, <3>2 DEF Call
  <2>6. QED
    BY <2>1, <2>4, <2>5
<1>21. CASE DeleteEmptyChangeSet
  <2>1. ServerTypeOK' /\ CacheTypeOK' /\ QueueTypeOK' /\ WorldTypeOK'
    BY <1>6, <1>21 DEF DeleteEmptyChangeSet
  <2>2. ServiceTypeOK'
    BY <1>0, <1>2, <1>3, <1>4, <1>5, <1>21, ReportsAreStatuses, CallsKeepTypes DEF DeleteEmptyChangeSet, Call
  <2>3. LocalTypeOK' /\ RevisionRead'
    <3>1. CASE ApiCallFails
      BY <1>0, <3>1, FailingKeepsTypes
    <3>2. CASE Report(Ready(cfnStatus, cfnObj.gen, clientStack.arn), "interval")
      BY <1>0, <3>2, ReportsAreStatuses, ReportingKeepsTypes
    <3>3. QED
      BY <1>21, <3>1, <3>2 DEF DeleteEmptyChangeSet, Call
  <2>4. QED
    BY <2>1, <2>2, <2>3
<1>22. CASE DeleteFailedChangeSet
  <2>1. ServerTypeOK' /\ CacheTypeOK' /\ QueueTypeOK' /\ WorldTypeOK'
    BY <1>6, <1>22 DEF DeleteFailedChangeSet
  <2>2. ServiceTypeOK'
    BY <1>0, <1>2, <1>3, <1>4, <1>5, <1>22, ReportsAreStatuses, CallsKeepTypes DEF DeleteFailedChangeSet, Call
  <2>3. LocalTypeOK' /\ RevisionRead'
    <3>1. CASE ApiCallFails
      BY <1>0, <3>1, FailingKeepsTypes
    <3>2. CASE Report(NotReady(cfnStatus, cfnObj.gen, clientStack.revision, clientStack.arn),
                      RetryInterval(cfnObj.spec))
      BY <1>0, <3>2, ReportsAreStatuses, ReportingKeepsTypes
    <3>3. CASE Report(NotReady(cfnStatus, cfnObj.gen, clientStack.revision, clientStack.arn),
                      "backoff")
      BY <1>0, <3>3, ReportsAreStatuses, ReportingKeepsTypes
    <3>4. QED
      BY <1>22, <3>1, <3>2, <3>3 DEF DeleteFailedChangeSet, Call
  <2>4. QED
    BY <2>1, <2>2, <2>3
<1>23. CASE ExecuteChangeSet
  <2>1. ServerTypeOK' /\ CacheTypeOK' /\ QueueTypeOK' /\ WorldTypeOK'
    BY <1>6, <1>23 DEF ExecuteChangeSet
  <2>2. ServiceTypeOK'
    BY <1>0, <1>2, <1>3, <1>4, <1>5, <1>23, ReportsAreStatuses, CallsKeepTypes DEF ExecuteChangeSet, Call
  <2>3. LocalTypeOK' /\ RevisionRead'
    <3>1. CASE ApiCallFails
      BY <1>0, <3>1, FailingKeepsTypes
    <3>2. CASE Report(Progressing(cfnStatus, cfnObj.gen, NoRevision, NoArn), "poll")
      BY <1>0, <3>2, ReportsAreStatuses, ReportingKeepsTypes
    <3>3. CASE Report(NotReady(cfnStatus, cfnObj.gen, clientStack.revision, clientStack.arn),
                      "backoff")
      BY <1>0, <3>3, ReportsAreStatuses, ReportingKeepsTypes
    <3>4. QED
      BY <1>23, <3>1, <3>2, <3>3 DEF ExecuteChangeSet, Call
  <2>4. QED
    BY <2>1, <2>2, <2>3
<1>24. CASE DescribeStackForDelete
  <2>1. ServiceTypeOK' /\ ServerTypeOK' /\ CacheTypeOK' /\ QueueTypeOK' /\ WorldTypeOK'
    BY <1>2, <1>4, <1>5, <1>6, <1>24 DEF DescribeStackForDelete
  <2>2. LocalTypeOK' /\ RevisionRead'
    <3>1. CASE ApiCallFails
      BY <1>0, <3>1, FailingKeepsTypes
    <3>2. CASE \E p \in {"removeFinalizer", "deleteStack"} : Goto(p)
      BY <1>0, <3>2 DEF Goto, LocalTypeOK, RevisionRead, PCs
    <3>3. CASE Report(Progressing(cfnStatus, cfnObj.gen, NoRevision, NoArn), "poll")
      BY <1>0, <3>3, ReportsAreStatuses, ReportingKeepsTypes
    <3>4. QED
      BY <1>24, <3>1, <3>2, <3>3 DEF DescribeStackForDelete
  <2>3. QED
    BY <2>1, <2>2
<1>25. CASE DeleteStack
  <2>1. ServerTypeOK' /\ CacheTypeOK' /\ QueueTypeOK' /\ WorldTypeOK'
    BY <1>6, <1>25 DEF DeleteStack
  <2>2. ServiceTypeOK'
    BY <1>0, <1>2, <1>3, <1>4, <1>5, <1>25, ReportsAreStatuses, CallsKeepTypes DEF DeleteStack, Call
  <2>3. LocalTypeOK' /\ RevisionRead'
    <3>1. CASE ApiCallFails
      BY <1>0, <3>1, FailingKeepsTypes
    <3>2. CASE Report(Progressing(cfnStatus, cfnObj.gen, NoRevision, NoArn), "poll")
      BY <1>0, <3>2, ReportsAreStatuses, ReportingKeepsTypes
    <3>3. QED
      BY <1>25, <3>1, <3>2 DEF DeleteStack, Call
  <2>4. QED
    BY <2>1, <2>2, <2>3
<1>26. CASE RemoveFinalizer
  <2>1. ServiceTypeOK' /\ WorldTypeOK'
    BY <1>0, <1>2, <1>4, <1>5, <1>26 DEF RemoveFinalizer, world, WorldTypeOK
  <2>2. ServerTypeOK' /\ CacheTypeOK'
    BY <1>0, <1>26, NoObjectType, EmptyStatusType, WritingKeepsTypes
       DEF RemoveFinalizer, server, cache, ServerTypeOK, CacheTypeOK, Lags
  <2>3. LocalTypeOK' /\ RevisionRead' /\ QueueTypeOK'
    BY <1>0, <1>26, ReturningKeepsTypes DEF RemoveFinalizer
  <2>4. QED
    BY <2>1, <2>2, <2>3
<1>27. CASE PatchStatus
  <2>1. ServiceTypeOK' /\ WorldTypeOK'
    BY <1>0, <1>2, <1>4, <1>5, <1>27 DEF PatchStatus, PatchCall, world, WorldTypeOK
  <2>2. cfnStatus \in Statuses
    BY <1>0 DEF LocalTypeOK
  <2>3. ServerTypeOK' /\ CacheTypeOK'
    BY <1>0, <1>27, <2>2, PatchingKeepsTypes
       DEF PatchStatus, PatchCall, server, cache, ServerTypeOK, CacheTypeOK
  <2>4. LocalTypeOK' /\ RevisionRead' /\ QueueTypeOK'
    BY <1>0, <1>27, ReturningKeepsTypes DEF PatchStatus, PatchCall
  <2>5. QED
    BY <2>1, <2>3, <2>4
<1>28. QED
  BY <1>10, <1>11, <1>12, <1>13, <1>14, <1>15, <1>16, <1>17, <1>18, <1>19, <1>20, <1>21,
     <1>22, <1>23, <1>24, <1>25, <1>26, <1>27 DEF ReconcileStep

\* Everything else that happens.
LEMMA SurroundingsKeepTypes ==
  ASSUME TypeInv, \/ TimerFires \/ CacheSync \/ Restart \/ Users \/ Aws \/ Crash
                  \/ UNCHANGED vars
  PROVE  TypeInv'
<1> USE DEF TypeInv, TypeOK
<1>0. ServiceTypeOK /\ ServerTypeOK /\ CacheTypeOK /\ QueueTypeOK /\ LocalTypeOK
      /\ WorldTypeOK /\ RevisionRead
  OBVIOUS
<1>1. UNCHANGED <<service, faults>> => ServiceTypeOK'
  BY <1>0 DEF service, ServiceTypeOK
<1>2. UNCHANGED server => ServerTypeOK'
  BY <1>0 DEF server, ServerTypeOK
<1>3. UNCHANGED cache => CacheTypeOK'
  BY <1>0 DEF cache, CacheTypeOK
<1>4. UNCHANGED queue => QueueTypeOK'
  BY <1>0 DEF queue, QueueTypeOK
<1>5. UNCHANGED local => LocalTypeOK' /\ RevisionRead'
  BY <1>0 DEF local, LocalTypeOK, RevisionRead
<1>6. UNCHANGED world => WorldTypeOK'
  BY <1>0 DEF world, WorldTypeOK
<1>7. Overtaken => LocalTypeOK' /\ RevisionRead'
  BY <1>0 DEF Overtaken, LocalTypeOK, RevisionRead
<1>8. Edit /\ UNCHANGED source => WorldTypeOK'
  BY <1>0, ControllerConstants DEF Edit, WorldTypeOK
<1>9. \A spec \in UserSpecs : spec \in Specs
  BY ControllerConstants
<1>10. CASE TimerFires
  BY <1>0, <1>1, <1>2, <1>3, <1>5, <1>6, <1>10 DEF TimerFires, NoFault, QueueTypeOK
<1>11. CASE CacheSync
  <2>1. CacheTypeOK'
    BY <1>0, <1>11 DEF CacheSync, ServerTypeOK, CacheTypeOK, Lags
  <2>2. QueueTypeOK'
    <3>1. queued' \in BOOLEAN
      BY <1>0, <1>11, Zenon DEF CacheSync, QueueTypeOK
    <3>2. QED
      BY <1>0, <1>11, <3>1 DEF CacheSync, QueueTypeOK
  <2>3. QED
    BY <1>0, <1>1, <1>2, <1>5, <1>6, <1>11, <2>1, <2>2 DEF CacheSync, NoFault
<1>12. CASE Restart
  <2>1. CacheTypeOK'
    BY <1>0, <1>12 DEF Restart, ServerTypeOK, CacheTypeOK, Lags
  <2>2. QueueTypeOK'
    <3>1. queued' \in BOOLEAN
      BY <1>12 DEF Restart, Exists
    <3>2. QED
      BY <1>0, <1>12, <3>1 DEF Restart, QueueTypeOK
  <2>3. LocalTypeOK' /\ RevisionRead'
    BY <1>12, ForgettingKeepsTypes DEF Restart
  <2>4. QED
    BY <1>0, <1>1, <1>2, <1>6, <1>12, <2>1, <2>2, <2>3 DEF Restart, NoFault
<1>13. CASE Crash
  <2>1. CacheTypeOK'
    BY <1>13, NoObjectType, EmptyStatusType DEF Crash, CacheTypeOK, Lags
  <2>2. QueueTypeOK'
    BY <1>13 DEF Crash, QueueTypeOK
  <2>3. LocalTypeOK' /\ RevisionRead'
    BY <1>13, ForgettingKeepsTypes DEF Crash
  <2>4. ServiceTypeOK'
    BY <1>0, <1>13, ServiceConstants DEF Crash, Fault, service, ServiceTypeOK
  <2>5. QED
    BY <1>0, <1>2, <1>6, <1>13, <2>1, <2>2, <2>3, <2>4 DEF Crash
<1>14. CASE EditSpec
  <2>1. PICK spec \in UserSpecs : obj' = [obj EXCEPT !.spec = spec, !.gen = @ + 1]
    BY <1>14 DEF EditSpec
  <2>2. obj' \in Objects
    <3>1. obj.gen + 1 \in 0..MaxGeneration
      BY <1>0, <1>14, ServiceConstants DEF EditSpec, ServerTypeOK, Objects
    <3>2. QED
      BY <1>0, <1>9, <2>1, <3>1 DEF ServerTypeOK, Objects
  <2>3. ServerTypeOK' /\ CacheTypeOK'
    BY <1>0, <1>14, <2>2, WritingKeepsTypes DEF EditSpec, ServerTypeOK, Lags
  <2>4. QED
    BY <1>1, <1>4, <1>7, <1>8, <1>14, <2>3 DEF EditSpec, NoFault
<1>15. CASE DeleteObject
  <2>1. ServerTypeOK'
    <3>1. obj.gen + 1 \in 0..MaxGeneration
      BY <1>0, <1>15, ServiceConstants DEF DeleteObject, ServerTypeOK, Objects
    <3>2. [obj EXCEPT !.deleting = TRUE, !.gen = @ + 1] \in Objects
      BY <1>0, <3>1 DEF ServerTypeOK, Objects
    <3>3. QED
      BY <1>0, <1>15, <3>2, NoObjectType, EmptyStatusType DEF DeleteObject, ServerTypeOK
  <2>2. CacheTypeOK'
    BY <1>0, <1>15, WritingKeepsTypes DEF DeleteObject, Lags
  <2>3. QED
    BY <1>1, <1>4, <1>7, <1>8, <1>15, <2>1, <2>2 DEF DeleteObject, NoFault
<1>16. CASE CreateObject
  <2>1. PICK spec \in UserSpecs :
          obj' = [gen |-> 1, spec |-> spec, deleting |-> FALSE, finalizer |-> FALSE]
    BY <1>16 DEF CreateObject
  <2>2. obj' \in Objects
    BY <1>9, <2>1, ServiceConstants DEF Objects
  <2>3. ServerTypeOK' /\ CacheTypeOK'
    BY <1>0, <1>16, <2>2, EmptyStatusType, WritingKeepsTypes DEF CreateObject, ServerTypeOK, Lags
  <2>4. QED
    BY <1>1, <1>4, <1>5, <1>8, <1>16, <2>3 DEF CreateObject, NoFault
<1>17. CASE SourceChanges
  <2>1. WorldTypeOK'
    BY <1>0, <1>17, ControllerConstants DEF SourceChanges, Edit, WorldTypeOK
  <2>2. QueueTypeOK'
    <3>1. queued' \in BOOLEAN
      BY <1>0, <1>17, Zenon DEF SourceChanges, QueueTypeOK
    <3>2. QED
      BY <1>0, <1>17, <3>1 DEF SourceChanges, QueueTypeOK
  <2>3. QED
    BY <1>0, <1>1, <1>2, <1>3, <1>5, <1>17, <2>1, <2>2 DEF SourceChanges, NoFault
<1>18. CASE Aws
  <2>1. ServiceTypeOK'
    BY <1>0, <1>18, ServiceStepsKeepTypes DEF Aws, AwsStep
  <2>2. UNCHANGED <<server, cache, queue, local, world>>
    BY <1>18 DEF Aws, AwsStep
  <2>3. QED
    BY <1>2, <1>3, <1>4, <1>5, <1>6, <2>1, <2>2
<1>19. CASE UNCHANGED vars
  BY <1>1, <1>2, <1>3, <1>4, <1>5, <1>6, <1>19
     DEF vars, service, server, cache, queue, local, world
<1>20. QED
  BY <1>10, <1>11, <1>12, <1>13, <1>14, <1>15, <1>16, <1>17, <1>18, <1>19 DEF Users

\* Whatever users, sources, faults and the service do, every variable keeps its
\* type, and a change set is only ever created from a revision that was read.
THEOREM TypeCorrectness == Spec => [](TypeOK /\ RevisionRead)
<1>1. Init => TypeInv
  BY TypeInvInit
<1>2. TypeInv /\ [Next]_vars => TypeInv'
  BY ReconcileKeepsTypes, SurroundingsKeepTypes DEF Next, Controller
<1>3. QED
  BY <1>1, <1>2, PTL DEF Spec, TypeInv

-----------------------------------------------------------------------------
(* Control: no lost wakeup, and why deletions are right.                     *)

Outcomes == {"removeFinalizer", "describeForDelete", "idle", "observe", "source"}

\* Where a reconcile goes once the object has its finalizer.
LEMMA FinalizerDecides ==
  ASSUME NEW o \in Objects, NEW s \in Statuses
  PROVE  /\ AfterFinalizer(o, s) \in Outcomes
         /\ AfterFinalizer(o, s) = "idle" => ~o.deleting /\ o.spec.suspend
         /\ AfterFinalizer(o, s) = "describeForDelete" =>
              o.deleting /\ o.spec.destroy /\ ~o.spec.suspend
         /\ AfterFinalizer(o, s) = "removeFinalizer" =>
              o.deleting /\ (o.spec.suspend \/ ~o.spec.destroy)
BY DEF AfterFinalizer, Outcomes, Objects, Specs

Deciding == {"describeForDelete", "deleteStack", "removeFinalizer", "cleanup"}

Running(p) == p \notin {"idle", "down"}

\* A step of the reconcile that keeps to itself disturbs only its decisions.
LEMMA InnerStepsKeepControl ==
  ASSUME ControlInv, Outside, UNCHANGED <<cfnObj, held>>, Running(pc), Running(pc')
  PROVE  NoLostWakeup' /\ CacheIsCurrent' /\ ReconcileIsCurrent' /\ HeldIsCurrent'
<1>1. UNCHANGED <<obj, status, cachedObj, cachedStatus, lag, queued, delayed>>
  BY DEF Outside, server, cache, queue
<1>2. NoLostWakeup'
  BY DEF NoLostWakeup, Running, At
<1>3. CacheIsCurrent'
  BY <1>1 DEF ControlInv, CacheIsCurrent, Running, At, SameRequest
<1>4. ReconcileIsCurrent'
  BY <1>1 DEF ControlInv, ReconcileIsCurrent, Running, SameRequest
<1>5. HeldIsCurrent'
  BY <1>1 DEF ControlInv, HeldIsCurrent, Exists
<1>6. QED
  BY <1>2, <1>3, <1>4, <1>5

\* The ways such a step ends.
LEMMA InnerStepsEnd ==
  /\ \A s, wait : Report(s, wait) =>
       UNCHANGED <<cfnObj, held>> /\ Running(pc') /\ pc' \notin Deciding
  /\ ApiCallFails => UNCHANGED <<cfnObj, held>> /\ Running(pc') /\ pc' \notin Deciding
  /\ \A p : Goto(p) => UNCHANGED <<cfnObj, held>> /\ pc' = p
BY DEF Report, ApiCallFails, Goto, Running, Deciding

\* A write to the server that leaves the cache behind keeps what the cache's lag
\* says, whether or not it changes anything.
LEMMA WritesKeepCacheCurrent ==
  ASSUME CacheTypeOK, CacheIsCurrent, NEW kind \in {"status", "event"}, CacheUnsynced(kind),
         kind = "status" => SameRequest(obj', obj),
         ~At("down") \/ At("down")'
  PROVE  CacheIsCurrent'
<1>1. UNCHANGED <<cachedObj, cachedStatus>>
  BY DEF CacheUnsynced
<1>2. CASE obj' = obj /\ status' = status
  BY <1>1, <1>2 DEF CacheUnsynced, Behind, CacheIsCurrent, SameRequest, At
<1>3. CASE ~(obj' = obj /\ status' = status)
  <2>1. lag' = "event" \/ (lag # "event" /\ lag' = "status" /\ kind = "status")
    BY <1>3 DEF CacheUnsynced, Behind
  <2>2. QED
    BY <1>1, <2>1 DEF CacheIsCurrent, SameRequest, At
<1>4. QED
  BY <1>2, <1>3

\* When a reconcile returns, it schedules another, or there is nothing to forget.
LEMMA ReturnsKeepControl ==
  ASSUME LocalTypeOK, pc # "down", CacheIsCurrent',
         ReturnError \/ ReturnAfter(result)
  PROVE  ControlInv'
<1>1. "backoff" \in Waits /\ result \in Waits
  BY DEF LocalTypeOK, Waits
<1>2. delayed' /\ pc' = "idle" /\ ForgetLocals
  BY <1>1 DEF ReturnError, ReturnAfter
<1>3. NoLostWakeup' /\ ReconcileIsCurrent' /\ DecisionsHold'
  BY <1>2 DEF NoLostWakeup, ReconcileIsCurrent, DecisionsHold
<1>4. HeldIsCurrent'
  BY <1>2 DEF ForgetLocals, HeldIsCurrent
<1>5. QED
  BY <1>3, <1>4 DEF ControlInv

LEMMA StartKeepsControl ==
  ASSUME TypeInv, ControlInv, StartReconcile
  PROVE  ControlInv'
<1>1. CacheTypeOK /\ ServerTypeOK
  BY DEF TypeInv, TypeOK
<1>2. UNCHANGED <<obj, cachedObj, cachedStatus, lag, stack>> /\ pc = "idle"
  BY DEF StartReconcile, server, cache, service, At
<1>3. CacheIsCurrent
  BY DEF ControlInv
<1>4. lag # "event" => SameRequest(cachedObj, obj)
  BY <1>2, <1>3 DEF CacheIsCurrent, At
<1>5. lag = "fresh" => cachedObj = obj
  BY <1>2, <1>3 DEF CacheIsCurrent, At
<1>6. /\ AfterFinalizer(cachedObj, cachedStatus) \in Outcomes
      /\ AfterFinalizer(cachedObj, cachedStatus) = "idle" =>
           ~cachedObj.deleting /\ cachedObj.spec.suspend
      /\ AfterFinalizer(cachedObj, cachedStatus) = "describeForDelete" =>
           cachedObj.deleting /\ cachedObj.spec.destroy /\ ~cachedObj.spec.suspend
      /\ AfterFinalizer(cachedObj, cachedStatus) = "removeFinalizer" =>
           cachedObj.deleting /\ (cachedObj.spec.suspend \/ ~cachedObj.spec.destroy)
  BY <1>1, FinalizerDecides DEF CacheTypeOK
<1>7. pc' \in Outcomes \cup {"addFinalizer"}
  BY <1>6 DEF StartReconcile, Outcomes
<1>8. CacheIsCurrent'
  BY <1>2, <1>4, <1>5, <1>7 DEF CacheIsCurrent, SameRequest, At, Outcomes
<1>9. CASE pc' = "idle"
  <2>1. ~Exists(cachedObj) \/ (~cachedObj.deleting /\ cachedObj.spec.suspend)
    BY <1>6, <1>9 DEF StartReconcile
  <2>2. Managed(obj) => lag = "event"
    BY <1>4, <2>1 DEF Managed, SameRequest, Exists
  <2>3. NoLostWakeup'
    BY <1>2, <2>2 DEF NoLostWakeup, Managed, Exists
  <2>4. ReconcileIsCurrent' /\ DecisionsHold'
    BY <1>9 DEF ReconcileIsCurrent, DecisionsHold
  <2>5. HeldIsCurrent'
    BY <1>9 DEF StartReconcile, ForgetLocals, HeldIsCurrent
  <2>6. QED
    BY <1>8, <2>3, <2>4, <2>5 DEF ControlInv
<1>10. CASE pc' # "idle"
  <2>1. /\ cfnObj' = cachedObj /\ held' = (cachedObj.deleting /\ lag = "fresh")
        /\ Exists(cachedObj)
    BY <1>10 DEF StartReconcile
  <2>2. NoLostWakeup'
    BY <1>10 DEF NoLostWakeup, At
  <2>3. ReconcileIsCurrent'
    BY <1>2, <1>4, <2>1 DEF ReconcileIsCurrent, SameRequest
  <2>4. held' => cachedObj.deleting /\ lag = "fresh"
    BY <2>1
  <2>5. HeldIsCurrent'
    BY <1>2, <1>5, <2>1, <2>4 DEF HeldIsCurrent, Exists
  <2>6. DecisionsHold'
    <3>1. pc' \in {"describeForDelete", "deleteStack", "removeFinalizer", "cleanup"}
            => pc' = AfterFinalizer(cachedObj, cachedStatus)
      BY <1>10 DEF StartReconcile
    <3>2. QED
      BY <1>6, <1>7, <2>1, <3>1 DEF DecisionsHold, Outcomes
  <2>7. QED
    BY <1>8, <2>2, <2>3, <2>5, <2>6 DEF ControlInv
<1>11. QED
  BY <1>9, <1>10

LEMMA AddFinalizerKeepsControl ==
  ASSUME TypeInv, ControlInv, AddFinalizer
  PROVE  ControlInv'
<1>1. CacheTypeOK /\ ServerTypeOK /\ LocalTypeOK /\ CacheIsCurrent
  BY DEF TypeInv, TypeOK, ControlInv
<1>2. pc = "addFinalizer" /\ UNCHANGED stack
  BY DEF AddFinalizer, At, service
<1>3. SameRequest([obj EXCEPT !.finalizer = TRUE], obj)
      /\ [obj EXCEPT !.finalizer = TRUE] \in Objects
      /\ (Exists(obj) => Exists([obj EXCEPT !.finalizer = TRUE]))
  BY <1>1 DEF SameRequest, ServerTypeOK, Objects, Exists
<1>4. \/ UNCHANGED <<server, cache>>
      \/ obj' = [obj EXCEPT !.finalizer = TRUE] /\ CacheUnsynced("status")
  BY DEF AddFinalizer
<1>5. CacheIsCurrent'
  <2>1. CASE UNCHANGED <<server, cache>>
    BY <1>1, <1>2, <2>1 DEF CacheIsCurrent, SameRequest, At, server, cache
  <2>2. CASE obj' = [obj EXCEPT !.finalizer = TRUE] /\ CacheUnsynced("status")
    BY <1>1, <1>2, <1>3, <2>2, WritesKeepCacheCurrent DEF At
  <2>3. QED
    BY <1>4, <2>1, <2>2
<1>6. CASE ReturnError
  BY <1>1, <1>2, <1>5, <1>6, ReturnsKeepControl
<1>7. CASE ~ReturnError
  <2>1. /\ obj' = [obj EXCEPT !.finalizer = TRUE] /\ UNCHANGED status /\ Exists(obj)
        /\ pc' = AfterFinalizer(obj', status)
        /\ IF pc' = "idle" THEN ForgetLocals
           ELSE /\ cfnObj' = obj' /\ cfnStatus' = status /\ held' = obj'.deleting
                /\ UNCHANGED <<clientStack, result>>
    BY <1>7 DEF AddFinalizer
  <2>2. /\ pc' \in Outcomes
        /\ pc' = "idle" => ~obj'.deleting /\ obj'.spec.suspend
        /\ pc' = "describeForDelete" =>
             obj'.deleting /\ obj'.spec.destroy /\ ~obj'.spec.suspend
        /\ pc' = "removeFinalizer" =>
             obj'.deleting /\ (obj'.spec.suspend \/ ~obj'.spec.destroy)
    BY <1>1, <1>3, <2>1, FinalizerDecides DEF ServerTypeOK
  <2>3. NoLostWakeup'
    BY <2>2 DEF NoLostWakeup, Managed, Exists, At
  <2>4. ReconcileIsCurrent'
    BY <2>1, <2>2 DEF ReconcileIsCurrent, SameRequest, Outcomes
  <2>5. HeldIsCurrent'
    <3>1. CASE pc' = "idle"
      BY <2>1, <3>1 DEF ForgetLocals, HeldIsCurrent
    <3>2. CASE pc' # "idle"
      BY <1>3, <2>1, <3>2 DEF HeldIsCurrent, Exists
    <3>3. QED
      BY <3>1, <3>2
  <2>6. DecisionsHold'
    BY <2>1, <2>2 DEF DecisionsHold, Outcomes
  <2>7. QED
    BY <1>5, <2>3, <2>4, <2>5, <2>6 DEF ControlInv
<1>8. QED
  BY <1>6, <1>7

LEMMA ObserveKeepsControl ==
  ASSUME TypeInv, ControlInv, ObserveGeneration
  PROVE  ControlInv'
<1>1. CacheTypeOK /\ CacheIsCurrent /\ pc = "observe"
  BY DEF TypeInv, TypeOK, ControlInv, ObserveGeneration, At
<1>2. /\ UNCHANGED <<obj, queued, delayed, cfnObj, held>>
      /\ Running(pc') /\ pc' \notin Deciding
      /\ UNCHANGED cache \/ CacheUnsynced("status")
  BY InnerStepsEnd
     DEF ObserveGeneration, PatchCall, PatchEffect, server, queue, Running, Deciding
<1>3. CacheIsCurrent'
  <2>1. CASE UNCHANGED cache
    BY <1>1, <1>2, <2>1 DEF CacheIsCurrent, SameRequest, At, cache
  <2>2. CASE CacheUnsynced("status")
    BY <1>1, <1>2, <2>2, WritesKeepCacheCurrent DEF At, SameRequest
  <2>3. QED
    BY <1>2, <2>1, <2>2
<1>4. lag = "event" => lag' = "event"
  BY <1>2 DEF cache, CacheUnsynced, Behind
<1>5. NoLostWakeup' /\ DecisionsHold'
  BY <1>2 DEF NoLostWakeup, DecisionsHold, Running, Deciding, At
<1>6. ReconcileIsCurrent'
  BY <1>1, <1>2, <1>4 DEF ControlInv, ReconcileIsCurrent, SameRequest
<1>7. HeldIsCurrent'
  BY <1>2 DEF ControlInv, HeldIsCurrent, Exists
<1>8. QED
  BY <1>3, <1>5, <1>6, <1>7 DEF ControlInv

LEMMA PatchKeepsControl ==
  ASSUME TypeInv, ControlInv, PatchStatus
  PROVE  ControlInv'
<1>1. CacheTypeOK /\ LocalTypeOK /\ CacheIsCurrent /\ pc = "patchStatus"
  BY DEF TypeInv, TypeOK, ControlInv, PatchStatus, At
<1>2. /\ UNCHANGED obj
      /\ UNCHANGED cache \/ CacheUnsynced("status")
      /\ ReturnError \/ ReturnAfter(result)
  BY DEF PatchStatus, PatchCall, PatchEffect, server
<1>3. CacheIsCurrent'
  <2>1. CASE UNCHANGED cache
    BY <1>1, <1>2, <2>1 DEF CacheIsCurrent, SameRequest, At, cache
  <2>2. CASE CacheUnsynced("status")
    BY <1>1, <1>2, <2>2, WritesKeepCacheCurrent DEF At, SameRequest
  <2>3. QED
    BY <1>2, <2>1, <2>2
<1>4. QED
  BY <1>1, <1>2, <1>3, ReturnsKeepControl

LEMMA RemoveKeepsControl ==
  ASSUME TypeInv, ControlInv, RemoveFinalizer
  PROVE  ControlInv'
<1>1. CacheTypeOK /\ LocalTypeOK /\ CacheIsCurrent /\ pc = "removeFinalizer"
  BY DEF TypeInv, TypeOK, ControlInv, RemoveFinalizer, At
<1>2. CacheIsCurrent'
  <2>1. CASE UNCHANGED <<server, cache>>
    BY <1>1, <2>1 DEF CacheIsCurrent, SameRequest, At, server, cache
  <2>2. CASE CacheUnsynced("event")
    BY <1>1, <2>2, WritesKeepCacheCurrent DEF At
  <2>3. QED
    BY <2>1, <2>2 DEF RemoveFinalizer
<1>3. CASE ReturnError
  BY <1>1, <1>2, <1>3, ReturnsKeepControl
<1>4. CASE obj' = NoObject /\ ReturnNothing
  <2>1. pc' = "idle" /\ ForgetLocals
    BY <1>4 DEF ReturnNothing
  <2>2. NoLostWakeup'
    BY <1>4, NoObjectType DEF NoLostWakeup, Managed, Exists
  <2>3. ReconcileIsCurrent' /\ DecisionsHold' /\ HeldIsCurrent'
    BY <2>1 DEF ReconcileIsCurrent, DecisionsHold, HeldIsCurrent, ForgetLocals
  <2>4. QED
    BY <1>2, <2>2, <2>3 DEF ControlInv
<1>5. QED
  BY <1>3, <1>4 DEF RemoveFinalizer

\* The steps that call CloudFormation.
LEMMA CallsKeepControl ==
  ASSUME TypeInv, ControlInv,
         \/ ReconcileSource \/ DescribeStack \/ ContinueRollback \/ CleanupStack
         \/ DescribeChangeSet \/ UploadTemplate \/ CreateChangeSet
         \/ DeleteEmptyChangeSet \/ DeleteFailedChangeSet \/ ExecuteChangeSet
         \/ DescribeStackForDelete \/ DeleteStack
  PROVE  ControlInv'
<1>1. Outside /\ Running(pc)
  BY DEF ReconcileSource, DescribeStack, ContinueRollback, CleanupStack, DescribeChangeSet,
         UploadTemplate, CreateChangeSet, DeleteEmptyChangeSet, DeleteFailedChangeSet,
         ExecuteChangeSet, DescribeStackForDelete, DeleteStack, At, Running
<1> DEFINE Quiet == UNCHANGED <<cfnObj, held>> /\ Running(pc')
<1>2. ASSUME Quiet, DecisionsHold' PROVE ControlInv'
  BY <1>1, <1>2, InnerStepsKeepControl DEF ControlInv
<1>3. pc' \notin Deciding => DecisionsHold'
  BY DEF Deciding, DecisionsHold
<1>4. CASE ReconcileSource
  <2>1. Quiet /\ pc' \notin Deciding
    BY <1>4, InnerStepsEnd
       DEF ReconcileSource, SourceMissing, SourceFails, DependencyNotReady, BuildClientStack,
           Running, Deciding
  <2>2. QED
    BY <1>2, <1>3, <2>1
<1>5. CASE DescribeStack
  <2>1. CASE pc' = "cleanup"
    <3>1. StackVerdict(stack.status) = "cleanup" /\ Goto("cleanup") /\ UNCHANGED stack
      BY <1>5, <2>1, InnerStepsEnd DEF DescribeStack, service, Deciding
    <3>2. RequiresCleanup(stack.status)
      BY <3>1 DEF StackVerdict
    <3>3. Quiet
      BY <3>1, InnerStepsEnd DEF Running
    <3>4. DecisionsHold'
      BY <2>1, <3>1, <3>2 DEF DecisionsHold
    <3>5. QED
      BY <1>2, <3>3, <3>4
  <2>2. CASE pc' # "cleanup"
    <3>1. Quiet /\ pc' \notin Deciding
      BY <1>5, <2>2, InnerStepsEnd DEF DescribeStack, Running, Deciding
    <3>2. QED
      BY <1>2, <1>3, <3>1
  <2>3. QED
    BY <2>1, <2>2
<1>6. CASE ContinueRollback
  <2>1. Quiet /\ pc' \notin Deciding
    BY <1>6, InnerStepsEnd DEF ContinueRollback, Call, Running, Deciding
  <2>2. QED
    BY <1>2, <1>3, <2>1
<1>7. CASE CleanupStack
  <2>1. Quiet /\ pc' \notin Deciding
    BY <1>7, InnerStepsEnd DEF CleanupStack, Call
  <2>2. QED
    BY <1>2, <1>3, <2>1
<1>8. CASE DescribeChangeSet
  <2>1. Quiet /\ pc' \notin Deciding
    BY <1>8, InnerStepsEnd DEF DescribeChangeSet, Running, Deciding
  <2>2. QED
    BY <1>2, <1>3, <2>1
<1>9. CASE UploadTemplate
  <2>1. Quiet /\ pc' \notin Deciding
    BY <1>9, InnerStepsEnd DEF UploadTemplate, Running, Deciding
  <2>2. QED
    BY <1>2, <1>3, <2>1
<1>10. CASE CreateChangeSet
  <2>1. Quiet /\ pc' \notin Deciding
    BY <1>10, InnerStepsEnd DEF CreateChangeSet, Call
  <2>2. QED
    BY <1>2, <1>3, <2>1
<1>11. CASE DeleteEmptyChangeSet \/ DeleteFailedChangeSet \/ ExecuteChangeSet
  <2>1. Quiet /\ pc' \notin Deciding
    BY <1>11, InnerStepsEnd
       DEF DeleteEmptyChangeSet, DeleteFailedChangeSet, ExecuteChangeSet, Call
  <2>2. QED
    BY <1>2, <1>3, <2>1
<1>12. CASE DescribeStackForDelete
  <2>1. cfnObj.deleting /\ cfnObj.spec.destroy /\ ~cfnObj.spec.suspend
    BY <1>12 DEF ControlInv, DecisionsHold, DescribeStackForDelete, At
  <2>2. CASE pc' \notin Deciding
    <3>1. Quiet
      BY <1>12, <2>2, InnerStepsEnd DEF DescribeStackForDelete, Deciding
    <3>2. QED
      BY <1>2, <1>3, <2>2, <3>1
  <2>3. CASE pc' \in Deciding
    <3>1. \/ Goto("removeFinalizer") /\ DeletionVerdict(stack.status) = "gone"
          \/ Goto("deleteStack")
      BY <1>12, <2>3, InnerStepsEnd DEF DescribeStackForDelete
    <3>2. Quiet /\ UNCHANGED stack /\ pc' \in {"removeFinalizer", "deleteStack"}
      BY <1>12, <3>1, InnerStepsEnd DEF DescribeStackForDelete, Running, service
    <3>3. pc' = "removeFinalizer" => StackNotFound(stack.status)
      BY <3>1, InnerStepsEnd DEF DeletionVerdict
    <3>4. DecisionsHold'
      BY <2>1, <3>2, <3>3 DEF DecisionsHold
    <3>5. QED
      BY <1>2, <3>2, <3>4
  <2>4. QED
    BY <2>2, <2>3
<1>13. CASE DeleteStack
  <2>1. Quiet /\ pc' \notin Deciding
    BY <1>13, InnerStepsEnd DEF DeleteStack, Call
  <2>2. QED
    BY <1>2, <1>3, <2>1
<1>14. QED
  BY <1>4, <1>5, <1>6, <1>7, <1>8, <1>9, <1>10, <1>11, <1>12, <1>13

\* A user's write reaches the queue through the informer.
LEMMA WritesKeepControl ==
  ASSUME TypeInv, ControlInv, CacheUnsynced("event"), UNCHANGED <<queue, stack, pc, cfnObj>>,
         held' => held /\ UNCHANGED obj
  PROVE  ControlInv'
<1>1. CacheTypeOK /\ UNCHANGED <<queued, delayed>>
  BY DEF TypeInv, TypeOK, queue
<1>2. CacheIsCurrent'
  BY <1>1, WritesKeepCacheCurrent DEF ControlInv, At
<1>3. (obj' = obj /\ lag' = lag) \/ lag' = "event"
  BY DEF CacheUnsynced, Behind
<1>4. NoLostWakeup'
  BY <1>1, <1>3 DEF ControlInv, NoLostWakeup, Managed, Exists, At
<1>5. ReconcileIsCurrent'
  BY <1>1, <1>3 DEF ControlInv, ReconcileIsCurrent, SameRequest
<1>6. HeldIsCurrent'
  BY DEF ControlInv, HeldIsCurrent, Exists
<1>7. DecisionsHold'
  BY DEF ControlInv, DecisionsHold
<1>8. QED
  BY <1>2, <1>4, <1>5, <1>6, <1>7 DEF ControlInv

\* The service moves a stack on, but revives none.
LEMMA ServiceKeepsVerdicts ==
  ASSUME \/ ChangeSetCreated \/ ChangeSetCreationFails
         \/ ChangeSetDeleted \/ ChangeSetDeletionFails
         \/ StackActionSucceeds \/ StackActionFails
         \/ OutOfBandUpdate \/ OutOfBandDelete,
         NEW st, st = stack.status, stack \in Stacks, NEW st2, st2 = stack'.status
  PROVE  /\ StackNotFound(st) => StackNotFound(st2)
         /\ RequiresCleanup(st) \/ st \in {"DELETE_IN_PROGRESS", "DELETE_COMPLETE"} =>
              RequiresCleanup(st2) \/ st2 \in {"DELETE_IN_PROGRESS", "DELETE_COMPLETE"}
<1> USE DEF StackNotFound, RequiresCleanup, UnrecoverableFailureStackStatuses, Stacks
<1>1. CASE ChangeSetCreated \/ ChangeSetCreationFails \/ ChangeSetDeleted
             \/ ChangeSetDeletionFails
  BY <1>1 DEF ChangeSetCreated, ChangeSetCreationFails, ChangeSetDeleted,
              ChangeSetDeletionFails
<1>2. CASE StackActionSucceeds
  BY <1>2 DEF StackActionSucceeds
<1>3. CASE StackActionFails
  BY <1>3 DEF StackActionFails, FailsTo
<1>4. CASE OutOfBandUpdate
  BY <1>4 DEF OutOfBandUpdate, Updatable, StackIsSuccess, IsRecoverableFailure,
              SuccessfulDeploymentStackStatuses, RecoverableFailureStackStatuses
<1>5. CASE OutOfBandDelete
  BY <1>5 DEF OutOfBandDelete, DeleteStackCall
<1>6. QED
  BY <1>1, <1>2, <1>3, <1>4, <1>5

LEMMA SurroundingsKeepControl ==
  ASSUME TypeInv, ControlInv,
         \/ RecoverPanic \/ TimerFires \/ CacheSync \/ Restart \/ Users \/ Aws \/ Crash
         \/ UNCHANGED vars
  PROVE  ControlInv'
<1>0. LocalTypeOK /\ CacheTypeOK /\ ServerTypeOK /\ ServiceTypeOK /\ CacheIsCurrent
  BY DEF TypeInv, TypeOK, ControlInv
<1>1. CASE RecoverPanic
  <2>1. CacheIsCurrent'
    BY <1>0, <1>1 DEF RecoverPanic, CacheIsCurrent, SameRequest, At, server, cache
  <2>2. QED
    BY <1>0, <1>1, <2>1, ReturnsKeepControl DEF RecoverPanic, At
<1>2. CASE TimerFires
  <2>1. queued' /\ UNCHANGED <<obj, status, cachedObj, cachedStatus, lag, pc, cfnObj, held, stack>>
    BY <1>2 DEF TimerFires, server, cache, local, service
  <2>2. QED
    BY <2>1 DEF ControlInv, NoLostWakeup, CacheIsCurrent, ReconcileIsCurrent, HeldIsCurrent,
                DecisionsHold, SameRequest, Exists, At
<1>3. CASE CacheSync
  <2>1. /\ UNCHANGED <<obj, pc, cfnObj, held, stack, delayed>>
        /\ cachedObj' = obj /\ queued' = (queued \/ lag = "event")
    BY <1>3 DEF CacheSync, server, local, service
  <2>2. queued \/ lag = "event" => queued'
    BY <2>1
  <2>3. NoLostWakeup' /\ CacheIsCurrent'
    BY <2>1, <2>2 DEF ControlInv, NoLostWakeup, CacheIsCurrent, SameRequest, Managed, Exists, At
  <2>4. ReconcileIsCurrent'
    BY <2>1, <2>2 DEF ControlInv, ReconcileIsCurrent, SameRequest
  <2>5. HeldIsCurrent' /\ DecisionsHold'
    BY <2>1 DEF ControlInv, HeldIsCurrent, DecisionsHold, Exists
  <2>6. QED
    BY <2>3, <2>4, <2>5 DEF ControlInv
<1>4. CASE Restart
  <2>1. /\ UNCHANGED obj /\ cachedObj' = obj /\ pc' = "idle" /\ ForgetLocals
        /\ Exists(obj) => queued'
    BY <1>4 DEF Restart, server
  <2>2. QED
    BY <2>1 DEF ControlInv, NoLostWakeup, CacheIsCurrent, ReconcileIsCurrent, HeldIsCurrent,
                DecisionsHold, SameRequest, ForgetLocals, Managed, Exists
<1>5. CASE Crash
  BY <1>5 DEF Crash, ControlInv, NoLostWakeup, CacheIsCurrent, ReconcileIsCurrent,
              HeldIsCurrent, DecisionsHold, ForgetLocals, At
<1>6. CASE EditSpec
  BY <1>6, WritesKeepControl DEF EditSpec, Overtaken, service
<1>7. CASE DeleteObject
  BY <1>7, WritesKeepControl DEF DeleteObject, Overtaken, service
<1>8. CASE CreateObject
  <2>1. ~held
    BY <1>8 DEF CreateObject, ControlInv, HeldIsCurrent
  <2>2. QED
    BY <1>8, <2>1, WritesKeepControl DEF CreateObject, local, service
<1>9. CASE SourceChanges
  <2>1. /\ UNCHANGED <<obj, cachedObj, lag, pc, cfnObj, held, stack, delayed>>
        /\ queued => queued'
    BY <1>9 DEF SourceChanges, server, cache, local, service
  <2>2. QED
    BY <2>1 DEF ControlInv, NoLostWakeup, CacheIsCurrent, ReconcileIsCurrent, HeldIsCurrent,
                DecisionsHold, SameRequest, Managed, Exists, At
<1>10. CASE Aws
  <2>1. UNCHANGED <<obj, cachedObj, lag, queued, delayed, pc, cfnObj, held>>
    BY <1>10 DEF Aws, AwsStep, server, cache, queue, local
  <2>2. DecisionsHold'
    <3>1. /\ StackNotFound(stack.status) => StackNotFound(stack'.status)
          /\ RequiresCleanup(stack.status)
               \/ stack.status \in {"DELETE_IN_PROGRESS", "DELETE_COMPLETE"} =>
                 RequiresCleanup(stack'.status)
                   \/ stack'.status \in {"DELETE_IN_PROGRESS", "DELETE_COMPLETE"}
      BY <1>0, <1>10, ServiceKeepsVerdicts DEF Aws, AwsStep, ServiceTypeOK
    <3>2. QED
      BY <2>1, <3>1 DEF ControlInv, DecisionsHold
  <2>3. QED
    BY <2>1, <2>2 DEF ControlInv, NoLostWakeup, CacheIsCurrent, ReconcileIsCurrent,
                      HeldIsCurrent, SameRequest, Managed, Exists, At
<1>11. CASE UNCHANGED vars
  BY <1>11 DEF vars, ControlInv, NoLostWakeup, CacheIsCurrent, ReconcileIsCurrent,
               HeldIsCurrent, DecisionsHold, SameRequest, Managed, Exists, At
<1>12. QED
  BY <1>1, <1>2, <1>3, <1>4, <1>5, <1>6, <1>7, <1>8, <1>9, <1>10, <1>11 DEF Users

LEMMA ControlInvInit == Init => ControlInv
BY DEF Init, ControlInv, NoLostWakeup, CacheIsCurrent, ReconcileIsCurrent, HeldIsCurrent,
       DecisionsHold

LEMMA ControlInvStep == TypeInv /\ ControlInv /\ [Next]_vars => ControlInv'
BY StartKeepsControl, AddFinalizerKeepsControl, ObserveKeepsControl, PatchKeepsControl,
   RemoveKeepsControl, CallsKeepControl, SurroundingsKeepControl
   DEF Next, Controller, ReconcileStep

\* The strengthened invariant, for every number of generations, faults and edits,
\* and whatever the specs render to.
THEOREM ControlIsInvariant == Spec => []ControlInv
<1>1. Init => TypeInv /\ ControlInv
  BY TypeInvInit, ControlInvInit
<1>2. (TypeInv /\ ControlInv) /\ [Next]_vars => (TypeInv /\ ControlInv)'
  BY ControlInvStep, ReconcileKeepsTypes, SurroundingsKeepTypes DEF Next, Controller
<1>3. QED
  BY <1>1, <1>2, PTL DEF Spec

\* An object that asks for work is never forgotten.
THEOREM NoWakeupIsLost == Spec => []NoLostWakeup
<1>1. ControlInv => NoLostWakeup
  BY DEF ControlInv
<1>2. QED
  BY <1>1, ControlIsInvariant, PTL

-----------------------------------------------------------------------------
(* Deletion.                                                                 *)

\* Only two steps of the reconciler start a deletion.
LEMMA WhoDeletes ==
  ASSUME TypeInv, ReconcileStep, stack'.status = "DELETE_IN_PROGRESS",
         stack.status # "DELETE_IN_PROGRESS"
  PROVE  CleanupStack \/ DeleteStack
<1>1. stack' # stack
  OBVIOUS
<1>2. ~AddFinalizer /\ ~ObserveGeneration /\ ~ReconcileSource /\ ~DescribeStack
      /\ ~RecoverPanic /\ ~DescribeChangeSet /\ ~UploadTemplate
      /\ ~DescribeStackForDelete /\ ~RemoveFinalizer /\ ~PatchStatus
  BY <1>1 DEF AddFinalizer, ObserveGeneration, ReconcileSource, DescribeStack, RecoverPanic,
              DescribeChangeSet, UploadTemplate, DescribeStackForDelete, RemoveFinalizer,
              PatchStatus, service
<1>3. ~ContinueRollback
  BY <1>1 DEF ContinueRollback, Call, ContinueRollbackCall, TypeInv, TypeOK, ServiceTypeOK,
              Stacks, service
<1>4. ~CreateChangeSet
  BY <1>1 DEF CreateChangeSet, Call, CreateChangeSetCall, TypeInv, TypeOK, ServiceTypeOK,
              Stacks, service
<1>5. ~DeleteEmptyChangeSet /\ ~DeleteFailedChangeSet
  BY <1>1 DEF DeleteEmptyChangeSet, DeleteFailedChangeSet, Call, DeleteChangeSetCall, service
<1>6. ~ExecuteChangeSet
  BY <1>1 DEF ExecuteChangeSet, Call, ExecuteChangeSetCall, TypeInv, TypeOK, ServiceTypeOK,
              Stacks, service
<1>7. QED
  BY <1>2, <1>3, <1>4, <1>5, <1>6 DEF ReconcileStep

\* No stack is deleted on the strength of an object that is not being deleted, except
\* one that no update can revive.
THEOREM DeletionsHaveCause == Spec => DeletesOnlyWithCause
<1>1. TypeInv /\ ControlInv /\ [Next]_vars =>
        [ ReconcileStep /\ stack'.status = "DELETE_IN_PROGRESS"
            /\ stack.status # "DELETE_IN_PROGRESS"
          => \/ RequiresCleanup(stack.status)
             \/ /\ cfnObj.deleting /\ cfnObj.spec.destroy /\ ~cfnObj.spec.suspend
                /\ obj.deleting \/ queued \/ lag = "event" ]_vars
  <2> SUFFICES ASSUME TypeInv, ControlInv, ReconcileStep, stack'.status = "DELETE_IN_PROGRESS",
                      stack.status # "DELETE_IN_PROGRESS", ~RequiresCleanup(stack.status)
               PROVE  /\ cfnObj.deleting /\ cfnObj.spec.destroy /\ ~cfnObj.spec.suspend
                      /\ obj.deleting \/ queued \/ lag = "event"
    OBVIOUS
  <2>1. ~CleanupStack
    <3>1. SUFFICES ASSUME CleanupStack PROVE FALSE
      OBVIOUS
    <3>2. stack.status = "DELETE_COMPLETE"
      BY <3>1 DEF CleanupStack, At, ControlInv, DecisionsHold
    <3>3. stack'.status = "DELETE_COMPLETE"
      BY <3>1, <3>2 DEF CleanupStack, Call, DeleteStackCall, service, TypeInv, TypeOK,
                        ServiceTypeOK, Stacks
    <3>4. QED
      BY <3>3
  <2>2. pc = "deleteStack"
    BY <2>1, WhoDeletes DEF DeleteStack, At
  <2>3. cfnObj.deleting /\ cfnObj.spec.destroy /\ ~cfnObj.spec.suspend
    BY <2>2 DEF ControlInv, DecisionsHold
  <2>4. SameRequest(cfnObj, obj) \/ queued \/ lag = "event"
    BY <2>2 DEF ControlInv, ReconcileIsCurrent
  <2>5. QED
    BY <2>3, <2>4 DEF SameRequest
<1>2. Spec => []TypeInv
  BY TypeCorrectness DEF TypeInv
<1>3. QED
  BY <1>1, <1>2, ControlIsInvariant, PTL DEF Spec, DeletesOnlyWithCause

\* A stack the controller takes for absent holds nothing: no other than a stack's
\* own deletion leads to DELETE_COMPLETE, and REVIEW_IN_PROGRESS is never left but
\* by an execution or a deletion.
AbsentIsEmpty == StackNotFound(stack.status) => stack.content = NoContent

LEMMA ReconcileKeepsAbsentEmpty ==
  ASSUME TypeInv, AbsentIsEmpty, StartReconcile \/ ReconcileStep
  PROVE  AbsentIsEmpty'
<1>1. stack \in Stacks
  BY DEF TypeInv, TypeOK, ServiceTypeOK
<1>2. UNCHANGED stack => AbsentIsEmpty'
  BY DEF AbsentIsEmpty
<1>3. CASE CreateChangeSet /\ stack' # stack
  <2>1. PICK arn \in Arns : \E content :
          /\ CreateAccepted(arn, clientStack.isCreate)
          /\ CreateChangeSetCall(arn, content, clientStack.isCreate)
    BY <1>3 DEF CreateChangeSet, NewArns, Call, service
  <2>2. StackNotFound(stack.status) /\ stack'.content = stack.content
    BY <1>1, <1>3, <2>1 DEF CreateAccepted, CreateChangeSetCall, Stacks
  <2>3. QED
    BY <2>2 DEF AbsentIsEmpty
<1>4. CASE ExecuteChangeSet /\ stack' # stack
  <2>1. ExecuteChangeSetCall(clientStack.arn)
    BY <1>4 DEF ExecuteChangeSet, Call, service
  <2>2. stack'.status \in {"CREATE_IN_PROGRESS", "UPDATE_IN_PROGRESS"}
    BY <1>1, <2>1 DEF ExecuteChangeSetCall, Stacks
  <2>3. QED
    BY <2>2 DEF AbsentIsEmpty, StackNotFound
<1>5. CASE (CleanupStack \/ DeleteStack) /\ stack' # stack
  <2>1. DeleteStackCall
    BY <1>5 DEF CleanupStack, DeleteStack, Call, service
  <2>2. stack'.status = "DELETE_IN_PROGRESS"
    BY <1>1, <1>5, <2>1 DEF DeleteStackCall, Stacks
  <2>3. QED
    BY <2>2 DEF AbsentIsEmpty, StackNotFound
<1>6. CASE ContinueRollback /\ stack' # stack
  <2>1. stack'.status = "UPDATE_ROLLBACK_IN_PROGRESS"
    BY <1>1, <1>6 DEF ContinueRollback, Call, ContinueRollbackCall, Stacks, service
  <2>2. QED
    BY <2>1 DEF AbsentIsEmpty, StackNotFound
<1>7. CASE DeleteEmptyChangeSet \/ DeleteFailedChangeSet
  BY <1>2, <1>7
     DEF DeleteEmptyChangeSet, DeleteFailedChangeSet, Call, DeleteChangeSetCall, service
<1>8. CASE \/ StartReconcile \/ AddFinalizer \/ ObserveGeneration \/ ReconcileSource
           \/ DescribeStack \/ RecoverPanic \/ DescribeChangeSet \/ UploadTemplate
           \/ DescribeStackForDelete \/ RemoveFinalizer \/ PatchStatus
  BY <1>2, <1>8
     DEF StartReconcile, AddFinalizer, ObserveGeneration, ReconcileSource, DescribeStack,
         RecoverPanic, DescribeChangeSet, UploadTemplate, DescribeStackForDelete,
         RemoveFinalizer, PatchStatus, service
<1>9. QED
  BY <1>2, <1>3, <1>4, <1>5, <1>6, <1>7, <1>8 DEF ReconcileStep

LEMMA AwsKeepsAbsentEmpty ==
  ASSUME TypeInv, AbsentIsEmpty, Aws
  PROVE  AbsentIsEmpty'
<1>1. stack \in Stacks
  BY DEF TypeInv, TypeOK, ServiceTypeOK
<1>2. CASE ChangeSetCreated \/ ChangeSetCreationFails \/ ChangeSetDeleted \/ ChangeSetDeletionFails
  BY <1>2 DEF ChangeSetCreated, ChangeSetCreationFails, ChangeSetDeleted,
              ChangeSetDeletionFails, AbsentIsEmpty
<1>3. CASE StackActionFails
  <2>1. ~StackNotFound(stack'.status)
    BY <1>1, <1>3 DEF StackActionFails, FailsTo, Stacks, StackNotFound
  <2>2. QED
    BY <2>1 DEF AbsentIsEmpty
<1>4. CASE StackActionSucceeds
  <2>1. \/ stack'.content = NoContent
        \/ stack'.status \in {"CREATE_COMPLETE", "UPDATE_COMPLETE", "ROLLBACK_COMPLETE",
                              "UPDATE_ROLLBACK_COMPLETE"}
    BY <1>1, <1>4 DEF StackActionSucceeds, Stacks
  <2>2. QED
    BY <2>1 DEF AbsentIsEmpty, StackNotFound
<1>5. CASE OutOfBandUpdate
  <2>1. stack'.status = "UPDATE_COMPLETE"
    BY <1>5 DEF OutOfBandUpdate
  <2>2. QED
    BY <2>1 DEF AbsentIsEmpty, StackNotFound
<1>6. CASE OutOfBandDelete
  <2>1. stack'.status = "DELETE_IN_PROGRESS"
    BY <1>1, <1>6 DEF OutOfBandDelete, DeleteStackCall, Stacks, StackNotFound
  <2>2. QED
    BY <2>1 DEF AbsentIsEmpty, StackNotFound
<1>7. QED
  BY <1>2, <1>3, <1>4, <1>5, <1>6 DEF Aws, AwsStep

\* Whatever the service starts from, what counts as absent has nothing deployed.
THEOREM AbsentStacksAreEmpty == Spec => []AbsentIsEmpty
<1>1. Init => AbsentIsEmpty
  BY AbsentStacks DEF Init, ServiceInit, AbsentIsEmpty
<1>2. TypeInv /\ AbsentIsEmpty /\ [Next]_vars => AbsentIsEmpty'
  <2> SUFFICES ASSUME TypeInv, AbsentIsEmpty, [Next]_vars PROVE AbsentIsEmpty'
    OBVIOUS
  <2>1. CASE UNCHANGED stack
    BY <2>1 DEF AbsentIsEmpty
  <2>2. CASE StartReconcile \/ ReconcileStep
    BY <2>2, ReconcileKeepsAbsentEmpty
  <2>3. CASE Aws
    BY <2>3, AwsKeepsAbsentEmpty
  <2>4. CASE TimerFires \/ CacheSync \/ Restart \/ SourceChanges \/ Crash \/ Users
    BY <2>1, <2>4 DEF TimerFires, CacheSync, Restart, SourceChanges, Crash, Users, EditSpec,
                      DeleteObject, CreateObject, service
  <2>5. QED
    BY <2>1, <2>2, <2>3, <2>4 DEF Next, Controller, vars
<1>3. Spec => []TypeInv
  BY TypeCorrectness DEF TypeInv
<1>4. QED
  BY <1>1, <1>2, <1>3, PTL DEF Spec

\* An object that wants its stack destroyed outlives the stack, and what was
\* deployed to it.
THEOREM FinalizerHolds == Spec => FinalizerGuardsStack
<1>1. TypeInv /\ ControlInv /\ AbsentIsEmpty /\ [Next]_vars =>
        [ Exists(obj) /\ ~Exists(obj') /\ obj.finalizer
            /\ obj.spec.destroy /\ ~obj.spec.suspend
          => StackNotFound(stack.status) /\ stack.content = NoContent ]_vars
  <2> SUFFICES ASSUME TypeInv, ControlInv, AbsentIsEmpty, Next, Exists(obj), ~Exists(obj'),
                      obj.finalizer, obj.spec.destroy, ~obj.spec.suspend
               PROVE  StackNotFound(stack.status) /\ stack.content = NoContent
    OBVIOUS
  <2>1. obj \in Objects /\ obj' # obj
    BY DEF TypeInv, TypeOK, ServerTypeOK
  <2>2. RemoveFinalizer
    <3>1. ~TimerFires /\ ~CacheSync /\ ~Restart /\ ~StartReconcile /\ ~SourceChanges
          /\ ~Crash /\ ~Aws
      BY <2>1 DEF TimerFires, CacheSync, Restart, StartReconcile, SourceChanges, Crash, Aws,
                  AwsStep, server
    <3>2. ~EditSpec /\ ~DeleteObject
      <4>1. SUFFICES ASSUME EditSpec \/ DeleteObject PROVE FALSE
        OBVIOUS
      <4>2. \/ \E spec : obj' = [obj EXCEPT !.spec = spec, !.gen = @ + 1]
            \/ obj' = [obj EXCEPT !.deleting = TRUE, !.gen = @ + 1]
        BY <4>1 DEF EditSpec, DeleteObject
      <4>3. obj'.gen = obj.gen + 1
        BY <2>1, <4>2 DEF Objects
      <4>4. obj.gen \in Nat
        BY <2>1, ServiceConstants DEF Objects
      <4>5. obj'.gen > 0
        BY <4>3, <4>4
      <4>6. QED
        BY <4>5 DEF Exists
    <3>3. ~CreateObject
      BY DEF CreateObject
    <3>4. ~AddFinalizer
      BY <2>1 DEF AddFinalizer, server, Exists, Objects
    <3>5. ~ObserveGeneration /\ ~PatchStatus
      BY <2>1 DEF ObserveGeneration, PatchStatus, PatchCall, PatchEffect, server
    <3>6. ~RecoverPanic /\ ~ReconcileSource /\ ~DescribeStack /\ ~ContinueRollback
          /\ ~CleanupStack /\ ~DescribeChangeSet /\ ~UploadTemplate /\ ~CreateChangeSet
          /\ ~DeleteEmptyChangeSet /\ ~DeleteFailedChangeSet /\ ~ExecuteChangeSet
          /\ ~DescribeStackForDelete /\ ~DeleteStack
      BY <2>1 DEF RecoverPanic, ReconcileSource, DescribeStack, ContinueRollback, CleanupStack,
                  DescribeChangeSet, UploadTemplate, CreateChangeSet, DeleteEmptyChangeSet,
                  DeleteFailedChangeSet, ExecuteChangeSet, DescribeStackForDelete, DeleteStack,
                  Outside, server
    <3>7. QED
      BY <3>1, <3>2, <3>3, <3>4, <3>5, <3>6 DEF Next, Controller, Users, ReconcileStep
  <2>3. held /\ pc = "removeFinalizer"
    BY <2>1, <2>2 DEF RemoveFinalizer, server, At
  <2>4. cfnObj = obj
    BY <2>3 DEF ControlInv, HeldIsCurrent
  <2>5. cfnObj.spec.suspend \/ ~cfnObj.spec.destroy \/ StackNotFound(stack.status)
    BY <2>3 DEF ControlInv, DecisionsHold
  <2>6. QED
    BY <2>4, <2>5 DEF AbsentIsEmpty
<1>2. Spec => []TypeInv
  BY TypeCorrectness DEF TypeInv
<1>3. QED
  BY <1>1, <1>2, ControlIsInvariant, AbsentStacksAreEmpty, PTL DEF Spec, FinalizerGuardsStack

-----------------------------------------------------------------------------
(* The panic.                                                                *)

\* Every copy of the object holds a spec some user wrote.
SpecsAreWritten ==
  /\ Exists(obj) => obj.spec \in UserSpecs
  /\ Exists(cachedObj) => cachedObj.spec \in UserSpecs
  /\ Running(pc) => cfnObj.spec \in UserSpecs

PanicLacksRetry == At("panic") => ~cfnObj.spec.retry

\* The steps that call something outside the process leave the objects alone, and
\* only one of them can end in the panic.
LEMMA CallsKeepSpecs ==
  ASSUME SpecsAreWritten,
         \/ ReconcileSource \/ DescribeStack \/ ContinueRollback \/ CleanupStack
         \/ DescribeChangeSet \/ UploadTemplate \/ CreateChangeSet
         \/ DeleteEmptyChangeSet \/ DeleteFailedChangeSet \/ ExecuteChangeSet
         \/ DescribeStackForDelete \/ DeleteStack
  PROVE  SpecsAreWritten' /\ PanicLacksRetry'
<1>1. Outside /\ Running(pc)
  BY DEF ReconcileSource, DescribeStack, ContinueRollback, CleanupStack, DescribeChangeSet,
         UploadTemplate, CreateChangeSet, DeleteEmptyChangeSet, DeleteFailedChangeSet,
         ExecuteChangeSet, DescribeStackForDelete, DeleteStack, At, Running
<1> DEFINE Harmless == UNCHANGED cfnObj /\ (pc' = "panic" => ~cfnObj.spec.retry)
<1>2. /\ \A s, wait : Report(s, wait) => Harmless
      /\ ApiCallFails => Harmless
      /\ \A p : Goto(p) => UNCHANGED cfnObj /\ pc' = p
  BY DEF Report, ApiCallFails, Goto
<1> HIDE DEF Harmless
<1>3. ASSUME ReconcileSource \/ DescribeStack PROVE Harmless
  <2>1. ReconcileSource => Harmless
    BY <1>2 DEF ReconcileSource, SourceMissing, SourceFails, DependencyNotReady,
                BuildClientStack, Harmless
  <2>2. DescribeStack => Harmless
    BY <1>2 DEF DescribeStack, Harmless
  <2>3. QED
    BY <1>3, <2>1, <2>2
<1>4. ASSUME ContinueRollback PROVE Harmless
  <2>1. CASE cfnObj.spec.retry
    BY <1>2, <1>4, <2>1 DEF ContinueRollback, Call
  <2>2. CASE ~cfnObj.spec.retry
    BY <1>2, <1>4, <2>2 DEF ContinueRollback, Call, Harmless
  <2>3. QED
    BY <2>1, <2>2
<1>5. ASSUME CleanupStack \/ DeleteStack PROVE Harmless
  BY <1>2, <1>5 DEF CleanupStack, DeleteStack, Call
<1>6. ASSUME DescribeChangeSet \/ DescribeStackForDelete PROVE Harmless
  <2>1. DescribeChangeSet => Harmless
    BY <1>2 DEF DescribeChangeSet, Harmless
  <2>2. DescribeStackForDelete => Harmless
    BY <1>2 DEF DescribeStackForDelete, Harmless
  <2>3. QED
    BY <1>6, <2>1, <2>2
<1>7. ASSUME UploadTemplate \/ CreateChangeSet PROVE Harmless
  <2>1. UploadTemplate => Harmless
    BY <1>2 DEF UploadTemplate, Harmless
  <2>2. CreateChangeSet => Harmless
    BY <1>2 DEF CreateChangeSet, Call
  <2>3. QED
    BY <1>7, <2>1, <2>2
<1>8. ASSUME DeleteEmptyChangeSet \/ DeleteFailedChangeSet \/ ExecuteChangeSet PROVE Harmless
  BY <1>2, <1>8 DEF DeleteEmptyChangeSet, DeleteFailedChangeSet, ExecuteChangeSet, Call
<1>9. Harmless
  BY <1>3, <1>4, <1>5, <1>6, <1>7, <1>8
<1>10. UNCHANGED <<obj, cachedObj, cfnObj>>
  BY <1>1, <1>9 DEF Outside, server, cache, Harmless
<1>11. SpecsAreWritten'
  BY <1>1, <1>10 DEF SpecsAreWritten, Exists
<1>12. PanicLacksRetry'
  BY <1>9 DEF PanicLacksRetry, Harmless, At
<1>13. QED
  BY <1>11, <1>12

\* The steps that read or write the object.
LEMMA ObjectStepsKeepSpecs ==
  ASSUME TypeInv, SpecsAreWritten,
         \/ StartReconcile \/ AddFinalizer \/ ObserveGeneration \/ RecoverPanic
         \/ RemoveFinalizer \/ PatchStatus
  PROVE  SpecsAreWritten' /\ PanicLacksRetry'
<1>1. /\ obj \in Objects /\ cachedObj \in Objects
      /\ status \in Statuses /\ cachedStatus \in Statuses
  BY DEF TypeInv, TypeOK, ServerTypeOK, CacheTypeOK
<1>2. CASE StartReconcile
  <2>1. UNCHANGED <<obj, cachedObj>>
    BY <1>2 DEF StartReconcile, server, cache
  <2>2. AfterFinalizer(cachedObj, cachedStatus) \in Outcomes
    BY <1>1, FinalizerDecides
  <2>3. pc' \in {"idle", "addFinalizer"} \cup Outcomes
    BY <1>2, <2>2 DEF StartReconcile
  <2>4. pc' # "idle" => Exists(cachedObj) /\ cfnObj' = cachedObj
    BY <1>2 DEF StartReconcile
  <2>5. QED
    BY <2>1, <2>3, <2>4 DEF SpecsAreWritten, PanicLacksRetry, Exists, Running, At, Outcomes
<1>3. CASE AddFinalizer
  <2>1. UNCHANGED cachedObj /\ pc = "addFinalizer"
    BY <1>3 DEF AddFinalizer, CacheUnsynced, cache, At
  <2>2. \/ UNCHANGED obj
        \/ Exists(obj) /\ obj' = [obj EXCEPT !.finalizer = TRUE]
    BY <1>3 DEF AddFinalizer, server
  <2>3. Exists(obj') => obj'.spec \in UserSpecs
    BY <1>1, <2>2 DEF SpecsAreWritten, Exists, Objects
  <2>4. \/ pc' = "idle"
        \/ /\ pc' = AfterFinalizer(obj', status) /\ cfnObj' = obj'
           /\ Exists(obj) /\ obj' = [obj EXCEPT !.finalizer = TRUE]
    BY <1>3 DEF AddFinalizer, ReturnError, ReturnAfter
  <2>5. [obj EXCEPT !.finalizer = TRUE] \in Objects
        /\ (Exists(obj) => Exists([obj EXCEPT !.finalizer = TRUE]))
    BY <1>1 DEF Objects, Exists
  <2>6. pc' # "idle" => pc' \in Outcomes /\ Exists(obj') /\ cfnObj' = obj'
    BY <1>1, <2>4, <2>5, FinalizerDecides
  <2>7. QED
    BY <2>1, <2>3, <2>6 DEF SpecsAreWritten, PanicLacksRetry, Exists, Running, At, Outcomes
<1>4. CASE ObserveGeneration
  BY <1>4 DEF ObserveGeneration, PatchCall, PatchEffect, CacheUnsynced, Report, server, cache,
              SpecsAreWritten, PanicLacksRetry, Exists, Running, At
<1>5. CASE RecoverPanic
  BY <1>5 DEF RecoverPanic, ReturnError, ReturnAfter, server, cache,
              SpecsAreWritten, PanicLacksRetry, Exists, Running, At
<1>6. CASE RemoveFinalizer
  <2>1. UNCHANGED cachedObj /\ (UNCHANGED obj \/ obj' = NoObject) /\ pc' = "idle"
    BY <1>6 DEF RemoveFinalizer, CacheUnsynced, ReturnError, ReturnAfter, ReturnNothing,
                server, cache
  <2>2. ~Exists(NoObject)
    BY DEF NoObject, Exists
  <2>3. QED
    BY <2>1, <2>2 DEF SpecsAreWritten, PanicLacksRetry, Exists, Running, At
<1>7. CASE PatchStatus
  BY <1>7 DEF PatchStatus, PatchCall, PatchEffect, CacheUnsynced, ReturnError, ReturnAfter,
              server, cache, SpecsAreWritten, PanicLacksRetry, Exists, Running, At
<1>8. QED
  BY <1>2, <1>3, <1>4, <1>5, <1>6, <1>7

\* Users, the informer, the queue and the process itself.
LEMMA SurroundingsKeepSpecs ==
  ASSUME TypeInv, SpecsAreWritten, PanicLacksRetry,
         TimerFires \/ CacheSync \/ Restart \/ Users \/ Aws \/ Crash
  PROVE  SpecsAreWritten' /\ PanicLacksRetry'
<1>1. obj \in Objects
  BY DEF TypeInv, TypeOK, ServerTypeOK
<1>2. ~Exists(NoObject)
  BY DEF NoObject, Exists
<1>3. CASE EditSpec \/ DeleteObject
  <2>1. UNCHANGED <<cachedObj, pc, cfnObj>>
    BY <1>3 DEF EditSpec, DeleteObject, CacheUnsynced, Overtaken
  <2>2. Exists(obj)
    BY <1>3 DEF EditSpec, DeleteObject
  <2>3. obj' = NoObject \/ obj'.spec = obj.spec \/ obj'.spec \in UserSpecs
    BY <1>1, <1>3 DEF EditSpec, DeleteObject, Objects
  <2>4. QED
    BY <1>2, <2>1, <2>2, <2>3 DEF SpecsAreWritten, PanicLacksRetry, Exists, At
<1>4. CASE CreateObject
  <2>1. UNCHANGED <<cachedObj, pc, cfnObj>> /\ obj'.spec \in UserSpecs
    BY <1>4 DEF CreateObject, CacheUnsynced, local
  <2>2. QED
    BY <2>1 DEF SpecsAreWritten, PanicLacksRetry, Exists, At
<1>5. CASE SourceChanges \/ TimerFires \/ Aws
  <2>1. UNCHANGED <<obj, cachedObj, pc, cfnObj>>
    BY <1>5 DEF SourceChanges, TimerFires, Aws, AwsStep, server, cache, local
  <2>2. QED
    BY <2>1 DEF SpecsAreWritten, PanicLacksRetry, Exists, At
<1>6. CASE CacheSync
  <2>1. UNCHANGED <<obj, pc, cfnObj>> /\ cachedObj' = obj
    BY <1>6 DEF CacheSync, server, local
  <2>2. QED
    BY <2>1 DEF SpecsAreWritten, PanicLacksRetry, Exists, At
<1>7. CASE Restart \/ Crash
  <2>1. UNCHANGED obj /\ cachedObj' \in {obj, NoObject} /\ pc' \in {"idle", "down"}
    BY <1>7 DEF Restart, Crash, server
  <2>2. QED
    BY <1>2, <2>1 DEF SpecsAreWritten, PanicLacksRetry, Exists, Running, At
<1>8. QED
  BY <1>3, <1>4, <1>5, <1>6, <1>7 DEF Users

\* The one panic a reconcile can run into has one cause: a spec some user wrote
\* leaves out its retry interval, which ContinueUpdateRollback's branch reads
\* without GetRetryInterval.
THEOREM PanicsOnlyWithoutRetry ==
  Spec => [](At("panic") => cfnObj.spec \in UserSpecs /\ ~cfnObj.spec.retry)
<1>1. Init => SpecsAreWritten /\ PanicLacksRetry
  <2>1. InitialSpecs \subseteq UserSpecs
    BY ControllerConstants
  <2>2. ~Exists(NoObject)
    BY DEF NoObject, Exists
  <2>3. QED
    BY <2>1, <2>2 DEF Init, SpecsAreWritten, PanicLacksRetry, Running, At
<1>2. TypeInv /\ (SpecsAreWritten /\ PanicLacksRetry) /\ [Next]_vars =>
        (SpecsAreWritten /\ PanicLacksRetry)'
  <2> SUFFICES ASSUME TypeInv, SpecsAreWritten, PanicLacksRetry, [Next]_vars
               PROVE  SpecsAreWritten' /\ PanicLacksRetry'
    OBVIOUS
  <2>1. CASE UNCHANGED vars
    BY <2>1 DEF vars, SpecsAreWritten, PanicLacksRetry, Exists, At
  <2>2. CASE Next
    BY <2>2, CallsKeepSpecs, ObjectStepsKeepSpecs, SurroundingsKeepSpecs
       DEF Next, Controller, ReconcileStep
  <2>3. QED
    BY <2>1, <2>2
<1>3. SpecsAreWritten /\ PanicLacksRetry =>
        (At("panic") => cfnObj.spec \in UserSpecs /\ ~cfnObj.spec.retry)
  BY DEF SpecsAreWritten, PanicLacksRetry, Running, At
<1>4. Spec => []TypeInv
  BY TypeCorrectness DEF TypeInv
<1>5. QED
  BY <1>1, <1>2, <1>3, <1>4, PTL DEF Spec

\* Where every spec sets its retry interval, no reconcile panics.
THEOREM RetryIntervalsPreventPanics ==
  ASSUME \A spec \in UserSpecs : spec.retry
  PROVE  Spec => []NeverPanics
<1>1. (At("panic") => cfnObj.spec \in UserSpecs /\ ~cfnObj.spec.retry) => NeverPanics
  BY DEF NeverPanics
<1>2. QED
  BY <1>1, PanicsOnlyWithoutRetry, PTL

-----------------------------------------------------------------------------
(* Every reconcile ends.                                                     *)

\* The most steps a reconcile can still take.
StepsLeft(p) ==
  CASE p \in {"idle", "down"} -> 0
    [] p \in {"patchStatus", "panic", "removeFinalizer"} -> 1
    [] p \in {"create", "execute", "deleteEmpty", "deleteFailed", "cleanup",
              "continueRollback", "deleteStack"} -> 2
    [] p \in {"upload", "describeForDelete"} -> 3
    [] p = "describeChangeSet" -> 4
    [] p = "describeStack" -> 5
    [] p = "source" -> 6
    [] p = "observe" -> 7
    [] p = "addFinalizer" -> 8

LEMMA CallsNearTheEnd ==
  ASSUME \/ ReconcileSource \/ DescribeStack \/ ContinueRollback \/ CleanupStack
         \/ DescribeChangeSet \/ UploadTemplate \/ CreateChangeSet
         \/ DeleteEmptyChangeSet \/ DeleteFailedChangeSet \/ ExecuteChangeSet
         \/ DescribeStackForDelete \/ DeleteStack
  PROVE  StepsLeft(pc') < StepsLeft(pc)
<1>1. /\ \A s, wait : Report(s, wait) => pc' = "patchStatus"
      /\ ApiCallFails => pc' = "patchStatus"
      /\ \A p : Goto(p) => pc' = p
  BY DEF Report, ApiCallFails, Goto
<1>2. CASE ReconcileSource
  <2>1. pc = "source" /\ pc' \in {"patchStatus", "describeStack"}
    BY <1>1, <1>2 DEF ReconcileSource, SourceMissing, SourceFails, DependencyNotReady,
                      BuildClientStack, At
  <2>2. QED
    BY <2>1 DEF StepsLeft
<1>3. CASE DescribeStack
  <2>1. pc = "describeStack"
        /\ pc' \in {"patchStatus", "describeChangeSet", "continueRollback", "cleanup"}
    BY <1>1, <1>3 DEF DescribeStack, At
  <2>2. QED
    BY <2>1 DEF StepsLeft
<1>4. CASE ContinueRollback
  <2>1. pc = "continueRollback" /\ pc' \in {"patchStatus", "panic"}
    <3>1. CASE cfnObj.spec.retry
      BY <1>1, <1>4, <3>1 DEF ContinueRollback, Call, At
    <3>2. CASE ~cfnObj.spec.retry
      BY <1>1, <1>4, <3>2 DEF ContinueRollback, Call, At
    <3>3. QED
      BY <3>1, <3>2
  <2>2. QED
    BY <2>1 DEF StepsLeft
<1>5. CASE DescribeChangeSet
  <2>1. pc = "describeChangeSet"
        /\ pc' \in {"patchStatus", "upload", "deleteEmpty", "deleteFailed", "execute"}
    BY <1>1, <1>5 DEF DescribeChangeSet, At
  <2>2. QED
    BY <2>1 DEF StepsLeft
<1>6. CASE UploadTemplate
  <2>1. pc = "upload" /\ pc' \in {"patchStatus", "create"}
    BY <1>1, <1>6 DEF UploadTemplate, At
  <2>2. QED
    BY <2>1 DEF StepsLeft
<1>7. CASE DescribeStackForDelete
  <2>1. pc = "describeForDelete" /\ pc' \in {"patchStatus", "removeFinalizer", "deleteStack"}
    BY <1>1, <1>7 DEF DescribeStackForDelete, At
  <2>2. QED
    BY <2>1 DEF StepsLeft
<1>8. CASE CleanupStack \/ CreateChangeSet \/ DeleteEmptyChangeSet \/ DeleteFailedChangeSet
           \/ ExecuteChangeSet \/ DeleteStack
  <2>1. pc \in {"cleanup", "create", "deleteEmpty", "deleteFailed", "execute", "deleteStack"}
        /\ pc' = "patchStatus"
    BY <1>1, <1>8 DEF CleanupStack, CreateChangeSet, DeleteEmptyChangeSet,
                      DeleteFailedChangeSet, ExecuteChangeSet, DeleteStack, Call, At
  <2>2. QED
    BY <2>1 DEF StepsLeft
<1>9. QED
  BY <1>2, <1>3, <1>4, <1>5, <1>6, <1>7, <1>8

LEMMA ObjectStepsNearTheEnd ==
  ASSUME TypeInv,
         AddFinalizer \/ ObserveGeneration \/ RecoverPanic \/ RemoveFinalizer \/ PatchStatus
  PROVE  StepsLeft(pc') < StepsLeft(pc)
<1>1. CASE AddFinalizer
  <2>1. obj \in Objects /\ [obj EXCEPT !.finalizer = TRUE] \in Objects /\ status \in Statuses
    BY DEF TypeInv, TypeOK, ServerTypeOK, Objects
  <2>2. \/ pc' = "idle"
        \/ pc' = AfterFinalizer([obj EXCEPT !.finalizer = TRUE], status)
    BY <1>1 DEF AddFinalizer, ReturnError, ReturnAfter
  <2>3. pc = "addFinalizer" /\ pc' \in Outcomes
    BY <1>1, <2>1, <2>2, FinalizerDecides DEF AddFinalizer, At, Outcomes
  <2>4. QED
    BY <2>3 DEF StepsLeft, Outcomes
<1>2. CASE ObserveGeneration
  <2>1. pc = "observe" /\ pc' \in {"source", "patchStatus"}
    BY <1>2 DEF ObserveGeneration, PatchCall, Report, At
  <2>2. QED
    BY <2>1 DEF StepsLeft
<1>3. CASE RecoverPanic \/ RemoveFinalizer \/ PatchStatus
  <2>1. pc \in {"panic", "removeFinalizer", "patchStatus"} /\ pc' = "idle"
    BY <1>3 DEF RecoverPanic, RemoveFinalizer, PatchStatus, PatchCall, ReturnError, ReturnAfter,
                ReturnNothing, At
  <2>2. QED
    BY <2>1 DEF StepsLeft
<1>4. QED
  BY <1>1, <1>2, <1>3

\* Whatever is answered and whatever fails, every step of a reconcile brings it nearer
\* its end, and no step of anybody else sets it back: it takes eight steps at most.
THEOREM ReconcilesEnd ==
  Spec => [][ Running(pc) => IF pc' = pc THEN ~ReconcileStep
                             ELSE StepsLeft(pc') < StepsLeft(pc) ]_vars
<1>1. TypeInv /\ [Next]_vars =>
        [ Running(pc) => IF pc' = pc THEN ~ReconcileStep
                         ELSE StepsLeft(pc') < StepsLeft(pc) ]_vars
  <2> SUFFICES ASSUME TypeInv, Next, Running(pc)
               PROVE  IF pc' = pc THEN ~ReconcileStep ELSE StepsLeft(pc') < StepsLeft(pc)
    OBVIOUS
  <2>1. StepsLeft(pc) \in 1..8
    BY DEF TypeInv, TypeOK, LocalTypeOK, PCs, Running, StepsLeft
  <2>2. CASE ReconcileStep
    <3>1. StepsLeft(pc') < StepsLeft(pc)
      BY <2>2, CallsNearTheEnd, ObjectStepsNearTheEnd DEF ReconcileStep
    <3>2. QED
      BY <2>1, <3>1
  <2>3. CASE Crash
    <3>1. pc' = "down" /\ pc # "down"
      BY <2>3 DEF Crash, Running
    <3>2. StepsLeft("down") = 0
      BY DEF StepsLeft
    <3>3. QED
      BY <2>1, <3>1, <3>2
  <2>4. CASE ~ReconcileStep /\ ~Crash
    <3>1. pc' = pc
      BY <2>4 DEF Next, Controller, StartReconcile, TimerFires, CacheSync, Restart, Users,
                  EditSpec, DeleteObject, CreateObject, SourceChanges, Aws, AwsStep, Overtaken,
                  local, Running, At
    <3>2. QED
      BY <2>4, <3>1
  <2>5. QED
    BY <2>2, <2>3, <2>4
<1>2. Spec => []TypeInv
  BY TypeCorrectness DEF TypeInv
<1>3. QED
  BY <1>1, <1>2, PTL DEF Spec

==============================================================================
