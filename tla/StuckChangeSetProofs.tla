------------------------- MODULE StuckChangeSetProofs -------------------------
(***************************************************************************)
(* Why the situation the run stuck_change_set ends in is for good: the     *)
(* status names a change set that is gone, another one has its name, and   *)
(* the ARN in the status hides that other one from every reconcile.        *)
(***************************************************************************)
EXTENDS StackControllerProofs

-----------------------------------------------------------------------------
(* The situation.                                                            *)

\* The object wants the change set of a name that two ARNs have.
Wanted(gone, there) ==
  /\ Exists(obj) /\ ~obj.deleting /\ source # NoRevision
  /\ \A a \in {gone, there} : a \in Arns /\ a.name = GetChangeSetName(obj.gen, source)

\* One change set of that name is gone, another one is there, and the stack could
\* take either.
Shadowed(gone, there) ==
  /\ ~Live(gone) /\ Live(there) /\ css[there].status # "DELETE_IN_PROGRESS"
  /\ StackVerdict(stack.status) \in {"create", "update"}

Remembers(s, arn) == s.lastAttemptedChangeSet = arn

\* Every copy of the status remembers the one that is gone.
Misremembered(gone) ==
  /\ Remembers(status, gone)
  /\ Exists(cachedObj) => SameRequest(cachedObj, obj) /\ Remembers(cachedStatus, gone)

\* What follows the source, up to the creation of a change set.
Wanting == {"describeStack", "describeChangeSet", "upload", "create"}

\* So does the reconcile under way, if there is one.
Pursued(gone) ==
  /\ Running(pc) =>
       /\ pc \in {"addFinalizer", "observe", "source", "patchStatus"} \cup Wanting
       /\ SameRequest(cfnObj, obj) /\ Remembers(cfnStatus, gone)
  /\ pc \in Wanting => clientStack.revision = source /\ clientStack.arn = gone
  /\ pc = "patchStatus" => cfnStatus.ready # "True"

Stuck(gone, there) ==
  Wanted(gone, there) /\ Shadowed(gone, there) /\ Misremembered(gone) /\ Pursued(gone)

\* What ends it: the object is edited or deleted, its source moves, or somebody else
\* deletes the stack.
Intervention ==
  ~SameRequest(obj', obj) \/ source' # source \/ stack'.status = "DELETE_IN_PROGRESS"

\* Nothing the controller does comes of it: no call takes effect, and the object does
\* not become Ready.
Futile ==
  /\ ReconcileStep => UNCHANGED service
  /\ status'.ready = "True" => status.ready = "True"

-----------------------------------------------------------------------------
(* What leaves a part of it alone.                                           *)

LEMMA WantedStays ==
  ASSUME NEW gone, NEW there, Wanted(gone, there), SameRequest(obj', obj), UNCHANGED source
  PROVE  Wanted(gone, there)'
BY DEF Wanted, SameRequest, Exists

LEMMA ShadowedStays ==
  ASSUME NEW gone, NEW there, Shadowed(gone, there), UNCHANGED service
  PROVE  Shadowed(gone, there)'
BY DEF Shadowed, Live, service

\* A patch computed from any copy sends the ARN that is gone, or none.
LEMMA PatchesMisremember ==
  ASSUME NEW live \in Statuses, NEW base, NEW new, NEW gone, NEW s \in Patched(live, base, new),
         Remembers(live, gone), Remembers(new, gone)
  PROVE  /\ Remembers(s, gone)
         /\ s.ready = "True" => live.ready = "True" \/ new.ready = "True"
<1>1. "lastAttemptedChangeSet" \in DOMAIN live /\ "ready" \in DOMAIN live
  BY DEF Statuses
<1>2. PICK condition \in {new} \cup (IF SameCondition(new, base) THEN {live} ELSE {}) :
        s = [f \in DOMAIN live |-> IF f \in ConditionFields THEN condition[f]
                                   ELSE IF new[f] # base[f] THEN new[f] ELSE live[f]]
  BY DEF Patched
<1>3. condition = new \/ condition = live
  BY <1>2
<1>4. s.lastAttemptedChangeSet \in {new.lastAttemptedChangeSet, live.lastAttemptedChangeSet}
  BY <1>1, <1>2 DEF ConditionFields
<1>5. s.ready = condition.ready
  BY <1>1, <1>2 DEF ConditionFields
<1>6. QED
  BY <1>3, <1>4, <1>5 DEF Remembers

\* The updates of the status that name no ARN leave the one it remembers.
LEMMA UpdatesMisremember ==
  ASSUME NEW s \in Statuses, NEW gone, Remembers(s, gone)
  PROVE  \A gen, revision :
           /\ /\ Remembers(NotReady(s, gen, revision, NoArn), gone)
              /\ NotReady(s, gen, revision, NoArn).ready = "False"
           /\ /\ Remembers(Progressing(s, gen, revision, NoArn), gone)
              /\ Progressing(s, gen, revision, NoArn).ready = "Unknown"
BY DEF NotReady, Progressing, SetReadiness, Remembers, Statuses

-----------------------------------------------------------------------------
(* The steps of the controller.                                              *)

\* A step of the reconcile that leaves the object and its copies alone.
LEMMA InnerStepsStayStuck ==
  ASSUME NEW gone, NEW there, Stuck(gone, there), Outside, UNCHANGED service, Pursued(gone)'
  PROVE  Stuck(gone, there)' /\ Futile
<1>1. UNCHANGED <<obj, status, cachedObj, cachedStatus, source>>
  BY DEF Outside, server, cache, world
<1>2. Misremembered(gone)'
  BY <1>1 DEF Stuck, Misremembered, SameRequest, Exists, Remembers
<1>3. SameRequest(obj', obj)
  BY <1>1 DEF SameRequest
<1>4. Wanted(gone, there)' /\ Shadowed(gone, there)'
  BY <1>1, <1>3, WantedStays, ShadowedStays DEF Stuck
<1>5. Futile
  BY <1>1 DEF Futile
<1>6. QED
  BY <1>2, <1>4, <1>5 DEF Stuck

\* The ways such a step ends.
LEMMA ReportsArePursued ==
  ASSUME TypeInv, NEW gone, Pursued(gone), Running(pc), UNCHANGED <<obj, source>>
  PROVE  /\ ApiCallFails => Pursued(gone)'
         /\ \A gen, revision, wait :
              Report(NotReady(cfnStatus, gen, revision, NoArn), wait) => Pursued(gone)'
         /\ \A p \in Wanting :
              pc \in Wanting /\ pc' = p /\ UNCHANGED <<cfnObj, cfnStatus>>
                /\ clientStack'.revision = clientStack.revision
                /\ clientStack'.arn = clientStack.arn
              => Pursued(gone)'
<1>1. cfnStatus \in Statuses /\ SameRequest(cfnObj, obj) /\ Remembers(cfnStatus, gone)
  BY DEF TypeInv, TypeOK, LocalTypeOK, Pursued
<1>2. \A gen, revision, wait :
        Report(NotReady(cfnStatus, gen, revision, NoArn), wait) => Pursued(gone)'
  <2> SUFFICES ASSUME NEW gen, NEW revision, NEW wait,
                      Report(NotReady(cfnStatus, gen, revision, NoArn), wait)
               PROVE  Pursued(gone)'
    OBVIOUS
  <2>1. pc' = "patchStatus" /\ UNCHANGED cfnObj
        /\ cfnStatus' = NotReady(cfnStatus, gen, revision, NoArn)
    BY DEF Report
  <2>2. Remembers(cfnStatus', gone) /\ cfnStatus'.ready = "False"
    BY <1>1, <2>1, UpdatesMisremember
  <2>3. SameRequest(cfnObj', obj')
    BY <1>1, <2>1 DEF SameRequest
  <2>4. QED
    BY <2>1, <2>2, <2>3 DEF Pursued, Wanting, Remembers
<1>3. ApiCallFails => Pursued(gone)'
  BY <1>2 DEF ApiCallFails
<1>4. ASSUME NEW p \in Wanting, pc \in Wanting, pc' = p, UNCHANGED <<cfnObj, cfnStatus>>,
             clientStack'.revision = clientStack.revision, clientStack'.arn = clientStack.arn
      PROVE  Pursued(gone)'
  BY <1>1, <1>4 DEF Pursued, Wanting, SameRequest, Remembers
<1>5. QED
  BY <1>2, <1>3, <1>4

\* Described by its ARN the change set is not found, created by its name it is refused.
LEMMA CallsStayStuck ==
  ASSUME TypeInv, NEW gone, NEW there, Stuck(gone, there),
         ReconcileSource \/ DescribeStack \/ DescribeChangeSet \/ UploadTemplate \/ CreateChangeSet
  PROVE  Stuck(gone, there)' /\ Futile
<1>1. Outside /\ Running(pc)
  BY DEF ReconcileSource, DescribeStack, DescribeChangeSet, UploadTemplate, CreateChangeSet, At,
         Running
<1>2. UNCHANGED <<obj, source>>
  BY <1>1 DEF Outside, server, world
<1>3. /\ SameRequest(cfnObj, obj) /\ Remembers(cfnStatus, gone) /\ Pursued(gone)
      /\ pc \in Wanting => clientStack.revision = source /\ clientStack.arn = gone
      /\ clientStack \in ClientStacks
  BY <1>1 DEF Stuck, Pursued, TypeInv, TypeOK, LocalTypeOK
<1>4. /\ ApiCallFails => Pursued(gone)'
      /\ \A gen, revision, wait :
           Report(NotReady(cfnStatus, gen, revision, NoArn), wait) => Pursued(gone)'
      /\ \A p \in Wanting :
           pc \in Wanting /\ pc' = p /\ UNCHANGED <<cfnObj, cfnStatus>>
             /\ clientStack'.revision = clientStack.revision
             /\ clientStack'.arn = clientStack.arn
           => Pursued(gone)'
  BY <1>1, <1>2, <1>3, ReportsArePursued
<1>5. GetChangeSetName(cfnObj.gen, source) = gone.name /\ gone \in Arns /\ there \in Arns
  BY <1>3 DEF Stuck, Wanted, SameRequest
<1>6. CASE ReconcileSource
  <2>1. UNCHANGED service /\ pc = "source"
    BY <1>6 DEF ReconcileSource, At
  <2>2. CASE BuildClientStack
    <3>1. /\ pc' = "describeStack" /\ UNCHANGED <<cfnObj, cfnStatus>>
          /\ clientStack' = [revision |-> source,
                             arn |-> IF HasName(cfnStatus.lastAttemptedChangeSet,
                                                GetChangeSetName(cfnObj.gen, source))
                                       THEN cfnStatus.lastAttemptedChangeSet ELSE NoArn,
                             isCreate |-> FALSE]
      BY <2>2 DEF BuildClientStack
    <3>2. HasName(cfnStatus.lastAttemptedChangeSet, GetChangeSetName(cfnObj.gen, source))
      BY <1>3, <1>5, ServiceConstants DEF HasName, Remembers
    <3>3. clientStack'.revision = source /\ clientStack'.arn = gone
      BY <1>3, <3>1, <3>2 DEF Remembers
    <3>4. Pursued(gone)'
      BY <1>2, <1>3, <3>1, <3>3 DEF Pursued, Wanting, SameRequest, Remembers
    <3>5. QED
      BY <1>1, <2>1, <3>4, InnerStepsStayStuck
  <2>3. CASE SourceMissing \/ SourceFails \/ DependencyNotReady
    <3>1. Pursued(gone)'
      BY <1>4, <2>3 DEF SourceMissing, SourceFails, DependencyNotReady
    <3>2. QED
      BY <1>1, <2>1, <3>1, InnerStepsStayStuck
  <2>4. QED
    BY <1>6, <2>2, <2>3 DEF ReconcileSource
<1>7. CASE DescribeStack
  <2>1. UNCHANGED service /\ pc = "describeStack"
    BY <1>7 DEF DescribeStack, At
  <2>2. StackVerdict(stack.status) \in {"create", "update"}
    BY DEF Stuck, Shadowed
  <2>3. \/ ApiCallFails
        \/ /\ pc' = "describeChangeSet" /\ UNCHANGED <<cfnObj, cfnStatus>>
           /\ \E create : clientStack' = [clientStack EXCEPT !.isCreate = create]
    BY <1>7, <2>2 DEF DescribeStack
  <2>4. Pursued(gone)'
    BY <1>3, <1>4, <2>1, <2>3 DEF Wanting, ClientStacks
  <2>5. QED
    BY <1>1, <2>1, <2>4, InnerStepsStayStuck
<1>8. CASE DescribeChangeSet
  <2>1. UNCHANGED service /\ pc = "describeChangeSet"
    BY <1>8 DEF DescribeChangeSet, At
  <2>2. clientStack.arn = gone /\ gone # NoArn
    BY <1>3, <1>5, <2>1, ServiceConstants DEF Wanting
  <2>3. Described(clientStack.arn, DesiredName) = {}
    BY <2>2 DEF Described, Stuck, Shadowed
  <2>4. ApiCallFails \/ Goto("upload")
    BY <1>8, <2>3 DEF DescribeChangeSet
  <2>5. Pursued(gone)'
    BY <1>4, <2>1, <2>4 DEF Goto, Wanting
  <2>6. QED
    BY <1>1, <2>1, <2>5, InnerStepsStayStuck
<1>9. CASE UploadTemplate
  <2>1. UNCHANGED service /\ pc = "upload" /\ (ApiCallFails \/ Goto("create"))
    BY <1>9 DEF UploadTemplate, At
  <2>2. Pursued(gone)'
    BY <1>4, <2>1 DEF Goto, Wanting
  <2>3. QED
    BY <1>1, <2>1, <2>2, InnerStepsStayStuck
<1>10. CASE CreateChangeSet
  <2>1. PICK arn \in NewArns(DesiredName) : \E content :
          Call(CreateAccepted(arn, clientStack.isCreate),
               CreateChangeSetCall(arn, content, clientStack.isCreate),
               Report(Progressing(cfnStatus, cfnObj.gen, clientStack.revision, arn), "poll"),
               ApiCallFails)
    BY <1>10 DEF CreateChangeSet
  <2>2. arn.name = there.name
    BY <1>3, <1>5, <1>10, <2>1
       DEF CreateChangeSet, At, Wanting, NewArns, DesiredName, Stuck, Wanted
  <2>3. ~CreateAccepted(arn, clientStack.isCreate)
    BY <1>5, <2>2 DEF CreateAccepted, Stuck, Shadowed
  <2>4. UNCHANGED service /\ ApiCallFails
    BY <2>1, <2>3 DEF Call
  <2>5. QED
    BY <1>1, <1>4, <2>4, InnerStepsStayStuck
<1>11. QED
  BY <1>6, <1>7, <1>8, <1>9, <1>10

\* A reconcile that starts knows no better, whichever copy it reads.
LEMMA StartStaysStuck ==
  ASSUME TypeInv, NEW gone, NEW there, Stuck(gone, there), StartReconcile
  PROVE  Stuck(gone, there)' /\ Futile
<1>1. /\ UNCHANGED <<obj, status, cachedObj, cachedStatus, source>> /\ UNCHANGED service
      /\ pc = "idle" /\ UNCHANGED <<server, cache, world>>
  BY DEF StartReconcile, server, cache, world, At
<1>2. cachedObj \in Objects /\ cachedStatus \in Statuses
  BY DEF TypeInv, TypeOK, CacheTypeOK
<1>3. Pursued(gone)'
  <2>1. CASE pc' = "idle"
    BY <2>1 DEF Pursued, Running, Wanting
  <2>2. CASE pc' # "idle"
    <3>1. /\ Exists(cachedObj) /\ cfnObj' = cachedObj /\ cfnStatus' = cachedStatus
          /\ pc' \in {"addFinalizer", AfterFinalizer(cachedObj, cachedStatus)}
      BY <2>2 DEF StartReconcile
    <3>2. SameRequest(cachedObj, obj) /\ Remembers(cachedStatus, gone) /\ ~obj.deleting
      BY <3>1 DEF Stuck, Misremembered, Wanted
    <3>3. AfterFinalizer(cachedObj, cachedStatus) \in {"idle", "observe", "source"}
      BY <1>2, <3>2 DEF AfterFinalizer, SameRequest, Objects, Specs
    <3>4. pc' \in {"addFinalizer", "observe", "source"}
      BY <2>2, <3>1, <3>3
    <3>5. QED
      BY <1>1, <3>1, <3>2, <3>4 DEF Pursued, Wanting, SameRequest, Remembers
  <2>3. QED
    BY <2>1, <2>2
<1>4. Misremembered(gone)'
  BY <1>1 DEF Stuck, Misremembered, SameRequest, Exists, Remembers
<1>5. Wanted(gone, there)' /\ Shadowed(gone, there)'
  BY <1>1, WantedStays, ShadowedStays DEF Stuck, SameRequest
<1>6. QED
  BY <1>1, <1>3, <1>4, <1>5 DEF Stuck, Futile

LEMMA AddFinalizerStaysStuck ==
  ASSUME TypeInv, NEW gone, NEW there, Stuck(gone, there), AddFinalizer
  PROVE  Stuck(gone, there)' /\ Futile
<1>1. /\ obj \in Objects /\ status \in Statuses /\ ~obj.deleting /\ Remembers(status, gone)
      /\ pc = "addFinalizer"
  BY DEF TypeInv, TypeOK, ServerTypeOK, Stuck, Wanted, Misremembered, AddFinalizer, At
<1>2. /\ UNCHANGED <<status, cachedObj, cachedStatus, source>> /\ UNCHANGED service
      /\ obj' \in {obj, [obj EXCEPT !.finalizer = TRUE]}
  BY DEF AddFinalizer, server, cache, world, CacheUnsynced
<1>3. SameRequest(obj', obj) /\ obj' \in Objects
  BY <1>1, <1>2 DEF SameRequest, Objects
<1>4. Wanted(gone, there)' /\ Shadowed(gone, there)'
  BY <1>2, <1>3, WantedStays, ShadowedStays DEF Stuck
<1>5. Misremembered(gone)'
  BY <1>2, <1>3 DEF Stuck, Misremembered, SameRequest, Exists, Remembers
<1>6. Pursued(gone)'
  <2>1. CASE pc' = "idle"
    BY <2>1 DEF Pursued, Running, Wanting
  <2>2. CASE pc' # "idle"
    <3>1. cfnObj' = obj' /\ cfnStatus' = status /\ pc' = AfterFinalizer(obj', status)
      BY <2>2 DEF AddFinalizer, ReturnError, ReturnAfter
    <3>2. AfterFinalizer(obj', status) \in {"idle", "observe", "source"}
      BY <1>1, <1>3 DEF AfterFinalizer, SameRequest, Objects, Specs
    <3>3. QED
      BY <1>1, <1>2, <2>2, <3>1, <3>2 DEF Pursued, Wanting, SameRequest, Remembers
  <2>3. QED
    BY <2>1, <2>2
<1>7. QED
  BY <1>2, <1>4, <1>5, <1>6 DEF Stuck, Futile

\* Both patches send the ARN that is gone: the one that was read, or written, last.
LEMMA PatchesStayStuck ==
  ASSUME TypeInv, NEW gone, NEW there, Stuck(gone, there), ObserveGeneration \/ PatchStatus
  PROVE  Stuck(gone, there)' /\ Futile
<1>1. /\ status \in Statuses /\ cfnStatus \in Statuses /\ Remembers(status, gone)
      /\ Running(pc) /\ SameRequest(cfnObj, obj) /\ Remembers(cfnStatus, gone)
  BY DEF TypeInv, TypeOK, ServerTypeOK, LocalTypeOK, Stuck, Misremembered, Pursued,
         ObserveGeneration, PatchStatus, At, Running
<1> DEFINE s == Progressing(cfnStatus, cfnObj.gen, NoRevision, NoArn)
<1>2. Remembers(s, gone) /\ s.ready = "Unknown"
  BY <1>1, UpdatesMisremember
<1> HIDE DEF s
<1>3. \E new \in {s, cfnStatus} :
        /\ UNCHANGED status \/ status' \in Patched(status, cachedStatus, new)
        /\ Remembers(new, gone) /\ new.ready # "True"
  <2>1. CASE ObserveGeneration
    BY <1>2, <2>1 DEF ObserveGeneration, PatchCall, PatchEffect, server, s
  <2>2. CASE PatchStatus
    <3>1. cfnStatus.ready # "True"
      BY <2>2 DEF PatchStatus, At, Stuck, Pursued
    <3>2. QED
      BY <1>1, <2>2, <3>1 DEF PatchStatus, PatchCall, PatchEffect, server
  <2>3. QED
    BY <2>1, <2>2
<1>4. Remembers(status', gone) /\ (status'.ready = "True" => status.ready = "True")
  BY <1>1, <1>3, PatchesMisremember
<1>5. UNCHANGED <<obj, cachedObj, cachedStatus, source>> /\ UNCHANGED service
  BY DEF ObserveGeneration, PatchStatus, PatchCall, PatchEffect, CacheUnsynced, server, cache,
         world
<1>6. Wanted(gone, there)' /\ Shadowed(gone, there)'
  BY <1>5, WantedStays, ShadowedStays DEF Stuck, SameRequest
<1>7. Misremembered(gone)'
  BY <1>4, <1>5 DEF Stuck, Misremembered, SameRequest, Exists, Remembers
<1>8. Pursued(gone)'
  <2>1. CASE ObserveGeneration
    <3>1. /\ pc' \in {"source", "patchStatus"} /\ cfnStatus' = s /\ UNCHANGED cfnObj
      BY <2>1 DEF ObserveGeneration, PatchCall, Report, s
    <3>2. QED
      BY <1>1, <1>2, <1>5, <3>1 DEF Pursued, Wanting, SameRequest, Remembers
  <2>2. CASE PatchStatus
    <3>1. pc' = "idle"
      BY <2>2 DEF PatchStatus, PatchCall, ReturnAfter, ReturnError
    <3>2. QED
      BY <3>1 DEF Pursued, Running, Wanting
  <2>3. QED
    BY <2>1, <2>2
<1>9. QED
  BY <1>4, <1>5, <1>6, <1>7, <1>8 DEF Stuck, Futile

\* No other step of the reconciler is possible.
LEMMA ControllerStaysStuck ==
  ASSUME TypeInv, NEW gone, NEW there, Stuck(gone, there), StartReconcile \/ ReconcileStep
  PROVE  Stuck(gone, there)' /\ Futile
<1>1. ~ContinueRollback /\ ~RecoverPanic /\ ~CleanupStack /\ ~DeleteEmptyChangeSet
      /\ ~DeleteFailedChangeSet /\ ~ExecuteChangeSet /\ ~DescribeStackForDelete
      /\ ~DeleteStack /\ ~RemoveFinalizer
  BY DEF ContinueRollback, RecoverPanic, CleanupStack, DeleteEmptyChangeSet,
         DeleteFailedChangeSet, ExecuteChangeSet, DescribeStackForDelete, DeleteStack,
         RemoveFinalizer, At, Stuck, Pursued, Running, Wanting
<1>2. QED
  BY <1>1, CallsStayStuck, StartStaysStuck, AddFinalizerStaysStuck, PatchesStayStuck
     DEF ReconcileStep

-----------------------------------------------------------------------------
(* Everything else.                                                          *)

\* What the service does on its own leaves a change set of that name, be it failed or
\* obsolete: nothing but an execution, or a deletion nobody has asked for, removes it.
LEMMA AwsStaysStuck ==
  ASSUME TypeInv, NEW gone, NEW there, Stuck(gone, there), Aws, ~Intervention, ~ReconcileStep
  PROVE  Stuck(gone, there)' /\ Futile
<1>1. /\ UNCHANGED <<obj, status, cachedObj, cachedStatus, source>>
      /\ UNCHANGED <<pc, cfnObj, cfnStatus, clientStack>>
  BY DEF Aws, AwsStep, server, cache, local, world
<1>2. /\ stack \in Stacks /\ css \in [Arns -> Descriptions] /\ gone \in Arns /\ there \in Arns
  BY DEF TypeInv, TypeOK, ServiceTypeOK, Stuck, Wanted
<1>3. /\ ~Live(gone) /\ Live(there) /\ css[there].status # "DELETE_IN_PROGRESS"
      /\ StackVerdict(stack.status) \in {"create", "update"}
  BY DEF Stuck, Shadowed
<1>4. ~StackInProgress(stack.status)
  BY <1>3 DEF StackVerdict, StackNotFound, StackInProgress, InProgressStackStatuses
<1>5. ~StackActionSucceeds /\ ~StackActionFails /\ ~OutOfBandDelete
  <2>1. stack.status \notin {"CREATE_IN_PROGRESS", "UPDATE_IN_PROGRESS", "ROLLBACK_IN_PROGRESS",
                             "UPDATE_ROLLBACK_IN_PROGRESS", "DELETE_IN_PROGRESS"}
    BY <1>4 DEF StackInProgress, InProgressStackStatuses
  <2>2. ~StackActionSucceeds /\ ~StackActionFails
    BY <2>1 DEF StackActionSucceeds, StackActionFails, FailsTo
  <2>3. ~OutOfBandDelete
    BY <1>2 DEF OutOfBandDelete, DeleteStackCall, Stacks, StackNotFound, Intervention
  <2>4. QED
    BY <2>2, <2>3
<1> DEFINE Stays(a) == css'[a].status = css[a].status
           Created(a) == /\ css[a].status = "CREATE_IN_PROGRESS"
                         /\ css'[a].status \in {"CREATE_COMPLETE", "FAILED"}
           Going(a) == css[a].status = "DELETE_IN_PROGRESS"
<1>6. /\ \A a \in Arns : Stays(a) \/ Created(a) \/ Going(a)
      /\ UNCHANGED stack \/ stack'.status = "UPDATE_COMPLETE"
  <2>1. CASE ChangeSetCreated \/ ChangeSetCreationFails
    BY <1>2, <2>1 DEF ChangeSetCreated, ChangeSetCreationFails, Descriptions
  <2>2. CASE ChangeSetDeleted \/ ChangeSetDeletionFails
    BY <1>2, <2>2 DEF ChangeSetDeleted, ChangeSetDeletionFails, Descriptions
  <2>3. CASE OutOfBandUpdate
    BY <1>2, <2>3 DEF OutOfBandUpdate, Descriptions
  <2>4. QED
    BY <1>5, <2>1, <2>2, <2>3 DEF Aws, AwsStep
<1>7. ~Live(gone)' /\ Live(there)' /\ css'[there].status # "DELETE_IN_PROGRESS"
  BY <1>2, <1>3, <1>6 DEF Live
<1>8. StackVerdict(stack'.status) \in {"create", "update"}
  <2>1. StackVerdict("UPDATE_COMPLETE") = "update"
    BY DEF StackVerdict, StackNotFound, StackInProgress, InProgressStackStatuses,
           RequiresRollbackContinuation, RequiresCleanup, UnrecoverableFailureStackStatuses,
           StackIsSuccess, SuccessfulDeploymentStackStatuses
  <2>2. QED
    BY <1>3, <1>6, <2>1
<1>9. Wanted(gone, there)' /\ Misremembered(gone)' /\ Pursued(gone)'
  BY <1>1 DEF Stuck, Wanted, Misremembered, Pursued, SameRequest, Exists, Remembers
<1>10. QED
  BY <1>1, <1>7, <1>8, <1>9 DEF Stuck, Shadowed, Futile

\* A crash forgets every copy but the server's, which the next process reads.
LEMMA SurroundingsStayStuck ==
  ASSUME TypeInv, NEW gone, NEW there, Stuck(gone, there), ~Intervention, ~ReconcileStep,
         TimerFires \/ CacheSync \/ Restart \/ Users \/ Crash
  PROVE  Stuck(gone, there)' /\ Futile
<1>1. UNCHANGED service
  BY DEF TimerFires, CacheSync, Restart, Users, EditSpec, DeleteObject, CreateObject,
         SourceChanges, Crash
<1>2. SameRequest(obj', obj) /\ UNCHANGED source
  BY DEF Intervention
<1>3. Wanted(gone, there)' /\ Shadowed(gone, there)'
  BY <1>1, <1>2, WantedStays, ShadowedStays DEF Stuck
<1>4. obj \in Objects /\ ~Exists(NoObject)
  BY DEF TypeInv, TypeOK, ServerTypeOK, NoObject, Exists
<1>5. ~EditSpec /\ ~DeleteObject /\ ~CreateObject
  <2>1. ~EditSpec
    <3>1. SUFFICES ASSUME EditSpec PROVE FALSE
      OBVIOUS
    <3>2. obj'.gen = obj.gen + 1 /\ obj.gen \in Nat
      BY <1>4, <3>1, ServiceConstants DEF EditSpec, Objects
    <3>3. QED
      BY <1>2, <3>2 DEF SameRequest
  <2>2. ~DeleteObject
    BY <1>2, <1>4 DEF DeleteObject, SameRequest, Objects, Exists, NoObject
  <2>3. ~CreateObject
    BY <1>2, <1>3 DEF CreateObject, Stuck, Wanted
  <2>4. QED
    BY <2>1, <2>2, <2>3
<1>6. UNCHANGED <<obj, status>>
  BY <1>5 DEF TimerFires, CacheSync, Restart, Users, SourceChanges, Crash, server
<1>7. \/ UNCHANGED <<cachedObj, cachedStatus>>
      \/ cachedObj' = obj /\ cachedStatus' = status
      \/ cachedObj' = NoObject
  BY <1>5 DEF TimerFires, CacheSync, Restart, Users, SourceChanges, Crash, cache
<1>8. Misremembered(gone)'
  BY <1>4, <1>6, <1>7 DEF Stuck, Misremembered, SameRequest, Remembers, Exists
<1>9. \/ UNCHANGED <<pc, cfnObj, cfnStatus, clientStack>>
      \/ pc' \in {"idle", "down"}
  BY <1>5 DEF TimerFires, CacheSync, Restart, Users, SourceChanges, Crash, local
<1>10. Pursued(gone)'
  BY <1>2, <1>6, <1>9 DEF Stuck, Pursued, Running, Wanting, SameRequest, Remembers
<1>11. QED
  BY <1>1, <1>3, <1>6, <1>8, <1>10 DEF Stuck, Futile

\* Once stuck, an object stays stuck through every interleaving, retry, crash and
\* restart, and through every fault of the services: only an edit or the deletion of
\* the object, a move of its source, or the deletion of the stack by somebody else
\* ends it.  Until then no call of the controller takes effect and the object never
\* becomes Ready.
THEOREM StuckForGood ==
  Spec => [][ \A gone, there \in Arns : Stuck(gone, there) =>
                (Stuck(gone, there)' /\ Futile) \/ Intervention ]_vars
<1>1. TypeInv /\ [Next]_vars =>
        [ \A gone, there \in Arns : Stuck(gone, there) =>
            (Stuck(gone, there)' /\ Futile) \/ Intervention ]_vars
  <2> SUFFICES ASSUME TypeInv, Next, NEW gone \in Arns, NEW there \in Arns, Stuck(gone, there),
                      ~Intervention
               PROVE  Stuck(gone, there)' /\ Futile
    OBVIOUS
  <2>1. CASE StartReconcile \/ ReconcileStep
    BY <2>1, ControllerStaysStuck
  <2>2. CASE Aws /\ ~ReconcileStep
    BY <2>2, AwsStaysStuck
  <2>3. CASE (TimerFires \/ CacheSync \/ Restart \/ Users \/ Crash) /\ ~ReconcileStep
    BY <2>3, SurroundingsStayStuck
  <2>4. QED
    BY <2>1, <2>2, <2>3 DEF Next, Controller
<1>2. Spec => []TypeInv
  BY TypeCorrectness DEF TypeInv
<1>3. QED
  BY <1>1, <1>2, PTL DEF Spec

==============================================================================
