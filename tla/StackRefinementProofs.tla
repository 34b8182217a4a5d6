------------------------ MODULE StackRefinementProofs ------------------------
(***************************************************************************)
(* StackController implements ReconcileLoop, for every value of its        *)
(* constants.                                                              *)
(***************************************************************************)
EXTENDS StackRefinement, StackControllerProofs

-----------------------------------------------------------------------------
(* The mapping.                                                              *)

Due == queued \/ delayed \/ lag = "event"

Worker == IF pc \in {"idle", "down"} THEN pc ELSE "busy"

\* What a step that the loop does not see leaves alone.
LEMMA UnseenSteps ==
  ASSUME RequestOf(obj)' = RequestOf(obj), obj'.finalizer = obj.finalizer,
         PhaseOf(stack.status)' = PhaseOf(stack.status),
         Worker' = Worker, RequestOf(cfnObj)' = RequestOf(cfnObj), Due' = Due
  PROVE  UNCHANGED Loop!loopVars
BY DEF Loop!loopVars, Worker, Due

\* Requests are what objects ask for; there is none without an object.
LEMMA ObjectsAsk ==
  ASSUME NEW o \in Objects
  PROVE  /\ Exists(o) <=> RequestOf(o) \in LoopRequests
         /\ ~Exists(NoObject) /\ LoopNobody \notin LoopRequests
<1>1. o.gen \in 0..MaxGeneration
  BY DEF Objects
<1>2. Exists(o) => RequestOf(o) \in LoopRequests
  BY <1>1, ServiceConstants DEF Exists, Objects, RequestOf, LoopRequests
<1>3. RequestOf(o) \in LoopRequests => Exists(o)
  BY ServiceConstants DEF Exists, RequestOf, LoopRequests
<1>4. ~Exists(NoObject)
  BY NoObjectType DEF Exists
<1>5. LoopNobody \notin LoopRequests
  BY ServiceConstants, NoObjectType DEF LoopNobody, RequestOf, LoopRequests
<1>6. QED
  BY <1>2, <1>3, <1>4, <1>5

\* What an object wishes.
LEMMA ObjectsWish ==
  ASSUME NEW o \in Objects, Exists(o)
  PROVE  /\ ~o.deleting /\ o.spec.suspend => Loop!Wish(RequestOf(o)) = "pause"
         /\ ~o.deleting /\ ~o.spec.suspend => Loop!Wish(RequestOf(o)) = "deploy"
         /\ o.deleting /\ (o.spec.suspend \/ ~o.spec.destroy) =>
              Loop!Wish(RequestOf(o)) = "release"
         /\ o.deleting /\ ~o.spec.suspend /\ o.spec.destroy =>
              Loop!Wish(RequestOf(o)) = "destroy"
<1>1. RequestOf(o) \in LoopRequests
  BY ObjectsAsk
<1>2. Loop!Wish(RequestOf(o)) = LoopWishOf[RequestOf(o)]
  BY <1>1 DEF Loop!Wish
<1>3. RequestOf(o).deleting = o.deleting /\ RequestOf(o).spec = o.spec
  BY DEF RequestOf
<1>4. o.deleting \in BOOLEAN /\ o.spec.suspend \in BOOLEAN /\ o.spec.destroy \in BOOLEAN
  BY DEF Objects, Specs
<1>5. QED
  BY <1>1, <1>2, <1>3, <1>4 DEF LoopWishOf

\* How a stack's status looks from outside.
LEMMA PhasesSeen ==
  /\ \A st : PhaseOf(st) \in Loop!Phases
  /\ \A st : PhaseOf(st) = "absent" <=> StackNotFound(st)
  /\ \A st : RequiresCleanup(st) => PhaseOf(st) = "broken"
  /\ \A st : StackIsSuccess(st) \/ IsRecoverableFailure(st) \/ RequiresRollbackContinuation(st)
              => PhaseOf(st) = "present"
  /\ PhaseOf("DELETE_IN_PROGRESS") = "deleting"
  /\ \A st \in {"CREATE_IN_PROGRESS", "UPDATE_IN_PROGRESS", "ROLLBACK_IN_PROGRESS",
               "UPDATE_ROLLBACK_IN_PROGRESS"} : PhaseOf(st) = "changing"
  /\ \A st : ~StackNotFound(st) /\ ~StackInProgress(st) => PhaseOf(st) \in {"present", "broken"}
BY DEF PhaseOf, Loop!Phases, StackNotFound, StackInProgress, RequiresCleanup, StackIsSuccess,
       IsRecoverableFailure, RequiresRollbackContinuation, InProgressStackStatuses,
       UnrecoverableFailureStackStatuses, SuccessfulDeploymentStackStatuses,
       RecoverableFailureStackStatuses

-----------------------------------------------------------------------------
(* Steps of the reconcile.                                                   *)

\* A step inside the reconcile that does not move the stack is not seen.
LEMMA InnerSteps ==
  ASSUME WorkInv, Outside, UNCHANGED cfnObj, Running(pc), Running(pc'),
         pc' \in Deploying => pc \in Deploying,
         pc' = "deleteStack" => PhaseOf(stack'.status) \in {"present", "broken", "deleting"}
                                  \/ stack'.status = "DELETE_COMPLETE",
         PhaseOf(stack'.status) = PhaseOf(stack.status)
  PROVE  WorkInv' /\ UNCHANGED Loop!loopVars
<1>1. UNCHANGED <<obj, queued, delayed, lag>>
  BY DEF Outside, server, queue, cache
<1>2. WorkInv'
  BY <1>1 DEF WorkInv, Running, Exists
<1>3. UNCHANGED Loop!loopVars
  BY <1>1, UnseenSteps DEF Running, Worker, Due, RequestOf
<1>4. QED
  BY <1>2, <1>3

\* One that moves the stack is the loop's work.
LEMMA WorkingSteps ==
  ASSUME WorkInv, Outside, UNCHANGED cfnObj, Running(pc), Running(pc'),
         pc' \in Deploying => pc \in Deploying, pc' # "deleteStack",
         NEW p, p = PhaseOf(stack.status), NEW q, q = PhaseOf(stack'.status),
         \/ Loop!Wish(RequestOf(cfnObj)) = "deploy" /\ p \in {"absent", "present"} /\ q = "changing"
         \/ Loop!Wish(RequestOf(cfnObj)) = "deploy" /\ p = "broken" /\ q = "deleting"
         \/ Loop!Wish(RequestOf(cfnObj)) = "destroy" /\ p \in {"present", "broken"} /\ q = "deleting"
  PROVE  WorkInv' /\ Loop!Work
<1>1. UNCHANGED <<obj, queued, delayed, lag>>
  BY DEF Outside, server, queue, cache
<1>2. WorkInv'
  BY <1>1 DEF WorkInv, Running, Exists
<1>3. Loop!Busy
  BY DEF Loop!Busy, Running
<1>4. UNCHANGED <<RequestOf(obj), obj.finalizer, Worker, RequestOf(cfnObj), Due>>
  BY <1>1 DEF Running, Worker, Due, RequestOf
<1>5. Loop!Work
  BY <1>3, <1>4 DEF Loop!Work, Worker, Due
<1>6. QED
  BY <1>2, <1>5

\* A reconcile that returns after an error or with a wait is seen to finish.
LEMMA ReturningSteps ==
  ASSUME TypeInv, WorkInv, Running(pc), ReturnError \/ ReturnAfter(result),
         UNCHANGED <<obj, stack>>
  PROVE  WorkInv' /\ Loop!Finish
<1>1. "backoff" \in Waits /\ result \in Waits
  BY DEF TypeInv, TypeOK, LocalTypeOK, Waits
<1>2. pc' = "idle" /\ cfnObj' = NoObject /\ delayed'
  BY <1>1 DEF ReturnError, ReturnAfter, ForgetLocals
<1>3. WorkInv'
  BY <1>2 DEF WorkInv, Exists, Deploying
<1>4. Loop!Busy /\ Loop!Rest
  BY <1>2 DEF Loop!Busy, Loop!Rest, Running, LoopNobody
<1>5. Loop!Finish
  BY <1>4 DEF Loop!Finish, RequestOf
<1>6. QED
  BY <1>3, <1>5

-----------------------------------------------------------------------------
(* Reconcile itself.                                                         *)

\* An object that is up to date in the cache is the object.
LEMMA SameRequests ==
  ASSUME NEW o, NEW p, SameRequest(o, p)
  PROVE  RequestOf(o) = RequestOf(p)
BY DEF SameRequest, RequestOf

\* A reconcile starts: the loop looks.
LEMMA StartImplements ==
  ASSUME TypeInv, ControlInv, WorkInv, StartReconcile
  PROVE  WorkInv' /\ Loop!Look
<1>1. /\ cachedObj \in Objects /\ obj \in Objects /\ cachedStatus \in Statuses
      /\ lag # "event" => SameRequest(cachedObj, obj)
  BY DEF TypeInv, TypeOK, CacheTypeOK, ServerTypeOK, ControlInv, CacheIsCurrent, StartReconcile, At
<1>2. /\ pc = "idle" /\ queued /\ ~queued' /\ cfnObj = NoObject
      /\ UNCHANGED <<obj, lag, delayed, stack>>
  BY DEF StartReconcile, server, cache, service, At, WorkInv
<1>3. UNCHANGED <<RequestOf(obj), obj.finalizer, PhaseOf(stack.status)>>
  BY <1>2 DEF RequestOf
<1>4. CASE pc' = "idle"
  <2>1. cfnObj' = NoObject
    BY <1>4 DEF StartReconcile, ForgetLocals
  <2>2. ~Exists(cachedObj) \/ (~cachedObj.deleting /\ cachedObj.spec.suspend)
    BY <1>1, <1>4, FinalizerDecides DEF StartReconcile
  <2>3. lag # "event" => ~Loop!NeedsWork(RequestOf(obj))
    <3>1. SUFFICES ASSUME lag # "event" PROVE ~Loop!NeedsWork(RequestOf(obj))
      OBVIOUS
    <3>2. SameRequest(cachedObj, obj)
      BY <1>1, <3>1
    <3>3. CASE ~Exists(obj)
      BY <1>1, <3>3, ObjectsAsk DEF Loop!NeedsWork, Loop!Wish
    <3>4. CASE Exists(obj)
      <4>1. ~obj.deleting /\ obj.spec.suspend
        BY <2>2, <3>2, <3>4 DEF SameRequest, Exists
      <4>2. QED
        BY <1>1, <3>4, <4>1, ObjectsWish DEF Loop!NeedsWork
    <3>5. QED
      BY <3>3, <3>4
  <2>4. WorkInv'
    BY <1>2, <1>4, <2>1 DEF WorkInv, Exists, Deploying
  <2>5. Loop!Look
    BY <1>2, <1>3, <1>4, <2>1, <2>3 DEF Loop!Look, LoopNobody
  <2>6. QED
    BY <2>4, <2>5
<1>5. CASE pc' # "idle"
  <2>1. cfnObj' = cachedObj /\ Exists(cachedObj)
    BY <1>5 DEF StartReconcile
  <2>2. /\ pc' \in (Outcomes \ {"idle"}) \cup {"addFinalizer"}
        /\ pc' \in {"observe", "source"} => ~cachedObj.deleting /\ ~cachedObj.spec.suspend
    BY <1>1, <1>5, FinalizerDecides DEF StartReconcile, AfterFinalizer, Objects, Specs, Outcomes
  <2>3. WorkInv'
    BY <1>2, <2>1, <2>2 DEF WorkInv, Exists, Deploying, Outcomes
  <2>4. RequestOf(cfnObj)' = RequestOf(cachedObj) /\ RequestOf(cachedObj) \in LoopRequests
    BY <1>1, <2>1, ObjectsAsk DEF RequestOf
  <2>5. RequestOf(cachedObj) = RequestOf(obj) \/ lag' = "event"
    BY <1>1, <1>2, SameRequests
  <2>6. Loop!Look
    BY <1>2, <1>3, <2>2, <2>4, <2>5 DEF Loop!Look, Loop!LookAt, Outcomes
  <2>7. QED
    BY <2>3, <2>6
<1>6. QED
  BY <1>4, <1>5

\* A write that the event filter drops changes nothing about what is due.
LEMMA QuietWrites ==
  ASSUME UNCHANGED lag \/ CacheUnsynced("status")
  PROVE  (lag' = "event") <=> (lag = "event")
BY DEF CacheUnsynced, Behind

LEMMA AddFinalizerImplements ==
  ASSUME TypeInv, WorkInv, AddFinalizer
  PROVE  WorkInv' /\ (Loop!Guard \/ Loop!Finish)
<1>1. obj \in Objects /\ status \in Statuses /\ pc = "addFinalizer" /\ UNCHANGED stack
  BY DEF TypeInv, TypeOK, ServerTypeOK, AddFinalizer, At, service
<1>2. Running(pc)
  BY <1>1 DEF Running
<1>3. CASE ReturnError /\ UNCHANGED obj
  BY <1>1, <1>2, <1>3, ReturningSteps
<1>4. CASE Exists(obj) /\ obj' = [obj EXCEPT !.finalizer = TRUE] /\ CacheUnsynced("status")
  <2>1. /\ obj' \in Objects /\ Exists(obj') /\ obj'.finalizer
        /\ RequestOf(obj)' = RequestOf(obj) /\ RequestOf(obj') = RequestOf(obj)
    BY <1>1, <1>4 DEF Objects, Exists, RequestOf
  <2>2. /\ RequestOf(obj) \in LoopRequests /\ Loop!Busy
        /\ UNCHANGED <<RequestOf(obj), PhaseOf(stack.status)>>
    BY <1>1, <1>2, <1>4, <2>1, ObjectsAsk DEF Loop!Busy, Running
  <2>3. CASE ReturnError
    <3>1. pc' = "idle" /\ cfnObj' = NoObject /\ delayed'
      BY <2>3 DEF ReturnError, ReturnAfter, ForgetLocals, Waits
    <3>2. WorkInv'
      BY <2>1, <3>1 DEF WorkInv, Exists, Deploying
    <3>3. Loop!Rest
      BY <3>1 DEF Loop!Rest, LoopNobody, RequestOf
    <3>4. QED
      BY <2>1, <2>2, <3>2, <3>3 DEF Loop!Guard
  <2>4. CASE ~ReturnError
    <3>1. /\ pc' = AfterFinalizer(obj', status)
          /\ IF pc' = "idle" THEN ForgetLocals ELSE cfnObj' = obj'
          /\ UNCHANGED <<queued, delayed>>
      BY <2>4 DEF AddFinalizer, queue
    <3>2. /\ pc' \in Outcomes
          /\ pc' = "idle" => ~obj'.deleting /\ obj'.spec.suspend
          /\ pc' \in {"observe", "source"} => ~obj'.deleting /\ ~obj'.spec.suspend
      <4>1. PICK o \in Objects : o = obj'
        BY <2>1
      <4>2. pc' = AfterFinalizer(o, status)
        BY <3>1, <4>1
      <4>3. /\ pc' \in {"observe", "source"} => ~o.deleting /\ ~o.spec.suspend
        BY <4>2 DEF AfterFinalizer, Objects, Specs
      <4>4. QED
        BY <1>1, <4>1, <4>2, <4>3, FinalizerDecides
    <3>3. (lag' = "event") <=> (lag = "event")
      BY <1>4, QuietWrites
    <3>4. CASE pc' = "idle"
      <4>1. cfnObj' = NoObject
        BY <3>1, <3>4 DEF ForgetLocals
      <4>2. ~obj.deleting /\ obj.spec.suspend
        BY <1>1, <1>4, <3>2, <3>4 DEF Objects
      <4>3. ~Loop!NeedsWork(RequestOf(obj))
        BY <1>1, <1>4, <4>2, ObjectsWish DEF Loop!NeedsWork
      <4>4. WorkInv'
        BY <2>1, <3>4, <4>1 DEF WorkInv, Exists, Deploying
      <4>5. Loop!Rest
        BY <3>1, <3>3, <3>4, <4>1, <4>3, Zenon DEF Loop!Rest, LoopNobody, RequestOf
      <4>6. QED
        BY <2>1, <2>2, <4>4, <4>5 DEF Loop!Guard
    <3>5. CASE pc' # "idle"
      <4>1. cfnObj' = obj'
        BY <3>1, <3>5
      <4>2. WorkInv'
        BY <2>1, <3>2, <3>5, <4>1 DEF WorkInv, Exists, Deploying, Outcomes
      <4>3. Loop!Guard
        BY <2>1, <2>2, <3>1, <3>2, <3>3, <3>5, <4>1 DEF Loop!Guard, Outcomes, RequestOf
      <4>4. QED
        BY <4>2, <4>3
    <3>6. QED
      BY <3>4, <3>5
  <2>5. QED
    BY <2>3, <2>4
<1>5. QED
  BY <1>3, <1>4 DEF AddFinalizer, server

\* Recording a new generation is not seen.
LEMMA ObserveImplements ==
  ASSUME WorkInv, ObserveGeneration
  PROVE  WorkInv' /\ UNCHANGED Loop!loopVars
<1>1. /\ UNCHANGED <<obj, queued, delayed, cfnObj, stack>>
      /\ UNCHANGED lag \/ CacheUnsynced("status")
      /\ pc = "observe" /\ pc' \in {"source", "patchStatus"}
  BY DEF ObserveGeneration, PatchCall, PatchEffect, Report, server, cache, queue, service, At
<1>2. (lag' = "event") <=> (lag = "event")
  BY <1>1, QuietWrites
<1>3. WorkInv'
  BY <1>1 DEF WorkInv, Deploying, Exists
<1>4. UNCHANGED Loop!loopVars
  BY <1>1, <1>2, UnseenSteps DEF Worker, Due, RequestOf
<1>5. QED
  BY <1>3, <1>4

LEMMA PatchImplements ==
  ASSUME TypeInv, WorkInv, PatchStatus
  PROVE  WorkInv' /\ Loop!Finish
<1>1. UNCHANGED <<obj, stack>> /\ Running(pc) /\ (ReturnError \/ ReturnAfter(result))
  BY DEF PatchStatus, PatchCall, PatchEffect, server, service, Running, At
<1>2. QED
  BY <1>1, ReturningSteps

\* The finalizer is removed for what the loop may release.
LEMMA RemoveImplements ==
  ASSUME TypeInv, ControlInv, WorkInv, RemoveFinalizer
  PROVE  WorkInv' /\ (Loop!Release \/ Loop!Finish)
<1>1. UNCHANGED stack /\ pc = "removeFinalizer" /\ Running(pc)
  BY DEF RemoveFinalizer, service, At, Running
<1>2. CASE UNCHANGED obj /\ ReturnError
  BY <1>1, <1>2, ReturningSteps
<1>3. CASE held /\ obj' = NoObject /\ CacheUnsynced("event") /\ (ReturnNothing \/ ReturnError)
  <2>1. obj \in Objects /\ cfnObj = obj /\ obj.deleting /\ Exists(obj)
    BY <1>3 DEF TypeInv, TypeOK, ServerTypeOK, ControlInv, HeldIsCurrent
  <2>2. obj.spec.suspend \/ ~obj.spec.destroy \/ StackNotFound(stack.status)
    BY <1>1, <2>1 DEF ControlInv, DecisionsHold
  <2>3. \/ Loop!Wish(RequestOf(obj)) = "release"
        \/ Loop!Wish(RequestOf(obj)) = "destroy" /\ PhaseOf(stack.status) = "absent"
    BY <2>1, <2>2, ObjectsWish, PhasesSeen
  <2>4. pc' = "idle" /\ cfnObj' = NoObject
    BY <1>3 DEF ReturnNothing, ReturnError, ReturnAfter, ForgetLocals
  <2>5. lag' = "event"
    BY <1>3, <2>1, NoObjectType DEF CacheUnsynced, Behind, Exists
  <2>6. WorkInv'
    BY <1>3, <2>4 DEF WorkInv, Deploying
  <2>7. Loop!Release
    BY <1>1, <1>3, <2>1, <2>3, <2>4, <2>5
       DEF Loop!Release, Loop!Busy, LoopNobody, RequestOf, NoObject, Running
  <2>8. QED
    BY <2>6, <2>7
<1>4. QED
  BY <1>2, <1>3 DEF RemoveFinalizer, server

-----------------------------------------------------------------------------
(* The calls to CloudFormation.                                              *)

\* The step ends the work, successfully or not.
LEMMA WorkEnds ==
  /\ \A st, wait : Report(st, wait) => UNCHANGED cfnObj /\ pc' = "patchStatus"
  /\ ApiCallFails => UNCHANGED cfnObj /\ pc' = "patchStatus"
  /\ "patchStatus" \notin Deploying /\ Running("patchStatus")
BY DEF Report, ApiCallFails, Deploying, Running

\* While it deploys, the loop works for a request that wishes it.
LEMMA DeployingWishes ==
  ASSUME TypeInv, WorkInv, pc \in Deploying
  PROVE  Loop!Wish(RequestOf(cfnObj)) = "deploy"
<1>1. /\ cfnObj \in Objects /\ Exists(cfnObj)
      /\ ~cfnObj.deleting /\ ~cfnObj.spec.suspend
  BY DEF TypeInv, TypeOK, LocalTypeOK, WorkInv, Deploying
<1>2. QED
  BY <1>1, ObjectsWish

\* These only read the stack, or what is in its change sets.
LEMMA ReadsImplement ==
  ASSUME TypeInv, WorkInv,
         \/ ReconcileSource \/ DescribeStack \/ DescribeChangeSet \/ UploadTemplate
         \/ DeleteEmptyChangeSet \/ DeleteFailedChangeSet \/ DescribeStackForDelete
  PROVE  WorkInv' /\ UNCHANGED Loop!loopVars
<1>1. Outside /\ Running(pc) /\ UNCHANGED stack
  BY DEF ReconcileSource, DescribeStack, DescribeChangeSet, UploadTemplate, DeleteEmptyChangeSet,
         DeleteFailedChangeSet, DescribeStackForDelete, At, Running, Call, DeleteChangeSetCall,
         service
<1>2. ASSUME UNCHANGED cfnObj, Running(pc'), pc' \in Deploying => pc \in Deploying,
             pc' # "deleteStack"
      PROVE  WorkInv' /\ UNCHANGED Loop!loopVars
  BY <1>1, <1>2, InnerSteps
<1>3. CASE DescribeStackForDelete
  <2>1. CASE pc' = "deleteStack"
    <3>1. UNCHANGED cfnObj /\ DeletionVerdict(stack.status) = "delete"
      BY <1>3, <2>1, WorkEnds DEF DescribeStackForDelete, Goto
    <3>2. ~StackNotFound(stack.status) /\ ~StackInProgress(stack.status)
      BY <3>1 DEF DeletionVerdict
    <3>3. PhaseOf(stack.status) \in {"present", "broken"}
      BY <3>2, PhasesSeen
    <3>4. QED
      BY <1>1, <2>1, <3>1, <3>3, InnerSteps DEF Deploying, Running
  <2>2. CASE pc' # "deleteStack"
    <3>1. UNCHANGED cfnObj /\ pc' \in {"patchStatus", "removeFinalizer"}
      BY <1>3, <2>2, WorkEnds DEF DescribeStackForDelete, Goto
    <3>2. QED
      BY <1>2, <2>2, <3>1 DEF Deploying, Running
  <2>3. QED
    BY <2>1, <2>2
<1>4. CASE ReconcileSource
  <2>1. UNCHANGED cfnObj /\ pc' \in {"patchStatus", "describeStack"} /\ pc = "source"
    BY <1>4, WorkEnds
       DEF ReconcileSource, SourceMissing, SourceFails, DependencyNotReady, BuildClientStack, At
  <2>2. QED
    BY <1>2, <2>1 DEF Deploying, Running
<1>5. CASE DescribeStack
  <2>1. /\ UNCHANGED cfnObj /\ pc = "describeStack"
        /\ pc' \in {"patchStatus", "describeChangeSet", "continueRollback", "cleanup"}
    BY <1>5, WorkEnds DEF DescribeStack, Goto, At
  <2>2. QED
    BY <1>2, <2>1 DEF Deploying, Running
<1>6. CASE DescribeChangeSet
  <2>1. /\ UNCHANGED cfnObj /\ pc = "describeChangeSet"
        /\ pc' \in {"patchStatus", "upload", "deleteEmpty", "deleteFailed", "execute"}
    BY <1>6, WorkEnds DEF DescribeChangeSet, Goto, At
  <2>2. QED
    BY <1>2, <2>1 DEF Deploying, Running
<1>7. CASE UploadTemplate
  <2>1. UNCHANGED cfnObj /\ pc' \in {"patchStatus", "create"} /\ pc = "upload"
    BY <1>7, WorkEnds DEF UploadTemplate, Goto, At
  <2>2. QED
    BY <1>2, <2>1 DEF Deploying, Running
<1>8. CASE DeleteEmptyChangeSet \/ DeleteFailedChangeSet
  <2>1. UNCHANGED cfnObj /\ pc' = "patchStatus"
    BY <1>8, WorkEnds DEF DeleteEmptyChangeSet, DeleteFailedChangeSet, Call
  <2>2. QED
    BY <1>2, <2>1 DEF Deploying, Running
<1>9. QED
  BY <1>3, <1>4, <1>5, <1>6, <1>7, <1>8

\* These may move it.
LEMMA WritesImplement ==
  ASSUME TypeInv, ControlInv, WorkInv,
         \/ ContinueRollback \/ CleanupStack \/ CreateChangeSet \/ ExecuteChangeSet \/ DeleteStack
  PROVE  WorkInv' /\ [Loop!Work]_Loop!loopVars
<1>1. /\ Outside /\ Running(pc) /\ UNCHANGED cfnObj
      /\ pc' \in {"patchStatus", "panic"} /\ (pc' = "panic" => pc = "continueRollback")
  <2>1. Outside /\ Running(pc)
    BY DEF ContinueRollback, CleanupStack, CreateChangeSet, ExecuteChangeSet, DeleteStack, At, Running
  <2>2. UNCHANGED cfnObj /\ pc' \in {"patchStatus", "panic"} /\ (pc' = "panic" => pc = "continueRollback")
    BY WorkEnds
       DEF ContinueRollback, CleanupStack, CreateChangeSet, ExecuteChangeSet, DeleteStack, Call, Goto, At
  <2>3. QED
    BY <2>1, <2>2
<1>2. stack \in Stacks
  BY DEF TypeInv, TypeOK, ServiceTypeOK
<1>3. CASE PhaseOf(stack'.status) = PhaseOf(stack.status)
  <2>1. pc' \in Deploying => pc \in Deploying
    BY <1>1 DEF Deploying
  <2>2. QED
    BY <1>1, <1>3, <2>1, InnerSteps DEF Running
<1>4. CASE PhaseOf(stack'.status) # PhaseOf(stack.status)
  <2> DEFINE p == PhaseOf(stack.status)
             q == PhaseOf(stack'.status)
             deploy == Loop!Wish(RequestOf(cfnObj)) = "deploy"
             destroy == Loop!Wish(RequestOf(cfnObj)) = "destroy"
  <2>0. pc' \in Deploying => pc \in Deploying
    BY <1>1 DEF Deploying
  <2> SUFFICES \/ deploy /\ p \in {"absent", "present"} /\ q = "changing"
               \/ deploy /\ p = "broken" /\ q = "deleting"
               \/ destroy /\ p \in {"present", "broken"} /\ q = "deleting"
    BY <1>1, <1>4, WorkingSteps, <2>0 DEF Running
  <2>1. CASE ContinueRollback
    <3>1. /\ stack.status = "UPDATE_ROLLBACK_FAILED"
          /\ stack'.status = "UPDATE_ROLLBACK_IN_PROGRESS"
      BY <1>2, <1>4, <2>1
         DEF ContinueRollback, Call, ContinueRollbackCall, ContinueRollbackAccepted, service, Stacks,
             RequiresRollbackContinuation
    <3>2. p = "present" /\ q = "changing"
      BY <3>1, PhasesSeen DEF RequiresRollbackContinuation
    <3>3. deploy
      BY <2>1, DeployingWishes DEF ContinueRollback, At, Deploying
    <3>4. QED
      BY <3>2, <3>3
  <2>2. CASE CleanupStack
    <3>1. stack'.status = "DELETE_IN_PROGRESS" /\ stack.status # "DELETE_COMPLETE"
          /\ stack.status # "DELETE_IN_PROGRESS"
      BY <1>2, <1>4, <2>2 DEF CleanupStack, Call, DeleteStackCall, service, Stacks
    <3>2. RequiresCleanup(stack.status)
      BY <2>2, <3>1 DEF CleanupStack, At, ControlInv, DecisionsHold
    <3>3. p = "broken" /\ q = "deleting"
      BY <3>1, <3>2, PhasesSeen
    <3>4. deploy
      BY <2>2, DeployingWishes DEF CleanupStack, At, Deploying
    <3>5. QED
      BY <3>3, <3>4
  <2>3. CASE CreateChangeSet
    <3>1. PICK arn \in Arns : \E content :
            \/ UNCHANGED stack
            \/ /\ CreateAccepted(arn, clientStack.isCreate)
               /\ CreateChangeSetCall(arn, content, clientStack.isCreate)
      BY <2>3 DEF CreateChangeSet, NewArns, Call, service
    <3>2. \/ UNCHANGED stack
          \/ StackNotFound(stack.status) /\ stack'.status = "REVIEW_IN_PROGRESS"
      BY <1>2, <3>1 DEF CreateAccepted, CreateChangeSetCall, Stacks
    <3>3. QED
      BY <1>4, <3>2, PhasesSeen DEF StackNotFound
  <2>4. CASE ExecuteChangeSet
    <3>1. /\ stack.status = "REVIEW_IN_PROGRESS" \/ Updatable
          /\ stack'.status \in {"CREATE_IN_PROGRESS", "UPDATE_IN_PROGRESS"}
      BY <1>2, <1>4, <2>4
         DEF ExecuteChangeSet, Call, ExecuteAccepted, ExecuteChangeSetCall, service, Stacks
    <3>2. p \in {"absent", "present"} /\ q = "changing"
      BY <3>1, PhasesSeen DEF Updatable, StackNotFound
    <3>3. deploy
      BY <2>4, DeployingWishes DEF ExecuteChangeSet, At, Deploying
    <3>4. QED
      BY <3>2, <3>3
  <2>5. CASE DeleteStack
    <3>1. stack'.status = "DELETE_IN_PROGRESS" /\ stack.status # "DELETE_COMPLETE" /\ pc = "deleteStack"
      BY <1>2, <1>4, <2>5 DEF DeleteStack, Call, DeleteStackCall, service, Stacks, At
    <3>2. p \in {"present", "broken"} /\ q = "deleting"
      BY <1>4, <3>1, PhasesSeen DEF WorkInv
    <3>3. destroy
      <4>1. /\ cfnObj \in Objects /\ Exists(cfnObj)
            /\ cfnObj.deleting /\ cfnObj.spec.destroy /\ ~cfnObj.spec.suspend
        BY <3>1 DEF TypeInv, TypeOK, LocalTypeOK, WorkInv, ControlInv, DecisionsHold
      <4>2. QED
        BY <4>1, ObjectsWish
    <3>4. QED
      BY <3>2, <3>3
  <2>6. QED
    BY <2>1, <2>2, <2>3, <2>4, <2>5
<1>5. QED
  BY <1>3, <1>4

-----------------------------------------------------------------------------
(* What happens around the reconcile.                                        *)

\* Writes that the event filter lets through make the loop due.
LEMMA LoudWrites ==
  ASSUME obj' # obj, CacheUnsynced("event")
  PROVE  lag' = "event"
BY DEF CacheUnsynced, Behind

\* Users ask, and withdraw what has no finalizer.
LEMMA UsersImplement ==
  ASSUME TypeInv, WorkInv, EditSpec \/ DeleteObject \/ CreateObject
  PROVE  WorkInv' /\ (Loop!Ask \/ Loop!Withdraw)
<1>1. /\ UNCHANGED <<queued, delayed, stack, pc, cfnObj>> /\ CacheUnsynced("event")
      /\ obj \in Objects
  BY DEF EditSpec, DeleteObject, CreateObject, Overtaken, queue, service, local,
         TypeInv, TypeOK, ServerTypeOK
<1>2. obj' # obj => WorkInv' \/ ~(~Exists(obj') => obj' = NoObject)
  BY <1>1, LoudWrites DEF WorkInv, Exists, Deploying
<1>3. UNCHANGED <<PhaseOf(stack.status), Worker, RequestOf(cfnObj)>>
  BY <1>1 DEF Worker, RequestOf
<1>4. ASSUME NEW spec \in Specs, NEW deleting \in BOOLEAN, Exists(obj), obj.gen < MaxGeneration,
             obj' = [gen |-> obj.gen + 1, spec |-> spec, deleting |-> deleting,
                     finalizer |-> obj.finalizer],
             spec # obj.spec \/ deleting # obj.deleting, obj.deleting => deleting
      PROVE  WorkInv' /\ Loop!Ask
  <2>1. obj.gen \in 1..MaxGeneration /\ obj.gen + 1 \in 1..MaxGeneration /\ obj.finalizer \in BOOLEAN
    BY <1>1, <1>4, ServiceConstants DEF Objects, Exists
  <2>2. Exists(obj') /\ obj' \in Objects /\ obj' # obj
    BY <1>4, <2>1, ServiceConstants DEF Objects, Exists
  <2>3. WorkInv' /\ lag' = "event"
    BY <1>1, <1>2, <2>2, LoudWrites
  <2>4. /\ RequestOf(obj') \in LoopRequests /\ RequestOf(obj') # RequestOf(obj)
        /\ RequestOf(obj) # LoopNobody
    <3>1. RequestOf(obj') \in LoopRequests /\ RequestOf(obj) # LoopNobody
      BY <1>1, <1>4, <2>2, ObjectsAsk
    <3>2. RequestOf(obj').spec = spec /\ RequestOf(obj').deleting = deleting
      BY <1>4 DEF RequestOf
    <3>3. QED
      BY <1>4, <3>1, <3>2 DEF RequestOf
  <2>5. Loop!Leaving(RequestOf(obj)) => Loop!Leaving(RequestOf(obj'))
    <3>1. obj'.deleting = deleting /\ obj'.spec = spec
      BY <1>4
    <3>2. Loop!Leaving(RequestOf(obj)) => obj.deleting
      BY <1>1, <1>4, ObjectsWish DEF Loop!Leaving, Objects, Specs
    <3>3. obj'.deleting => Loop!Leaving(RequestOf(obj'))
      BY <2>2, ObjectsWish DEF Loop!Leaving, Objects, Specs
    <3>4. QED
      BY <1>4, <3>1, <3>2, <3>3
  <2>6. obj'.finalizer = (obj.finalizer /\ RequestOf(obj) # LoopNobody)
    BY <1>4, <2>1, <2>4
  <2>7. RequestOf(obj)' = RequestOf(obj')
    BY DEF RequestOf
  <2>8. Loop!Ask
    BY <1>3, <2>3, <2>4, <2>5, <2>6, <2>7 DEF Loop!Ask, Worker
  <2>9. QED
    BY <2>3, <2>8
<1>5. CASE EditSpec \/ (DeleteObject /\ obj.finalizer)
  <2>1. CASE EditSpec
    <3>1. PICK spec \in UserSpecs \ {obj.spec} :
            obj' = [obj EXCEPT !.spec = spec, !.gen = @ + 1]
      BY <2>1 DEF EditSpec
    <3>2. /\ spec \in Specs /\ obj.deleting \in BOOLEAN /\ spec # obj.spec
          /\ Exists(obj) /\ obj.gen < MaxGeneration
          /\ obj' = [gen |-> obj.gen + 1, spec |-> spec, deleting |-> obj.deleting,
                     finalizer |-> obj.finalizer]
      BY <1>1, <2>1, <3>1, ControllerConstants DEF EditSpec, Objects
    <3>3. QED
      BY <1>4, <3>2
  <2>2. CASE DeleteObject /\ obj.finalizer
    <3>1. /\ obj.spec \in Specs /\ ~obj.deleting /\ obj.deleting \in BOOLEAN
          /\ Exists(obj) /\ obj.gen < MaxGeneration
          /\ obj' = [gen |-> obj.gen + 1, spec |-> obj.spec, deleting |-> TRUE,
                     finalizer |-> obj.finalizer]
      BY <1>1, <2>2 DEF DeleteObject, Objects
    <3>2. QED
      BY <1>4, <3>1
  <2>3. QED
    BY <1>5, <2>1, <2>2
<1>6. CASE DeleteObject /\ ~obj.finalizer
  <2>1. obj' = NoObject /\ Exists(obj)
    BY <1>6 DEF DeleteObject
  <2>2. obj' # obj
    BY <2>1, ObjectsAsk, <1>1
  <2>3. WorkInv' /\ lag' = "event"
    BY <1>1, <1>2, <2>1, <2>2, LoudWrites
  <2>4. RequestOf(obj) \in LoopRequests /\ RequestOf(obj)' = LoopNobody
    BY <1>1, <2>1, ObjectsAsk DEF LoopNobody, RequestOf
  <2>5. obj.finalizer = FALSE /\ obj'.finalizer = FALSE
    BY <1>1, <1>6, <2>1 DEF NoObject, Objects
  <2>6. Loop!Withdraw
    BY <1>3, <2>3, <2>4, <2>5 DEF Loop!Withdraw, Worker, RequestOf
  <2>7. QED
    BY <2>3, <2>6
<1>7. CASE CreateObject
  <2>1. PICK spec \in UserSpecs :
          obj' = [gen |-> 1, spec |-> spec, deleting |-> FALSE, finalizer |-> FALSE]
    BY <1>7 DEF CreateObject
  <2>2. Exists(obj') /\ obj' \in Objects /\ ~Exists(obj) /\ ~obj'.finalizer
    BY <1>7, <2>1, ControllerConstants, ServiceConstants DEF CreateObject, Objects, Exists
  <2>3. WorkInv' /\ lag' = "event"
    BY <1>1, <1>2, <2>2, LoudWrites
  <2>4. /\ RequestOf(obj') \in LoopRequests /\ RequestOf(obj) = LoopNobody
        /\ RequestOf(obj) \notin LoopRequests
    BY <1>1, <2>2, ObjectsAsk DEF WorkInv, LoopNobody
  <2>5. ~Loop!Leaving(RequestOf(obj))
    BY <2>4 DEF Loop!Leaving, Loop!Wish
  <2>6. obj'.finalizer = FALSE
    BY <2>1
  <2>7. Loop!Ask
    BY <1>3, <2>3, <2>4, <2>5, <2>6 DEF Loop!Ask, Worker, RequestOf
  <2>8. QED
    BY <2>3, <2>7
<1>8. QED
  BY <1>5, <1>6, <1>7

\* The stack moves on by itself.
LEMMA AwsImplements ==
  ASSUME TypeInv, WorkInv, Aws
  PROVE  WorkInv' /\ [Loop!Settle]_Loop!loopVars
<1>1. UNCHANGED <<obj, lag, queued, delayed, pc, cfnObj>>
  BY DEF Aws, AwsStep, server, cache, queue, local
<1>2. stack \in Stacks
  BY DEF TypeInv, TypeOK, ServiceTypeOK
<1> DEFINE p == PhaseOf(stack.status)
           q == PhaseOf(stack'.status)
<1>3. \/ p = q
      \/ p = "changing" /\ q \in {"present", "broken"}
      \/ p = "deleting" /\ q \in {"absent", "broken"}
      \/ /\ "outOfBandDelete" \in FaultKinds
         /\ p \in {"present", "broken"} /\ q = "deleting"
  <2>1. CASE UNCHANGED stack
    BY <2>1
  <2>2. CASE StackActionSucceeds
    BY <1>2, <2>2, PhasesSeen
       DEF StackActionSucceeds, Stacks, StackIsSuccess, SuccessfulDeploymentStackStatuses,
           IsRecoverableFailure, RecoverableFailureStackStatuses, RequiresCleanup,
           UnrecoverableFailureStackStatuses, StackNotFound
  <2>3. CASE StackActionFails
    BY <1>2, <2>3, PhasesSeen
       DEF StackActionFails, FailsTo, Stacks, IsRecoverableFailure, RecoverableFailureStackStatuses,
           RequiresCleanup, UnrecoverableFailureStackStatuses, RequiresRollbackContinuation
  <2>4. CASE OutOfBandUpdate
    BY <2>4, PhasesSeen
       DEF OutOfBandUpdate, Updatable, StackIsSuccess, SuccessfulDeploymentStackStatuses
  <2>5. CASE OutOfBandDelete
    <3>1. /\ "outOfBandDelete" \in FaultKinds
          /\ ~StackNotFound(stack.status) /\ ~StackInProgress(stack.status)
          /\ stack'.status = "DELETE_IN_PROGRESS"
      BY <1>2, <2>5 DEF OutOfBandDelete, DeleteStackCall, Fault, Stacks, StackNotFound
    <3>2. QED
      BY <3>1, PhasesSeen
  <2>6. QED
    BY <2>1, <2>2, <2>3, <2>4, <2>5
       DEF Aws, AwsStep, ChangeSetCreated, ChangeSetCreationFails, ChangeSetDeleted,
           ChangeSetDeletionFails
<1>4. \/ p \in {"present", "broken", "deleting"} \/ stack.status = "DELETE_COMPLETE"
      => \/ q \in {"present", "broken", "deleting"} \/ stack'.status = "DELETE_COMPLETE"
  <2>1. CASE UNCHANGED stack
    BY <2>1
  <2>2. CASE StackActionSucceeds /\ ~UNCHANGED stack
    <3>1. stack.status # "DELETE_COMPLETE"
      BY <2>2 DEF StackActionSucceeds
    <3>2. p = "deleting" => stack'.status = "DELETE_COMPLETE"
      BY <2>2, PhasesSeen
         DEF StackActionSucceeds
    <3>3. QED
      BY <1>3, <3>1, <3>2
  <2>3. CASE StackActionFails \/ OutOfBandUpdate \/ OutOfBandDelete
    <3>1. stack.status # "DELETE_COMPLETE" /\ q # "absent"
      BY <1>2, <2>3, PhasesSeen
         DEF StackActionFails, FailsTo, OutOfBandUpdate, OutOfBandDelete, Updatable, StackNotFound,
             StackIsSuccess, SuccessfulDeploymentStackStatuses, IsRecoverableFailure,
             RecoverableFailureStackStatuses, DeleteStackCall, Stacks
    <3>2. QED
      BY <1>3, <3>1
  <2>4. QED
    BY <2>1, <2>2, <2>3
       DEF Aws, AwsStep, ChangeSetCreated, ChangeSetCreationFails, ChangeSetDeleted,
           ChangeSetDeletionFails
<1>5. WorkInv'
  BY <1>1, <1>4 DEF WorkInv, Exists, Deploying
<1>6. UNCHANGED <<RequestOf(obj), obj.finalizer, Worker, RequestOf(cfnObj), Due>>
  BY <1>1 DEF Worker, Due, RequestOf
<1>7. CASE p = q
  BY <1>5, <1>6, <1>7, UnseenSteps DEF RequestOf
<1>8. CASE p # q
  <2>1. Loop!Settle
    BY <1>3, <1>6, <1>8 DEF Loop!Settle, Worker, Due
  <2>2. QED
    BY <1>5, <2>1
<1>9. QED
  BY <1>7, <1>8

\* The queue, the informer, the source, and the process.
LEMMA ProcessImplements ==
  ASSUME TypeInv, WorkInv,
         RecoverPanic \/ TimerFires \/ CacheSync \/ SourceChanges \/ Crash \/ Restart
  PROVE  WorkInv' /\ [Loop!Next]_Loop!loopVars
<1>1. UNCHANGED <<obj, stack>> /\ obj \in Objects
  BY DEF RecoverPanic, TimerFires, CacheSync, SourceChanges, Crash, Restart, server, service,
         TypeInv, TypeOK, ServerTypeOK
<1>2. UNCHANGED <<RequestOf(obj), obj.finalizer, PhaseOf(stack.status)>>
  BY <1>1 DEF RequestOf
<1>3. CASE RecoverPanic
  <2>1. WorkInv' /\ Loop!Finish
    BY <1>1, <1>3, ReturningSteps DEF RecoverPanic, At, Running
  <2>2. QED
    BY <2>1 DEF Loop!Next
<1>4. CASE TimerFires \/ CacheSync
  <2>1. UNCHANGED <<pc, cfnObj>> /\ pc # "down"
    BY <1>4 DEF TimerFires, CacheSync, local, At
  <2>2. Due' = Due
    <3>1. queued \in BOOLEAN /\ delayed \in BOOLEAN
      BY DEF TypeInv, TypeOK, QueueTypeOK
    <3>2. CASE TimerFires
      BY <3>1, <3>2 DEF TimerFires, Due, cache
    <3>3. CASE CacheSync
      <4>1. queued' = (queued \/ lag = "event") /\ delayed' = delayed /\ lag' # "event"
        BY <3>3 DEF CacheSync
      <4>2. CASE lag = "event"
        BY <3>1, <4>1, <4>2 DEF Due
      <4>3. CASE lag # "event"
        BY <3>1, <4>1, <4>3 DEF Due
      <4>4. QED
        BY <4>2, <4>3
    <3>4. QED
      BY <1>4, <3>2, <3>3
  <2>3. WorkInv'
    BY <1>1, <2>1 DEF WorkInv, Exists, Deploying
  <2>4. UNCHANGED <<Worker, RequestOf(cfnObj)>>
    BY <2>1 DEF Worker, RequestOf
  <2>5. QED
    BY <1>2, <2>2, <2>3, <2>4, UnseenSteps
<1>5. CASE SourceChanges
  <2>1. UNCHANGED <<pc, cfnObj, delayed, lag>> /\ (queued => queued') /\ (pc = "down" => queued' = queued)
    BY <1>5 DEF SourceChanges, local, cache, At, TypeInv, TypeOK, QueueTypeOK
  <2>2. WorkInv'
    BY <1>1, <2>1 DEF WorkInv, Exists, Deploying
  <2>3. UNCHANGED <<Worker, RequestOf(cfnObj)>>
    BY <2>1 DEF Worker, RequestOf
  <2>4. CASE Due
    <3>1. Due'
      BY <2>1, <2>4 DEF Due
    <3>2. Loop!Remind
      BY <1>2, <2>3, <3>1 DEF Loop!Remind, Worker, Due
    <3>3. QED
      BY <2>2, <3>2 DEF Loop!Next
  <2>5. CASE ~Due
    <3>1. CASE Due'
      <4>1. Loop!Remind
        BY <1>2, <2>3, <3>1 DEF Loop!Remind, Worker, Due
      <4>2. QED
        BY <2>2, <4>1 DEF Loop!Next
    <3>2. CASE ~Due'
      <4>1. Due' = Due
        BY <2>5, <3>2 DEF Due
      <4>2. QED
        BY <1>2, <2>2, <2>3, <4>1, UnseenSteps
    <3>3. QED
      BY <3>1, <3>2
  <2>6. QED
    BY <2>4, <2>5
<1>6. CASE Crash
  <2>1. /\ pc # "down" /\ pc' = "down" /\ cfnObj' = NoObject
        /\ ~queued' /\ ~delayed' /\ lag' = "event"
    BY <1>6 DEF Crash, ForgetLocals, At
  <2>2. WorkInv'
    BY <1>1, <2>1 DEF WorkInv, Exists, Deploying
  <2>3. Loop!Die
    BY <1>2, <2>1 DEF Loop!Die, LoopNobody, RequestOf
  <2>4. QED
    BY <2>2, <2>3 DEF Loop!Next
<1>7. CASE Restart
  <2>1. /\ pc = "down" /\ pc' = "idle" /\ cfnObj' = NoObject
        /\ queued' = Exists(obj) /\ ~delayed' /\ lag' # "event"
    BY <1>7 DEF Restart, ForgetLocals, At, WorkInv
  <2>2. WorkInv'
    BY <1>1, <2>1 DEF WorkInv, Exists, Deploying
  <2>3. Exists(obj) <=> RequestOf(obj) # LoopNobody
    BY <1>1, ObjectsAsk DEF WorkInv, LoopNobody
  <2>4. Loop!Revive
    BY <1>2, <2>1, <2>3 DEF Loop!Revive, LoopNobody, RequestOf
  <2>5. QED
    BY <2>2, <2>4 DEF Loop!Next
<1>8. QED
  BY <1>3, <1>4, <1>5, <1>6, <1>7

-----------------------------------------------------------------------------
(* The refinement.                                                           *)

LEMMA InitImplements == Init => WorkInv /\ Loop!Init
<1> SUFFICES ASSUME Init PROVE WorkInv /\ Loop!Init
  OBVIOUS
<1>1. PICK spec \in InitialSpecs :
        obj = [gen |-> 1, spec |-> spec, deleting |-> FALSE, finalizer |-> FALSE]
  BY DEF Init
<1>2. obj \in Objects /\ Exists(obj) /\ obj.finalizer = FALSE
  BY <1>1, ServiceConstants, ControllerConstants DEF Objects, Exists
<1>3. pc = "idle" /\ cfnObj = NoObject /\ lag = "event"
  BY DEF Init
<1>4. WorkInv
  BY <1>2, <1>3 DEF WorkInv, Deploying
<1>5. RequestOf(obj) \in LoopRequests /\ RequestOf(obj) # LoopNobody
  BY <1>2, ObjectsAsk
<1>6. Loop!Init
  <2>1. RequestOf(cfnObj) = LoopNobody /\ (queued \/ delayed \/ lag = "event") = TRUE
    BY <1>3 DEF LoopNobody
  <2>2. QED
    BY <1>2, <1>3, <1>5, <2>1, PhasesSeen DEF Loop!Init
<1>7. QED
  BY <1>4, <1>6

\* A step of the controller, its users or its surroundings is one of the loop's, or
\* none.
LEMMA StepImplements ==
  TypeInv /\ ControlInv /\ WorkInv /\ [Next]_vars => WorkInv' /\ [Loop!Next]_Loop!loopVars
<1> SUFFICES ASSUME TypeInv, ControlInv, WorkInv, [Next]_vars
             PROVE  WorkInv' /\ [Loop!Next]_Loop!loopVars
  OBVIOUS
<1>1. CASE StartReconcile
  BY <1>1, StartImplements DEF Loop!Next
<1>2. CASE AddFinalizer
  BY <1>2, AddFinalizerImplements DEF Loop!Next
<1>3. CASE ObserveGeneration
  BY <1>3, ObserveImplements
<1>4. CASE \/ ReconcileSource \/ DescribeStack \/ DescribeChangeSet \/ UploadTemplate
           \/ DeleteEmptyChangeSet \/ DeleteFailedChangeSet \/ DescribeStackForDelete
  BY <1>4, ReadsImplement
<1>5. CASE ContinueRollback \/ CleanupStack \/ CreateChangeSet \/ ExecuteChangeSet \/ DeleteStack
  BY <1>5, WritesImplement DEF Loop!Next
<1>6. CASE PatchStatus
  BY <1>6, PatchImplements DEF Loop!Next
<1>7. CASE RemoveFinalizer
  BY <1>7, RemoveImplements DEF Loop!Next
<1>8. CASE EditSpec \/ DeleteObject \/ CreateObject
  BY <1>8, UsersImplement DEF Loop!Next
<1>9. CASE RecoverPanic \/ TimerFires \/ CacheSync \/ SourceChanges \/ Crash \/ Restart
  BY <1>9, ProcessImplements
<1>10. CASE Aws
  BY <1>10, AwsImplements DEF Loop!Next
<1>11. CASE UNCHANGED vars
  <2>1. UNCHANGED <<obj, stack, pc, cfnObj, queued, delayed, lag>>
    BY <1>11 DEF vars
  <2>2. WorkInv'
    BY <2>1 DEF WorkInv, Exists, Deploying
  <2>3. UNCHANGED Loop!loopVars
    BY <2>1, UnseenSteps DEF Worker, Due, RequestOf
  <2>4. QED
    BY <2>2, <2>3
<1>12. QED
  BY <1>1, <1>2, <1>3, <1>4, <1>5, <1>6, <1>7, <1>8, <1>9, <1>10, <1>11
     DEF Next, Controller, ReconcileStep, Users

\* The reconciler implements the loop: in every instance, with any faults, users and
\* stacks, each of its steps is one the abstract loop may take.
THEOREM StackControllerImplementsLoop == Spec => ImplementsLoop
<1>1. Init => WorkInv /\ Loop!Init
  BY InitImplements
<1>2. Spec => []TypeInv
  BY TypeCorrectness, PTL DEF TypeInv
<1>3. Spec => []ControlInv
  BY ControlIsInvariant
<1>4. TypeInv /\ ControlInv /\ WorkInv /\ [Next]_vars => WorkInv' /\ [Loop!Next]_Loop!loopVars
  BY StepImplements
<1>5. QED
  BY <1>1, <1>2, <1>3, <1>4, PTL DEF Spec, ImplementsLoop, Loop!Spec

\* What is proved of every loop.
LoopProofs == INSTANCE ReconcileLoopProofs WITH
  Requests <- LoopRequests, Nobody <- LoopNobody, WishOf <- LoopWishOf,
  Shared <- "outOfBandDelete" \in FaultKinds,
  asked <- RequestOf(obj), guarded <- obj.finalizer,
  phase <- PhaseOf(stack.status),
  worker <- IF pc \in {"idle", "down"} THEN pc ELSE "busy",
  view <- RequestOf(cfnObj),
  due <- queued \/ delayed \/ lag = "event"

\* Whatever users write while a reconcile runs, fails or sleeps is looked at again: a
\* reconcile that holds another generation, spec or deletion than the object has, and
\* a sleeping controller of an object with work to do, has a request in the queue, a
\* timer or an event of the watch coming.
THEOREM RequestsAreHeard == Spec => []Loop!Attentive
<1>1. LoopProofs!LoopConstants
  <2>1. LoopNobody \notin LoopRequests
    BY DEF LoopNobody, LoopRequests, RequestOf, NoObject
  <2>2. LoopWishOf \in [LoopRequests -> LoopProofs!Wishes]
    BY DEF LoopWishOf, LoopProofs!Wishes, LoopRequests, Specs
  <2>3. QED
    BY <2>1, <2>2 DEF LoopProofs!LoopConstants
<1>2. LoopProofs!Spec => []LoopProofs!Attentive
  BY <1>1, LoopProofs!AlwaysAttentive
<1>3. Loop!Init => LoopProofs!Init
  BY DEF Loop!Init, LoopProofs!Init, Loop!Phases, LoopProofs!Phases
<1>4. [Loop!Next]_Loop!loopVars => [LoopProofs!Next]_LoopProofs!loopVars
  <2>1. Loop!Ask \/ Loop!Withdraw \/ Loop!Remind => LoopProofs!Next
    BY DEF LoopProofs!Next, Loop!Ask, LoopProofs!Ask, Loop!Withdraw,
           LoopProofs!Withdraw, Loop!Remind, LoopProofs!Remind, Loop!Leaving,
           LoopProofs!Leaving, Loop!Wish, LoopProofs!Wish
  <2>2. Loop!Look \/ Loop!Guard \/ Loop!Work => LoopProofs!Next
    BY DEF LoopProofs!Next, Loop!Look, LoopProofs!Look, Loop!LookAt, LoopProofs!LookAt,
           Loop!Guard, LoopProofs!Guard, Loop!Rest, LoopProofs!Rest, Loop!Work,
           LoopProofs!Work, Loop!Busy, LoopProofs!Busy, Loop!NeedsWork,
           LoopProofs!NeedsWork, Loop!Wish, LoopProofs!Wish
  <2>3. Loop!Finish \/ Loop!Release => LoopProofs!Next
    BY DEF LoopProofs!Next, Loop!Finish, LoopProofs!Finish, Loop!Release,
           LoopProofs!Release, Loop!Rest, LoopProofs!Rest, Loop!Busy, LoopProofs!Busy,
           Loop!NeedsWork, LoopProofs!NeedsWork, Loop!Wish, LoopProofs!Wish
  <2>4. Loop!Die \/ Loop!Revive \/ Loop!Settle => LoopProofs!Next
    BY DEF LoopProofs!Next, Loop!Die, LoopProofs!Die, Loop!Revive, LoopProofs!Revive,
           Loop!Settle, LoopProofs!Settle
  <2>5. QED
    BY <2>1, <2>2, <2>3, <2>4 DEF Loop!Next, Loop!loopVars, LoopProofs!loopVars
<1>5. LoopProofs!Attentive => Loop!Attentive
  BY DEF Loop!Attentive, LoopProofs!Attentive, Loop!NeedsWork, LoopProofs!NeedsWork,
         Loop!Wish, LoopProofs!Wish
<1>6. QED
  BY <1>2, <1>3, <1>4, <1>5, StackControllerImplementsLoop, PTL
     DEF ImplementsLoop, Loop!Spec, LoopProofs!Spec

==============================================================================
