--------------------------- MODULE StackController ---------------------------
(***************************************************************************)
(* The reconciler of one CloudFormationStack object                        *)
(* (internal/controllers/cloudformationstack_controller.go, util.go), the  *)
(* API server and informer cache it reads and writes through, the work     *)
(* queue that schedules it, its Flux source, its users, and the            *)
(* CloudFormation stack it manages.                                        *)
(*                                                                         *)
(* One reconcile is a sequence of steps, one for each call that leaves the *)
(* process, with pc naming the call to make next.  Anything the rest of    *)
(* the system does may happen between two of them.                         *)
(***************************************************************************)
EXTENDS StackObject

CONSTANTS Render,         \* what a spec's template deploys at a revision
          UserSpecs,      \* the specs users write
          InitialSpecs,   \* those the object may start with
          UserActions,    \* what users may do: "edit", "delete", "create"
          InitialSources, \* the revision the source starts at
          SourceMoves,    \* <<from, to>>: how the source's revision may move
          MaxEdits        \* bound: how many things users and sources do

ASSUME ControllerConstants ==
  /\ Templates # {}
  /\ Render \in [Templates \X Revisions -> Contents]
  /\ UserSpecs \subseteq Specs /\ InitialSpecs \subseteq UserSpecs
  /\ UserActions \subseteq {"edit", "delete", "create"}
  /\ InitialSources \subseteq Revisions \cup {NoRevision}
  /\ SourceMoves \subseteq (Revisions \cup {NoRevision}) \X (Revisions \cup {NoRevision})
  /\ MaxEdits \in Nat

VARIABLES
  obj, status,               \* the object and its status at the API server
  cachedObj, cachedStatus,   \* the copy the informer cache serves
  lag,                       \* how far that copy is behind
  source,                    \* the source's artifact revision, as cached
  queued,                    \* the object's key is in the work queue
  delayed,                   \* a delayed requeue of it is pending
  pc,                        \* the call the reconciler makes next
  cfnObj, cfnStatus,         \* the reconciler's in-memory cfnStack
  held,                      \* cfnStack is being deleted and its resourceVersion
                             \* is still the current one
  clientStack,               \* the types.Stack handed to the client
  result,                    \* how the reconcile asks to be requeued
  edits                      \* user and source actions so far

server == <<obj, status>>
cache == <<cachedObj, cachedStatus, lag>>
queue == <<queued, delayed>>
local == <<pc, cfnObj, cfnStatus, held, clientStack, result>>
world == <<source, edits>>
vars == <<stack, css, faults, obj, status, cachedObj, cachedStatus, lag, source, queued,
          delayed, pc, cfnObj, cfnStatus, held, clientStack, result, edits>>

\* Behind by nothing, by status or finalizer writes only, or by a change the
\* controller's event filter lets through (creation, deletion, generation).
Lags == {"fresh", "status", "event"}

\* The spec's intervals, the controller's dependency requeue interval and the
\* work queue's rate-limited backoff after an error.
Waits == {"poll", "interval", "retry", "dependency", "backoff"}

PCs == {"down", "idle", "addFinalizer", "observe", "source", "describeStack",
        "continueRollback", "panic", "cleanup", "describeChangeSet", "upload", "create",
        "deleteEmpty", "deleteFailed", "execute", "describeForDelete", "deleteStack",
        "removeFinalizer", "patchStatus"}

ClientStacks == [revision : Revisions \cup {NoRevision}, arn : Arns \cup {NoArn},
                 isCreate : BOOLEAN]

NoClientStack == [revision |-> NoRevision, arn |-> NoArn, isCreate |-> FALSE]

ServerTypeOK == obj \in Objects /\ status \in Statuses

CacheTypeOK == cachedObj \in Objects /\ cachedStatus \in Statuses /\ lag \in Lags

QueueTypeOK == queued \in BOOLEAN /\ delayed \in BOOLEAN

LocalTypeOK ==
  /\ pc \in PCs
  /\ cfnObj \in Objects /\ cfnStatus \in Statuses /\ held \in BOOLEAN
  /\ clientStack \in ClientStacks
  /\ result \in Waits

WorldTypeOK == source \in Revisions \cup {NoRevision} /\ edits \in 0..MaxEdits

\* Type correctness: every variable stays in the set its comment describes.  What
\* a reconcile stores in the object's status, and how long it waits, comes out of
\* the status functions, the change set's ARN and the spec's optional fields.
TypeOK ==
  /\ ServiceTypeOK /\ ServerTypeOK /\ CacheTypeOK
  /\ QueueTypeOK /\ LocalTypeOK /\ WorldTypeOK

Init ==
  /\ ServiceInit
  /\ \E spec \in InitialSpecs :
       obj = [gen |-> 1, spec |-> spec, deleting |-> FALSE, finalizer |-> FALSE]
  /\ status = EmptyStatus
  /\ cachedObj = NoObject /\ cachedStatus = EmptyStatus /\ lag = "event"
  /\ source \in InitialSources
  /\ queued = FALSE /\ delayed = FALSE
  /\ pc = "idle" /\ cfnObj = NoObject /\ cfnStatus = EmptyStatus /\ held = FALSE
  /\ clientStack = NoClientStack /\ result = "poll"
  /\ edits = 0

-----------------------------------------------------------------------------
(* Control flow of a reconcile.                                             *)

At(p) == pc = p

\* The reconcile returns: its locals are gone.
ForgetLocals ==
  /\ cfnObj' = NoObject /\ cfnStatus' = EmptyStatus /\ held' = FALSE
  /\ clientStack' = NoClientStack /\ result' = "poll"

\* A mutant: errors are not requeued.
ReturnAfterSuccess(wait) ==
  /\ pc' = "idle" /\ ForgetLocals
  /\ delayed' = (wait \in Waits \ {"backoff"})
  /\ UNCHANGED queued

ReturnAfter(wait) ==
  /\ pc' = "idle" /\ ForgetLocals
  /\ delayed' = (wait \in Waits)
  /\ UNCHANGED queued

\* controller-runtime requeues an error with backoff, whatever RequeueAfter
\* the result carries.
ReturnError == ReturnAfter("backoff")

\* Result{} and no error: nothing schedules another reconcile.
ReturnNothing == pc' = "idle" /\ ForgetLocals /\ UNCHANGED queue

\* A mutant: every deletion destroys the stack.
AfterFinalizerDestroys(o, s) ==
  CASE o.deleting -> "describeForDelete"
    [] ~o.deleting /\ o.spec.suspend -> "idle"
    [] ~o.deleting /\ ~o.spec.suspend ->
         IF s.observedGeneration # o.gen THEN "observe" ELSE "source"

\* The rest of Reconcile once cfnStack is loaded and has its finalizer.
AfterFinalizer(o, s) ==
  CASE o.deleting -> IF o.spec.suspend \/ ~o.spec.destroy
                       THEN "removeFinalizer" ELSE "describeForDelete"
    [] ~o.deleting /\ o.spec.suspend -> "idle"
    [] ~o.deleting /\ ~o.spec.suspend ->
         IF s.observedGeneration # o.gen THEN "observe" ELSE "source"

\* reconcile and reconcileDelete return cfnStack s; Reconcile patches it and
\* then returns the wait ("backoff" is an error).
Report(s, wait) ==
  /\ pc' = "patchStatus" /\ cfnStatus' = s /\ result' = wait
  /\ clientStack' = NoClientStack
  /\ UNCHANGED <<cfnObj, held>>

Goto(p) == pc' = p /\ UNCHANGED <<cfnObj, cfnStatus, held, clientStack, result>>

ApiCallFails ==
  Report(NotReady(cfnStatus, cfnObj.gen, clientStack.revision, NoArn), "backoff")

\* What a call to the CloudFormation client leaves alone.
Outside == UNCHANGED <<server, cache, queue, world>>

-----------------------------------------------------------------------------
(* The API server: writes reach the cache later.                            *)

Behind(kind) ==
  lag' = IF obj' = obj /\ status' = status THEN lag
         ELSE IF lag = "event" THEN "event" ELSE kind

CacheUnsynced(kind) == UNCHANGED <<cachedObj, cachedStatus>> /\ Behind(kind)

\* patchStatus: base the patch on the cached object, send it by name.  A
\* patch that changes nothing leaves the resourceVersion alone.
PatchAccepted == Exists(cachedObj) /\ Exists(obj)

PatchEffect(s) ==
  /\ status' \in Patched(status, cachedStatus, s)
  /\ UNCHANGED obj
  /\ CacheUnsynced("status")

PatchCall(s, ok, err) ==
  \/ PatchAccepted /\ PatchEffect(s) /\ ok /\ NoFault
  \/ ~PatchAccepted /\ UNCHANGED <<server, cache>> /\ err /\ NoFault
  \/ UNCHANGED <<server, cache>> /\ err /\ Fault("kube")
  \/ PatchAccepted /\ PatchEffect(s) /\ err /\ Fault("kubeReply")

-----------------------------------------------------------------------------
(* Reconcile: load the object, finalizer, deletion, suspension.             *)

StartReconcile ==
  /\ At("idle") /\ queued
  /\ queued' = FALSE
  /\ pc' = IF ~Exists(cachedObj) THEN "idle"
           ELSE IF ~cachedObj.finalizer THEN "addFinalizer"
           ELSE AfterFinalizer(cachedObj, cachedStatus)
  /\ IF pc' = "idle" THEN ForgetLocals
     ELSE /\ cfnObj' = cachedObj /\ cfnStatus' = cachedStatus /\ held' = (cachedObj.deleting /\ lag = "fresh")
          /\ UNCHANGED <<clientStack, result>>
  /\ UNCHANGED <<server, cache, delayed, service, world>> /\ NoFault

\* The response to the patch replaces cfnStack with the server's object.
AddFinalizer ==
  /\ At("addFinalizer")
  /\ \/ /\ Exists(obj) /\ NoFault
        /\ obj' = [obj EXCEPT !.finalizer = TRUE] /\ UNCHANGED status
        /\ CacheUnsynced("status")
        /\ pc' = AfterFinalizer(obj', status)
        /\ IF pc' = "idle" THEN ForgetLocals
           ELSE /\ cfnObj' = obj' /\ cfnStatus' = status /\ held' = obj'.deleting
                /\ UNCHANGED <<clientStack, result>>
        /\ UNCHANGED queue
     \/ ~Exists(obj) /\ NoFault /\ UNCHANGED <<server, cache>> /\ ReturnError
     \/ Fault("kube") /\ UNCHANGED <<server, cache>> /\ ReturnError
     \/ /\ Fault("kubeReply") /\ Exists(obj)
        /\ obj' = [obj EXCEPT !.finalizer = TRUE] /\ UNCHANGED status
        /\ CacheUnsynced("status") /\ ReturnError
  /\ UNCHANGED <<service, world>>

\* A new generation is recorded as Progressing before anything else is done.
ObserveGeneration ==
  /\ At("observe")
  /\ LET s == Progressing(cfnStatus, cfnObj.gen, NoRevision, NoArn)
     IN PatchCall(s, /\ pc' = "source" /\ cfnStatus' = s
                     /\ UNCHANGED <<cfnObj, held, clientStack, result>>,
                     Report(s, "backoff"))
  /\ UNCHANGED <<service, queue, world>>

\* No source under that name, or none with an artifact.
SourceMissing ==
  /\ source = NoRevision /\ NoFault
  /\ Report(NotReady(cfnStatus, cfnObj.gen, NoRevision, NoArn), RetryInterval(cfnObj.spec))

\* Reading the source fails, or downloading its artifact, verifying its digest or
\* reading the template from it does: the revision is known by then.
SourceFails ==
  \E revision \in {source, NoRevision} :
    /\ Fault("source")
    /\ Report(NotReady(cfnStatus, cfnObj.gen, revision, NoArn), "backoff")

\* A dependency is missing, not observed yet or not Ready.
DependencyNotReady ==
  /\ source # NoRevision /\ cfnObj.spec.dependsOn /\ Fault("dependency")
  /\ Report(NotReady(cfnStatus, cfnObj.gen, source, NoArn), "dependency")

\* The client's stack gets the change set of the last attempt, if that has the
\* name this attempt wants.
BuildClientStack ==
  /\ source # NoRevision /\ NoFault
  /\ pc' = "describeStack"
  /\ LET last == cfnStatus.lastAttemptedChangeSet
     IN clientStack' = [revision |-> source,
                        arn |-> IF HasName(last, GetChangeSetName(cfnObj.gen, source))
                                  THEN last ELSE NoArn,
                        isCreate |-> FALSE]
  /\ UNCHANGED <<cfnObj, cfnStatus, held, result>>

\* Resolve the source, check dependencies, load the template, build the client's
\* stack.
ReconcileSource ==
  /\ At("source")
  /\ SourceMissing \/ SourceFails \/ DependencyNotReady \/ BuildClientStack
  /\ UNCHANGED service /\ Outside

-----------------------------------------------------------------------------
(* reconcileStack.  The branch for an unexpected status is left out: no      *)
(* status leads there (theorem NoUnexpectedStackStatus).                     *)

DescribeStack ==
  /\ At("describeStack")
  /\ \/ Fault("api") /\ ApiCallFails
     \/ /\ NoFault
        /\ LET verdict == StackVerdict(stack.status)
           IN \/ /\ verdict \in {"create", "update"}
                 /\ pc' = "describeChangeSet"
                 /\ clientStack' = [clientStack EXCEPT !.isCreate = (verdict = "create")]
                 /\ UNCHANGED <<cfnObj, cfnStatus, held, result>>
              \/ /\ verdict = "wait"
                 /\ Report(Progressing(cfnStatus, cfnObj.gen, clientStack.revision, NoArn),
                           "poll")
              \/ verdict \in {"continueRollback", "cleanup"} /\ Goto(verdict)
  /\ UNCHANGED service /\ Outside

\* The wait is read from Spec.RetryInterval itself, which may be nil.
ContinueRollback ==
  /\ At("continueRollback")
  /\ Call(ContinueRollbackAccepted, ContinueRollbackCall,
          IF cfnObj.spec.retry
            THEN Report(NotReady(cfnStatus, cfnObj.gen, clientStack.revision, NoArn), "retry")
            ELSE Goto("panic"),
          ApiCallFails)
  /\ Outside

\* controller-runtime recovers the panic into an error; cfnStack is lost.
RecoverPanic ==
  /\ At("panic")
  /\ ReturnError
  /\ UNCHANGED <<server, cache, service, world>> /\ NoFault

CleanupStack ==
  /\ At("cleanup")
  /\ Call(TRUE, DeleteStackCall,
          Report(NotReady(cfnStatus, cfnObj.gen, clientStack.revision, NoArn), RetryInterval(cfnObj.spec)),
          ApiCallFails)
  /\ Outside

-----------------------------------------------------------------------------
(* reconcileChangeset.                                                       *)

DesiredName == GetChangeSetName(cfnObj.gen, clientStack.revision)

\* DescribeChangeSet leaves the ARN of the change set it found in clientStack.
DescribeChangeSet ==
  /\ At("describeChangeSet")
  /\ \/ Fault("api") /\ ApiCallFails
     \/ /\ NoFault
        /\ Described(clientStack.arn, DesiredName) = {}
        /\ Goto("upload")
     \/ /\ NoFault
        /\ \E arn \in Described(clientStack.arn, DesiredName) :
             LET verdict == ChangeSetVerdict(css[arn])
             IN \/ /\ verdict \in {"deleteEmpty", "deleteFailed", "execute"}
                   /\ pc' = verdict
                   /\ clientStack' = [clientStack EXCEPT !.arn = arn]
                   /\ UNCHANGED <<cfnObj, cfnStatus, held, result>>
                \/ /\ verdict = "wait"
                   /\ Report(Progressing(cfnStatus, cfnObj.gen, clientStack.revision, arn),
                             "poll")
                \/ /\ verdict = "ready"
                   /\ Report(Ready(cfnStatus, cfnObj.gen, arn), "interval")
  /\ UNCHANGED service /\ Outside

UploadTemplate ==
  /\ At("upload")
  /\ \/ NoFault /\ Goto("create")
     \/ Fault("api") /\ ApiCallFails
  /\ UNCHANGED service /\ Outside

\* The service gives a new change set an ARN that nobody knows.
Known ==
  {clientStack.arn, status.lastAttemptedChangeSet, cachedStatus.lastAttemptedChangeSet,
   cfnStatus.lastAttemptedChangeSet}

NewArns(name) == {a \in Arns : a.name = name} \ Known

CreateChangeSet ==
  /\ At("create")
  /\ \E arn \in NewArns(DesiredName) :
       LET content == Render[<<cfnObj.spec.template, clientStack.revision>>]
       IN Call(CreateAccepted(arn, clientStack.isCreate),
             CreateChangeSetCall(arn, content, clientStack.isCreate),
             Report(Progressing(cfnStatus, cfnObj.gen, clientStack.revision, arn), "poll"),
             ApiCallFails)
  /\ Outside

\* An empty change set means the stack is up to date.
DeleteEmptyChangeSet ==
  /\ At("deleteEmpty")
  /\ Call(TRUE, DeleteChangeSetCall(clientStack.arn),
          Report(Ready(cfnStatus, cfnObj.gen, clientStack.arn), "interval"),
          ApiCallFails)
  /\ Outside

\* A failed one is deleted, for the retry to create it again.
DeleteFailedChangeSet ==
  /\ At("deleteFailed")
  /\ LET s == NotReady(cfnStatus, cfnObj.gen, clientStack.revision, clientStack.arn)
     IN Call(TRUE, DeleteChangeSetCall(clientStack.arn),
             Report(s, RetryInterval(cfnObj.spec)), Report(s, "backoff"))
  /\ Outside

\* Starting the execution records neither the revision nor the ARN.
ExecuteChangeSet ==
  /\ At("execute")
  /\ Call(ExecuteAccepted(clientStack.arn), ExecuteChangeSetCall(clientStack.arn),
          Report(Progressing(cfnStatus, cfnObj.gen, NoRevision, NoArn), "poll"),
          Report(NotReady(cfnStatus, cfnObj.gen, clientStack.revision, clientStack.arn), "backoff"))
  /\ Outside

-----------------------------------------------------------------------------
(* reconcileDelete.  Its updates name no revision and no ARN: clientStack    *)
(* stays empty on this path.                                                 *)

DescribeStackForDelete ==
  /\ At("describeForDelete")
  /\ \/ Fault("api") /\ ApiCallFails
     \/ /\ NoFault
        /\ LET verdict == DeletionVerdict(stack.status)
           IN \/ verdict = "gone" /\ Goto("removeFinalizer")
              \/ /\ verdict = "wait"
                 /\ Report(Progressing(cfnStatus, cfnObj.gen, NoRevision, NoArn), "poll")
              \/ verdict = "delete" /\ Goto("deleteStack")
  /\ UNCHANGED service /\ Outside

DeleteStack ==
  /\ At("deleteStack")
  /\ Call(TRUE, DeleteStackCall,
          Report(Progressing(cfnStatus, cfnObj.gen, NoRevision, NoArn), "poll"),
          ApiCallFails)
  /\ Outside

\* A mutant: a patch, which no newer version of the object refuses.
RemoveFinalizerByPatch ==
  /\ At("removeFinalizer")
  /\ Exists(obj) /\ obj.deleting /\ NoFault
  /\ obj' = NoObject /\ status' = EmptyStatus /\ CacheUnsynced("event")
  /\ ReturnNothing
  /\ UNCHANGED <<service, world>>

\* An Update of the whole object, refused unless cfnStack is still current.
\* Without its finalizer an object being deleted is gone.
RemoveFinalizer ==
  /\ At("removeFinalizer")
  /\ \/ /\ held /\ NoFault
        /\ obj' = NoObject /\ status' = EmptyStatus /\ CacheUnsynced("event")
        /\ ReturnNothing
     \/ ~held /\ NoFault /\ UNCHANGED <<server, cache>> /\ ReturnError
     \/ Fault("kube") /\ UNCHANGED <<server, cache>> /\ ReturnError
     \/ /\ Fault("kubeReply") /\ held
        /\ obj' = NoObject /\ status' = EmptyStatus /\ CacheUnsynced("event")
        /\ ReturnError
  /\ UNCHANGED <<service, world>>

\* The end of Reconcile: write the status, then ask for the requeue.
PatchStatus ==
  /\ At("patchStatus")
  /\ PatchCall(cfnStatus, ReturnAfter(result), ReturnError)
  /\ UNCHANGED <<service, world>>

-----------------------------------------------------------------------------
(* The queue and the informer.                                               *)

\* A key that comes due while its reconcile runs is queued when it returns.
TimerFires ==
  /\ At("idle") /\ delayed
  /\ delayed' = FALSE /\ queued' = TRUE
  /\ UNCHANGED <<server, cache, local, service, world>> /\ NoFault

\* A mutant: the filter drops deletions.
CacheSyncWithoutDeletions ==
  /\ ~At("down") /\ lag # "fresh"
  /\ cachedObj' = obj /\ cachedStatus' = status /\ lag' = "fresh"
  /\ queued' = (queued \/ (lag = "event" /\ ~obj.deleting))
  /\ UNCHANGED <<server, delayed, local, service, world>> /\ NoFault

\* The cache catches up; the filter passes creations, deletions and new
\* generations on to the queue, and drops writes to the status.
CacheSync ==
  /\ ~At("down") /\ lag # "fresh"
  /\ cachedObj' = obj /\ cachedStatus' = status /\ lag' = "fresh"
  /\ queued' = (queued \/ lag = "event")
  /\ UNCHANGED <<server, delayed, local, service, world>> /\ NoFault

-----------------------------------------------------------------------------
(* Users, the source, crashes.                                               *)

Edit == edits < MaxEdits /\ edits' = edits + 1

\* A write to the object: the resourceVersion moves on under a reconcile that
\* holds an older one.
Overtaken ==
  /\ held' = FALSE
  /\ UNCHANGED <<pc, cfnObj, cfnStatus, clientStack, result>>

EditSpec ==
  /\ "edit" \in UserActions /\ Exists(obj) /\ obj.gen < MaxGeneration /\ Edit
  /\ \E spec \in UserSpecs \ {obj.spec} :
       obj' = [obj EXCEPT !.spec = spec, !.gen = @ + 1]
  /\ UNCHANGED status /\ CacheUnsynced("event")
  /\ Overtaken /\ UNCHANGED <<queue, service, source>> /\ NoFault

\* Deletion waits for the finalizer, when there is one.
DeleteObject ==
  /\ "delete" \in UserActions /\ Exists(obj) /\ ~obj.deleting
  /\ obj.gen < MaxGeneration /\ Edit
  /\ IF obj.finalizer
       THEN /\ obj' = [obj EXCEPT !.deleting = TRUE, !.gen = @ + 1]
            /\ UNCHANGED status
       ELSE obj' = NoObject /\ status' = EmptyStatus
  /\ CacheUnsynced("event")
  /\ Overtaken /\ UNCHANGED <<queue, service, source>> /\ NoFault

CreateObject ==
  /\ "create" \in UserActions /\ ~Exists(obj) /\ Edit
  /\ \E spec \in UserSpecs :
       obj' = [gen |-> 1, spec |-> spec, deleting |-> FALSE, finalizer |-> FALSE]
  /\ status' = EmptyStatus /\ CacheUnsynced("event")
  /\ UNCHANGED <<queue, local, service, source>> /\ NoFault

\* requestsForRevisionChangeOf, behind SourceRevisionChangePredicate: no
\* request for a source without artifact, nor for an object whose cached
\* status already names the revision as attempted.
RevisionRequested(revision) ==
  /\ revision # NoRevision
  /\ Exists(cachedObj) /\ cachedStatus.lastAttemptedRevision # revision

\* NoRevision is a source without artifact, or none: one that is created with its
\* artifact passes no predicate.
SourceChanges ==
  /\ Edit
  /\ \E revision \in Revisions \cup {NoRevision}, created \in BOOLEAN :
       /\ <<source, revision>> \in SourceMoves
       /\ created => source = NoRevision
       /\ source' = revision
       /\ queued' = (queued \/ (~At("down") /\ ~created /\ RevisionRequested(revision)))
  /\ UNCHANGED <<server, cache, delayed, local, service>> /\ NoFault

\* The process dies between any two calls; queue, timers and cache go with it.
Crash ==
  /\ ~At("down") /\ Fault("crash")
  /\ pc' = "down" /\ ForgetLocals
  /\ queued' = FALSE /\ delayed' = FALSE
  /\ cachedObj' = NoObject /\ cachedStatus' = EmptyStatus /\ lag' = "event"
  /\ UNCHANGED <<server, service, world>>

\* A new process lists every object and reconciles each.
Restart ==
  /\ At("down")
  /\ pc' = "idle" /\ ForgetLocals
  /\ cachedObj' = obj /\ cachedStatus' = status /\ lag' = "fresh"
  /\ queued' = Exists(obj) /\ UNCHANGED delayed
  /\ UNCHANGED <<server, service, world>> /\ NoFault

-----------------------------------------------------------------------------
ReconcileStep ==
  \/ AddFinalizer \/ ObserveGeneration \/ ReconcileSource
  \/ DescribeStack \/ ContinueRollback \/ RecoverPanic \/ CleanupStack
  \/ DescribeChangeSet \/ UploadTemplate \/ CreateChangeSet
  \/ DeleteEmptyChangeSet \/ DeleteFailedChangeSet \/ ExecuteChangeSet
  \/ DescribeStackForDelete \/ DeleteStack \/ RemoveFinalizer
  \/ PatchStatus

Controller == StartReconcile \/ ReconcileStep \/ TimerFires \/ CacheSync \/ Restart

Users == EditSpec \/ DeleteObject \/ CreateObject \/ SourceChanges

AwsStep(action) == action /\ UNCHANGED <<server, cache, queue, local, world>>

Aws ==
  \/ AwsStep(ChangeSetCreated) \/ AwsStep(ChangeSetCreationFails)
  \/ AwsStep(ChangeSetDeleted) \/ AwsStep(ChangeSetDeletionFails)
  \/ AwsStep(StackActionSucceeds) \/ AwsStep(StackActionFails)
  \/ AwsStep(OutOfBandUpdate) \/ AwsStep(OutOfBandDelete)

Next == Controller \/ Users \/ Aws \/ Crash

Spec == Init /\ [][Next]_vars

\* The worker pool takes what is queued and every call returns, delayed
\* requeues come due, the informer's watch delivers, a pod that died is
\* started again, and CloudFormation finishes what it has begun.  Nothing is
\* assumed of users, of the source, or of faults.
Fairness ==
  /\ WF_vars(StartReconcile) /\ WF_vars(ReconcileStep)
  /\ WF_vars(TimerFires) /\ WF_vars(CacheSync) /\ WF_vars(Restart)
  /\ WF_vars(AwsStep(ChangeSetCreated)) /\ WF_vars(AwsStep(ChangeSetDeleted))
  /\ WF_vars(AwsStep(StackActionSucceeds))

FairSpec == Spec /\ Fairness

-----------------------------------------------------------------------------
(* Safety.                                                                   *)

\* The object asks for work: it is being deleted, or it is not suspended.
Managed(o) == Exists(o) /\ (o.deleting \/ ~o.spec.suspend)

\* An object that asks for work is never forgotten: while no reconcile runs,
\* its key is queued, a delayed requeue is pending, or the informer has yet to
\* deliver a change that queues it.  The code has no other way back to an
\* object: every return of Reconcile that schedules nothing must be right to.
NoLostWakeup ==
  At("idle") /\ Managed(obj) => queued \/ delayed \/ lag = "event"

\* What the controller acts on in an object.
SameRequest(o, p) == o.gen = p.gen /\ o.spec = p.spec /\ o.deleting = p.deleting

\* The cache is what its lag says.
CacheIsCurrent ==
  ~At("down") => /\ lag # "event" => SameRequest(cachedObj, obj)
                 /\ lag = "fresh" => cachedObj = obj

\* A reconcile that works for an object as it no longer is always has a successor:
\* the change it missed has queued the key again, or is still to be delivered.
ReconcileIsCurrent ==
  pc \notin {"idle", "down"} => SameRequest(cfnObj, obj) \/ queued \/ lag = "event"

\* A resourceVersion that is still current is that of the object as it is.
HeldIsCurrent == held => cfnObj = obj /\ obj.deleting /\ Exists(obj)

\* What has been decided about the stack stays true until it is acted on, although
\* the stack may move on in between.
DecisionsHold ==
  /\ pc \in {"describeForDelete", "deleteStack"} =>
       cfnObj.deleting /\ cfnObj.spec.destroy /\ ~cfnObj.spec.suspend
  /\ pc = "removeFinalizer" =>
       cfnObj.spec.suspend \/ ~cfnObj.spec.destroy \/ StackNotFound(stack.status)
  /\ pc = "cleanup" =>
       RequiresCleanup(stack.status)
         \/ stack.status \in {"DELETE_IN_PROGRESS", "DELETE_COMPLETE"}

\* Together they are inductive, and imply the properties about deletion below.
ControlInv ==
  NoLostWakeup /\ CacheIsCurrent /\ ReconcileIsCurrent /\ HeldIsCurrent /\ DecisionsHold

\* When a reconcile decides that it succeeded, whether a change set was found
\* executed or found empty, the stack does hold what the spec it read renders
\* to at the revision it read.
ReadyMeansDeployed ==
  [][ (At("describeChangeSet") \/ At("deleteEmpty")) /\ cfnStatus'.ready = "True"
        /\ pc' = "patchStatus"
      => stack'.content = Render[<<cfnObj.spec.template, clientStack.revision>>] ]_vars

\* A Ready condition for the object's own generation can be relied on, although
\* the status is put together from patches computed from older copies: the stack
\* holds what this generation of the spec renders to, at some revision.
ReadyIsForGeneration ==
  Exists(obj) /\ status.ready = "True" /\ status.readyGeneration = obj.gen
    => \E r \in Revisions : stack.content = Render[<<obj.spec.template, r>>]

\* What the controller starts to deploy is what the spec and the revision it read
\* render to: a change set's name, which holds the generation and the revision,
\* says what is in the change set.
ExecutesWhatItRead ==
  [][ At("execute") /\ stack' # stack
        /\ stack'.status \in {"CREATE_IN_PROGRESS", "UPDATE_IN_PROGRESS"}
      => css[clientStack.arn].content
           = Render[<<cfnObj.spec.template, clientStack.revision>>] ]_vars

\* When a reconcile decides that it succeeded, the revision it records as applied
\* is the one it read from the source and found deployed.
AppliedRevisionIsDeployed ==
  [][ (At("describeChangeSet") \/ At("deleteEmpty")) /\ cfnStatus'.ready = "True"
        /\ pc' = "patchStatus"
      => cfnStatus'.lastAppliedRevision = clientStack.revision ]_vars

\* No reconcile panics, whichever optional fields the spec leaves out.
NeverPanics == ~At("panic")

\* The finalizer does its job: an object that asks for its stack to be destroyed
\* goes away under the controller's finalizer only once there is no stack left, or
\* one nothing was ever deployed to (REVIEW_IN_PROGRESS counts as absent), even if
\* a user changed the spec while the deletion ran.
FinalizerGuardsStack ==
  [][ Exists(obj) /\ ~Exists(obj') /\ obj.finalizer
        /\ obj.spec.destroy /\ ~obj.spec.suspend
      => StackNotFound(stack.status) /\ stack.content = NoContent ]_vars

\* The controller starts the deletion of a stack only when no update can revive
\* the stack, or when the object it read is on its way out and asks for the stack
\* to be destroyed.  The reconcile may hold an old copy of it, by now replaced by
\* another object: then the reconcile that will see the new one is due.
DeletesOnlyWithCause ==
  [][ ReconcileStep /\ stack'.status = "DELETE_IN_PROGRESS"
        /\ stack.status # "DELETE_IN_PROGRESS"
      => \/ RequiresCleanup(stack.status)
         \/ /\ cfnObj.deleting /\ cfnObj.spec.destroy /\ ~cfnObj.spec.suspend
            /\ obj.deleting \/ queued \/ lag = "event" ]_vars

-----------------------------------------------------------------------------
(* Liveness.                                                                 *)

\* There is something to deploy and nothing tells the controller not to.
Deployable ==
  Exists(obj) /\ ~obj.deleting /\ ~obj.spec.suspend /\ source # NoRevision

InSync == stack.content = Render[<<obj.spec.template, source>>]

\* Once users and source stop changing things, the stack ends up with what the
\* last spec renders to at the last revision, and stays there.
Converges == <>[](Deployable => InSync)

\* And the object says so, again and again (it shows Progressing in between
\* while an empty change set is created and found empty).
ReportsReady ==
  []<>(Deployable => status.ready = "True" /\ status.observedGeneration = obj.gen)

\* A deleted object goes away.
DeletionCompletes == (Exists(obj) /\ obj.deleting) ~> ~(Exists(obj) /\ obj.deleting)

==============================================================================
