--------------------------- MODULE StackRefinement ---------------------------
(***************************************************************************)
(* The refinement mapping from StackController to ReconcileLoop.           *)
(***************************************************************************)
EXTENDS StackController

\* Nobody, like the requests, is about the object's generation, spec and deletion.
LoopRequests == [gen : 1..MaxGeneration, spec : Specs, deleting : BOOLEAN]

RequestOf(o) == [gen |-> o.gen, spec |-> o.spec, deleting |-> o.deleting]

LoopNobody == RequestOf(NoObject)

LoopWishOf ==
  [r \in LoopRequests |->
     CASE r.deleting /\ (r.spec.suspend \/ ~r.spec.destroy) -> "release"
       [] r.deleting /\ ~r.spec.suspend /\ r.spec.destroy -> "destroy"
       [] ~r.deleting /\ r.spec.suspend -> "pause"
       [] ~r.deleting /\ ~r.spec.suspend -> "deploy"]

PhaseOf(st) ==
  CASE StackNotFound(st) -> "absent"
    [] st = "DELETE_IN_PROGRESS" -> "deleting"
    [] StackInProgress(st) /\ st # "DELETE_IN_PROGRESS" -> "changing"
    [] RequiresCleanup(st) -> "broken"
    [] OTHER -> "present"

Loop == INSTANCE ReconcileLoop WITH
  Requests <- LoopRequests, Nobody <- LoopNobody, WishOf <- LoopWishOf,
  Shared <- "outOfBandDelete" \in FaultKinds,
  asked <- RequestOf(obj), guarded <- obj.finalizer,
  phase <- PhaseOf(stack.status),
  worker <- IF pc \in {"idle", "down"} THEN pc ELSE "busy",
  view <- RequestOf(cfnObj),
  due <- queued \/ delayed \/ lag = "event"

\* The calls that are made to deploy.
Deploying == {"observe", "source", "describeStack", "continueRollback", "panic", "cleanup",
              "describeChangeSet", "upload", "create", "deleteEmpty", "deleteFailed", "execute"}

\* Why a step of the reconcile is one the loop may take: who deploys works for an
\* object that wants it, who deletes has found something to delete, and without a
\* process nothing is scheduled but the start of one.
WorkInv ==
  /\ pc \in Deploying => ~cfnObj.deleting /\ ~cfnObj.spec.suspend
  /\ pc \notin {"idle", "down"} => Exists(cfnObj)
  /\ pc \in {"idle", "down"} => cfnObj = NoObject
  /\ pc = "deleteStack" =>
       PhaseOf(stack.status) \in {"present", "broken", "deleting"}
         \/ stack.status = "DELETE_COMPLETE"
  /\ ~Exists(obj) => obj = NoObject
  /\ pc = "down" => ~queued /\ ~delayed /\ lag = "event"

\* StackController implements ReconcileLoop: whatever fails in between, seen from
\* outside it is a loop that works on the stack only as it was asked to, lets the
\* object go only when it may, and never rests while there is work.
ImplementsLoop == Loop!Spec

\* Again and again a reconcile works for the object as it is, unless it is paused:
\* neither faults nor writes it overlaps with stop that.
LooksAgain == Loop!LooksAgain

==============================================================================
