------------------------------ MODULE CfnStatus ------------------------------
(***************************************************************************)
(* The status vocabularies of CloudFormation and the predicates the        *)
(* controller classifies them with (internal/clients/types).  A reconcile  *)
(* never looks at a status itself, only at these predicates, in a fixed    *)
(* order; the order is StackVerdict, DeletionVerdict and ChangeSetVerdict. *)
(***************************************************************************)

-----------------------------------------------------------------------------
(* Stacks: internal/clients/types/stack.go *)

SuccessfulDeploymentStackStatuses ==
  {"CREATE_COMPLETE", "UPDATE_COMPLETE", "IMPORT_COMPLETE"}

InProgressStackStatuses ==
  {"CREATE_IN_PROGRESS", "DELETE_IN_PROGRESS", "ROLLBACK_IN_PROGRESS",
   "UPDATE_COMPLETE_CLEANUP_IN_PROGRESS", "UPDATE_IN_PROGRESS",
   "UPDATE_ROLLBACK_COMPLETE_CLEANUP_IN_PROGRESS",
   "UPDATE_ROLLBACK_IN_PROGRESS", "IMPORT_IN_PROGRESS",
   "IMPORT_ROLLBACK_IN_PROGRESS"}

UnrecoverableFailureStackStatuses ==
  {"CREATE_FAILED", "DELETE_FAILED", "ROLLBACK_COMPLETE", "ROLLBACK_FAILED"}

RecoverableFailureStackStatuses ==
  {"UPDATE_FAILED", "UPDATE_ROLLBACK_COMPLETE", "IMPORT_ROLLBACK_COMPLETE",
   "IMPORT_ROLLBACK_FAILED"}

\* Every status the service can report (the SDK's enumeration).  The last
\* three are in none of the lists above.
StackStatuses ==
  SuccessfulDeploymentStackStatuses \cup InProgressStackStatuses
    \cup UnrecoverableFailureStackStatuses \cup RecoverableFailureStackStatuses
    \cup {"UPDATE_ROLLBACK_FAILED", "REVIEW_IN_PROGRESS", "DELETE_COMPLETE"}

StackInProgress(st) == st \in InProgressStackStatuses
RequiresCleanup(st) == st \in UnrecoverableFailureStackStatuses
RequiresRollbackContinuation(st) == st = "UPDATE_ROLLBACK_FAILED"
StackIsSuccess(st) == st \in SuccessfulDeploymentStackStatuses
IsRecoverableFailure(st) == st \in RecoverableFailureStackStatuses
ReadyForCleanup(st) == ~StackInProgress(st)

\* A mutant: a deleted stack is described as if it were there.
StackNotFoundOnlyInReview(st) == st = "REVIEW_IN_PROGRESS"

\* DescribeStack turns these two into ErrStackNotFound: a stack that has only
\* a creation change set, and one that was deleted.  A stack that was never
\* created is DELETE_COMPLETE here: the client cannot tell the two apart.
StackNotFound(st) == st \in {"REVIEW_IN_PROGRESS", "DELETE_COMPLETE"}

\* A mutant: stacks that an update could still repair are deleted too.
StackVerdictCleansUpAll(st) ==
  IF StackNotFound(st) THEN "create"
  ELSE IF StackInProgress(st) THEN "wait"
  ELSE IF RequiresRollbackContinuation(st) THEN "continueRollback"
  ELSE IF RequiresCleanup(st) \/ IsRecoverableFailure(st) THEN "cleanup"
  ELSE IF StackIsSuccess(st) THEN "update"
  ELSE "unexpected"

\* The branch reconcileStack takes on what DescribeStack reported.
StackVerdict(st) ==
  IF StackNotFound(st) THEN "create"
  ELSE IF StackInProgress(st) THEN "wait"
  ELSE IF RequiresRollbackContinuation(st) THEN "continueRollback"
  ELSE IF RequiresCleanup(st) THEN "cleanup"
  ELSE IF StackIsSuccess(st) \/ IsRecoverableFailure(st) THEN "update"
  ELSE "unexpected"

\* A mutant: a stack that is being deleted counts as deleted.
DeletionVerdictInProgress(st) ==
  IF StackNotFound(st) \/ st = "DELETE_IN_PROGRESS" THEN "gone"
  ELSE IF StackInProgress(st) THEN "wait"
  ELSE IF ReadyForCleanup(st) THEN "delete"
  ELSE "unexpected"

\* The branch reconcileDelete takes.
DeletionVerdict(st) ==
  IF StackNotFound(st) THEN "gone"
  ELSE IF StackInProgress(st) THEN "wait"
  ELSE IF ReadyForCleanup(st) THEN "delete"
  ELSE "unexpected"

-----------------------------------------------------------------------------
(* Change sets: internal/clients/types/changeset.go.  A description is a    *)
(* record with fields status, execution and reason.                         *)

InProgressChangeSetStatuses ==
  {"CREATE_IN_PROGRESS", "CREATE_PENDING", "DELETE_IN_PROGRESS", "DELETE_PENDING"}

FailedChangeSetStatuses == {"DELETE_FAILED", "FAILED"}

InProgressChangeSetExecutionStatuses == {"EXECUTE_IN_PROGRESS", "UNAVAILABLE"}

FailedChangeSetExecutionStatuses == {"EXECUTE_FAILED", "OBSOLETE"}

ChangeSetStatuses ==
  InProgressChangeSetStatuses \cup FailedChangeSetStatuses
    \cup {"CREATE_COMPLETE", "DELETE_COMPLETE"}

ExecutionStatuses ==
  InProgressChangeSetExecutionStatuses \cup FailedChangeSetExecutionStatuses
    \cup {"AVAILABLE", "EXECUTE_COMPLETE"}

\* What the status reason says.  "noChanges" stands for the wording "...didn't
\* contain changes...", "noUpdates" for the service's other wording of the
\* same outcome, "No updates are to be performed.".
StatusReasons == {"none", "noChanges", "noUpdates", "other"}

\* The code looks for the first wording; for the second it compares with the
\* text NO_UPDATES_REASON, which the service never sends.
IsEmpty(d) == d.reason = "noChanges"
IsDeleted(d) == d.status = "DELETE_COMPLETE"
IsCreated(d) == d.status = "CREATE_COMPLETE"

\* A mutant: whatever is not available yet, or no longer, is in progress.
ChangeSetInProgressOrDone(d) ==
  d.status \in InProgressChangeSetStatuses \/ d.execution # "AVAILABLE"

ChangeSetInProgress(d) ==
  \/ d.status \in InProgressChangeSetStatuses
  \/ d.execution \in InProgressChangeSetExecutionStatuses
IsFailed(d) ==
  \/ d.status \in FailedChangeSetStatuses
  \/ d.execution \in FailedChangeSetExecutionStatuses

\* A mutant: a change set is success as soon as it is there.
IsSuccessOnceCreated(d) == IsCreated(d)

IsSuccess(d) == IsCreated(d) /\ d.execution = "EXECUTE_COMPLETE"
ReadyForExecution(d) == IsCreated(d) /\ d.execution = "AVAILABLE"

\* The branch reconcileChangeset takes on what DescribeChangeSet returned,
\* the client's two error verdicts (not found, empty) first.
ChangeSetVerdict(d) ==
  IF IsDeleted(d) THEN "create"
  ELSE IF IsEmpty(d) THEN "deleteEmpty"
  ELSE IF IsFailed(d) THEN "deleteFailed"
  ELSE IF ChangeSetInProgress(d) THEN "wait"
  ELSE IF IsSuccess(d) THEN "ready"
  ELSE IF ReadyForExecution(d) THEN "execute"
  ELSE "unexpected"

==============================================================================
