---------------------------- MODULE CloudFormation ----------------------------
(***************************************************************************)
(* One CloudFormation stack and its change sets: the service, modelled     *)
(* from what internal/clients/cloudformation asks of it and answers to it, *)
(* and the calls of that client.  The service runs change set creation and *)
(* stack actions on its own; the controller only observes their outcome.   *)
(*                                                                         *)
(* Contents stands for what a stack deploys: template, parameters and tags *)
(* together.                                                               *)
(***************************************************************************)
EXTENDS Naturals, FiniteSets, CfnStatus

CONSTANTS Revisions,      \* source revisions
          NoRevision,     \* the empty revision string
          MaxGeneration,  \* bound: generations an object goes through
          Ids,            \* bound: the unique part of a change set's ARN
          NoArn,          \* the empty ARN string
          Contents,       \* what a stack can deploy
          NoContent,      \* a stack nothing was ever deployed to
          InitialStacks,  \* the stacks the system may start with
          EmptyReasons,   \* the service's wordings for "nothing to change"
          FaultKinds,     \* which faults may happen
          MaxFaults       \* bound: how many of them

ChangeSetNames == [generation : 1..MaxGeneration, revision : Revisions]

\* arn:aws:cloudformation:...:changeSet/<name>/<uuid>
Arns == [name : ChangeSetNames, id : Ids]

Descriptions == [content : Contents \cup {NoContent}, status : ChangeSetStatuses,
                 execution : ExecutionStatuses, reason : StatusReasons]

Stacks == [status : StackStatuses, content : Contents \cup {NoContent}]

ASSUME ServiceConstants ==
  /\ MaxGeneration \in Nat \ {0}
  /\ MaxFaults \in Nat
  /\ NoArn \notin Arns
  /\ NoRevision \notin Revisions
  /\ NoContent \notin Contents
  /\ InitialStacks \subseteq Stacks
  /\ EmptyReasons \subseteq {"noChanges", "noUpdates"}
  /\ EmptyReasons # {}

\* Where there is no stack, nothing is deployed.
ASSUME AbsentStacks ==
  \A s \in InitialStacks : StackNotFound(s.status) => s.content = NoContent

VARIABLES stack,   \* the stack under the object's stackName
          css,     \* each ARN's change set, Deleted where there is none
          faults   \* faults so far

service == <<stack, css>>

\* A deleted change set keeps nothing but its ARN.  An ARN never used yet
\* looks the same: the client answers ErrChangeSetNotFound to both.
Deleted == [content |-> NoContent, status |-> "DELETE_COMPLETE",
            execution |-> "UNAVAILABLE", reason |-> "none"]

Live(a) == css[a].status # "DELETE_COMPLETE"

Fault(kind) ==
  /\ kind \in FaultKinds
  /\ faults < MaxFaults
  /\ faults' = faults + 1

NoFault == UNCHANGED faults

ServiceTypeOK ==
  /\ stack \in Stacks
  /\ css \in [Arns -> Descriptions]
  /\ faults \in 0..MaxFaults

ServiceInit ==
  /\ stack \in InitialStacks
  /\ css = [a \in Arns |-> Deleted]
  /\ faults = 0

-----------------------------------------------------------------------------
(* The client's names and calls.  A call is described by what the service   *)
(* accepts and by its effect.                                               *)

\* Two mutants: names that leave out the generation, or the revision.
NameWithoutGeneration(generation, revision) == [generation |-> 1, revision |-> revision]

NameWithoutRevision(generation, revision) ==
  [generation |-> generation, revision |-> CHOOSE r \in Revisions : TRUE]

GetChangeSetName(generation, revision) ==
  [generation |-> generation, revision |-> revision]

\* A mutant: the last ARN is taken to be the wanted one.
HasAnyName(arn, name) == arn # NoArn

\* ExtractChangeSetName(arn) = name; the empty ARN yields the empty name.
HasName(arn, name) == arn # NoArn /\ arn.name = name

\* The change sets DescribeChangeSet finds: the one with that ARN when the
\* caller knows one, and otherwise whichever now carries the name.
Described(arn, name) ==
  {a \in Arns : Live(a) /\ IF arn # NoArn THEN a = arn ELSE a.name = name}

\* A call's four outcomes.  A rejected call and a failed one return an error
\* and change nothing; a call whose reply is lost returns an error too, but
\* has taken effect.
Call(accepted, effect, ok, err) ==
  \/ accepted /\ effect /\ ok /\ NoFault
  \/ ~accepted /\ UNCHANGED service /\ err /\ NoFault
  \/ UNCHANGED service /\ err /\ Fault("api")
  \/ accepted /\ effect /\ err /\ Fault("reply")

Updatable == StackIsSuccess(stack.status) \/ IsRecoverableFailure(stack.status)

CreateAccepted(arn, isCreate) ==
  /\ \A a \in Arns : Live(a) => a.name # arn.name
  /\ IF isCreate THEN StackNotFound(stack.status) ELSE Updatable

\* CreateStack and UpdateStack: CreateChangeSet of type CREATE or UPDATE.
CreateChangeSetCall(arn, content, isCreate) ==
  /\ css' = [css EXCEPT ![arn] = [content |-> content, status |-> "CREATE_IN_PROGRESS",
                                  execution |-> "UNAVAILABLE", reason |-> "none"]]
  /\ stack' = IF isCreate THEN [stack EXCEPT !.status = "REVIEW_IN_PROGRESS"] ELSE stack

ExecuteAccepted(arn) ==
  /\ ReadyForExecution(css[arn])
  /\ stack.status = "REVIEW_IN_PROGRESS" \/ Updatable

\* Executing a change set deletes the stack's other change sets.
ExecuteChangeSetCall(arn) ==
  /\ css' = [a \in Arns |-> IF a = arn THEN [css[a] EXCEPT !.execution = "EXECUTE_IN_PROGRESS"]
                                       ELSE Deleted]
  /\ stack' = [stack EXCEPT !.status = IF @ = "REVIEW_IN_PROGRESS"
                                         THEN "CREATE_IN_PROGRESS" ELSE "UPDATE_IN_PROGRESS"]

\* Deleting a change set that is gone is not an error.
DeleteChangeSetCall(arn) ==
  /\ css' = [css EXCEPT ![arn].status = IF Live(arn) THEN "DELETE_IN_PROGRESS" ELSE @]
  /\ UNCHANGED stack

\* Neither is deleting a stack that is gone.
DeleteStackCall ==
  /\ stack' = [stack EXCEPT !.status = IF @ = "DELETE_COMPLETE" THEN @
                                         ELSE "DELETE_IN_PROGRESS"]
  /\ UNCHANGED css

ContinueRollbackAccepted == RequiresRollbackContinuation(stack.status)

ContinueRollbackCall ==
  /\ stack' = [stack EXCEPT !.status = "UPDATE_ROLLBACK_IN_PROGRESS"]
  /\ UNCHANGED css

-----------------------------------------------------------------------------
(* What the service does on its own.                                        *)

\* A change set's creation ends; with nothing to change, it ends as FAILED.
ChangeSetCreated ==
  /\ \E a \in Arns :
       /\ css[a].status = "CREATE_IN_PROGRESS"
       /\ IF css[a].content = stack.content
            THEN \E reason \in EmptyReasons :
                   css' = [css EXCEPT ![a].status = "FAILED", ![a].reason = reason]
            ELSE css' = [css EXCEPT ![a].status = "CREATE_COMPLETE",
                                    ![a].execution = "AVAILABLE"]
  /\ NoFault /\ UNCHANGED stack

ChangeSetCreationFails ==
  /\ \E a \in Arns :
       /\ css[a].status = "CREATE_IN_PROGRESS"
       /\ css' = [css EXCEPT ![a].status = "FAILED", ![a].reason = "other"]
  /\ Fault("changeSet") /\ UNCHANGED stack

ChangeSetDeleted ==
  /\ \E a \in Arns : css[a].status = "DELETE_IN_PROGRESS" /\ css' = [css EXCEPT ![a] = Deleted]
  /\ NoFault /\ UNCHANGED stack

ChangeSetDeletionFails ==
  /\ \E a \in Arns :
       /\ css[a].status = "DELETE_IN_PROGRESS"
       /\ css' = [css EXCEPT ![a].status = "DELETE_FAILED"]
  /\ Fault("changeSet") /\ UNCHANGED stack

\* The outcome of the execution under way, recorded on its change set.
Executed(outcome) ==
  [a \in Arns |-> IF css[a].execution = "EXECUTE_IN_PROGRESS"
                    THEN [css[a] EXCEPT !.execution = outcome] ELSE css[a]]

StackActionSucceeds ==
  /\ NoFault
  /\ \/ /\ stack.status \in {"CREATE_IN_PROGRESS", "UPDATE_IN_PROGRESS"}
        /\ \E a \in Arns :
             /\ css[a].execution = "EXECUTE_IN_PROGRESS"
             /\ stack' = [status |-> IF stack.status = "CREATE_IN_PROGRESS"
                                       THEN "CREATE_COMPLETE" ELSE "UPDATE_COMPLETE",
                          content |-> css[a].content]
        /\ css' = Executed("EXECUTE_COMPLETE")
     \/ /\ stack.status = "ROLLBACK_IN_PROGRESS"
        /\ stack' = [stack EXCEPT !.status = "ROLLBACK_COMPLETE"]
        /\ UNCHANGED css
     \/ /\ stack.status = "UPDATE_ROLLBACK_IN_PROGRESS"
        /\ stack' = [stack EXCEPT !.status = "UPDATE_ROLLBACK_COMPLETE"]
        /\ UNCHANGED css
     \/ /\ stack.status = "DELETE_IN_PROGRESS"
        /\ stack' = [status |-> "DELETE_COMPLETE", content |-> NoContent]
        /\ css' = [a \in Arns |-> Deleted]

\* Where each stack action may end when it fails.
FailsTo(st) ==
  CASE st = "CREATE_IN_PROGRESS" -> {"CREATE_FAILED", "ROLLBACK_IN_PROGRESS"}
    [] st = "UPDATE_IN_PROGRESS" -> {"UPDATE_FAILED", "UPDATE_ROLLBACK_IN_PROGRESS"}
    [] st = "ROLLBACK_IN_PROGRESS" -> {"ROLLBACK_FAILED"}
    [] st = "UPDATE_ROLLBACK_IN_PROGRESS" -> {"UPDATE_ROLLBACK_FAILED"}
    [] st = "DELETE_IN_PROGRESS" -> {"DELETE_FAILED"}
    [] OTHER -> {}

StackActionFails ==
  /\ \E st \in FailsTo(stack.status) : stack' = [stack EXCEPT !.status = st]
  /\ css' = Executed("EXECUTE_FAILED")
  /\ Fault(IF stack.status = "DELETE_IN_PROGRESS" THEN "stackDeletion" ELSE "stack")

\* Somebody else updates the stack directly: available change sets become
\* obsolete, the executed one stays.
OutOfBandUpdate ==
  /\ Updatable
  /\ \E c \in Contents \ {stack.content} :
       stack' = [status |-> "UPDATE_COMPLETE", content |-> c]
  /\ css' = [a \in Arns |-> IF ReadyForExecution(css[a])
                              THEN [css[a] EXCEPT !.execution = "OBSOLETE"] ELSE css[a]]
  /\ Fault("outOfBandUpdate")

OutOfBandDelete ==
  /\ ~StackNotFound(stack.status) /\ ~StackInProgress(stack.status)
  /\ DeleteStackCall
  /\ Fault("outOfBandDelete")

==============================================================================
