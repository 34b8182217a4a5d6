----------------------------- MODULE StackObject -----------------------------
(***************************************************************************)
(* The CloudFormationStack resource (api/v1alpha1): its spec, its status   *)
(* and the functions that update the status.  Every status the controller  *)
(* writes comes from Progressing, NotReady or Ready below.                 *)
(***************************************************************************)
EXTENDS CloudFormation, MergePatch

CONSTANTS Templates  \* what the spec contributes to the stack: template path,
                     \* parameters and tags

Specs == [template : Templates,   \* templatePath, stackParameters, stackTags
          suspend : BOOLEAN,
          destroy : BOOLEAN,      \* destroyStackOnDeletion
          retry : BOOLEAN,        \* whether retryInterval is set
          dependsOn : BOOLEAN]    \* whether there are dependencies

\* Generation 0 is no object: the API server numbers generations from 1.
Objects == [gen : 0..MaxGeneration, spec : Specs, deleting : BOOLEAN, finalizer : BOOLEAN]

NoObject == [gen |-> 0, spec |-> CHOOSE s \in Specs : TRUE,
             deleting |-> FALSE, finalizer |-> FALSE]

Exists(o) == o.gen > 0

\* The Ready condition: "none" before the first update, Unknown while the
\* reason is Progressing, True for Succeeded, False for every failure reason.
\* No decision of the controller depends on the reason itself.  The condition
\* names the generation it is about, as the status does.
Conditions == {"none", "Unknown", "True", "False"}

Statuses == [ready : Conditions,
             readyGeneration : 0..MaxGeneration,
             observedGeneration : 0..MaxGeneration,
             lastAttemptedRevision : Revisions \cup {NoRevision},
             lastAppliedRevision : Revisions \cup {NoRevision},
             lastAttemptedChangeSet : Arns \cup {NoArn}]

EmptyStatus == [ready |-> "none", readyGeneration |-> 0, observedGeneration |-> 0,
                lastAttemptedRevision |-> NoRevision, lastAppliedRevision |-> NoRevision,
                lastAttemptedChangeSet |-> NoArn]

\* A mutant: the change set's name is stored in place of its ARN.
SetReadinessByName(s, gen, ready, revision, arn) ==
  [s EXCEPT !.ready = ready, !.readyGeneration = gen,
            !.observedGeneration = gen,
            !.lastAttemptedRevision = IF revision # NoRevision THEN revision ELSE @,
            !.lastAttemptedChangeSet = IF arn # NoArn THEN arn.name ELSE @]

\* An empty revision or ARN in the update leaves the field as it is.
SetReadiness(s, gen, ready, revision, arn) ==
  [s EXCEPT !.ready = ready, !.readyGeneration = gen,
            !.observedGeneration = gen,
            !.lastAttemptedRevision = IF revision # NoRevision THEN revision ELSE @,
            !.lastAttemptedChangeSet = IF arn # NoArn THEN arn ELSE @]

Progressing(s, gen, revision, arn) == SetReadiness(s, gen, "Unknown", revision, arn)

NotReady(s, gen, revision, arn) == SetReadiness(s, gen, "False", revision, arn)

\* The applied revision is whatever was last recorded as attempted: the
\* revision this reconcile read is not an argument.  (lastAppliedChangeSet, set
\* along with it to a copy of lastAttemptedChangeSet, is read by nothing and
\* left out.)
Ready(s, gen, arn) ==
  LET t == SetReadiness(s, gen, "True", s.lastAttemptedRevision, arn)
  IN [t EXCEPT !.lastAppliedRevision = t.lastAttemptedRevision]

\* A mutant: no fallback to the interval.
RetryIntervalOnly(spec) == IF spec.retry THEN "retry" ELSE "none"

\* GetRetryInterval: the spec's retry interval, or its interval.
RetryInterval(spec) == IF spec.retry THEN "retry" ELSE "interval"

==============================================================================
