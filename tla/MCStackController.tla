-------------------------- MODULE MCStackController --------------------------
(***************************************************************************)
(* Small instances of StackController: constants the configurations name.  *)
(***************************************************************************)
EXTENDS StackRefinement, TLC

Spec0 == [template |-> "t1", suspend |-> FALSE, destroy |-> TRUE, retry |-> TRUE,
          dependsOn |-> FALSE]

\* Every template deploys something else at every revision.
Distinct ==
  [x \in Templates \X Revisions |->
     CASE x = <<"t1", "r1">> -> "c1" [] x = <<"t1", "r2">> -> "c2"
       [] x = <<"t2", "r1">> -> "c3" [] x = <<"t2", "r2">> -> "c4"]

\* Every edit and every new revision deploy something else, both together nothing
\* new.
ByTemplateAndRevision ==
  [x \in Templates \X Revisions |->
     CASE x = <<"t1", "r1">> -> "c1" [] x = <<"t1", "r2">> -> "c2"
       [] x = <<"t2", "r1">> -> "c2" [] x = <<"t2", "r2">> -> "c1"]

\* A new revision changes nothing in the stack.
ByTemplate == [x \in Templates \X Revisions |-> IF x[1] = "t1" THEN "c1" ELSE "c2"]

Absent == [status |-> "DELETE_COMPLETE", content |-> NoContent]

OnlyAbsent == {Absent}

RevisionSource == {"r1"}

NoMoves == {}

ForwardMoves == {<<"r1", "r2">>}

BackAndForth == {<<"r1", "r2">>, <<"r2", "r1">>}

LifecycleSpecs == {[Spec0 EXCEPT !.template = t] : t \in Templates}

FirstSpec == {Spec0}

\* Users who change their mind about deletion and suspension.
DeletionSpecs ==
  {Spec0, [Spec0 EXCEPT !.destroy = FALSE], [Spec0 EXCEPT !.suspend = TRUE]}

\* Users without a retry interval, with dependencies.
PlainSpecs ==
  {Spec0, [Spec0 EXCEPT !.retry = FALSE, !.dependsOn = TRUE]}

\* The object is deleted, its stack is kept.
KeepStackSpecs == {[Spec0 EXCEPT !.destroy = FALSE, !.template = t] : t \in Templates}

\* Stacks an object may find under its stackName: none, or one that was
\* deployed, failed or was left half-way by something else.
ExistingStacks ==
  {Absent}
    \cup [status : {"REVIEW_IN_PROGRESS"}, content : {NoContent}]
    \cup [status : {"UPDATE_COMPLETE", "IMPORT_ROLLBACK_COMPLETE", "UPDATE_ROLLBACK_FAILED",
                    "ROLLBACK_FAILED"},
          content : {"c2"}]

RollbackFailed == {[status |-> "UPDATE_ROLLBACK_FAILED", content |-> "c2"]}

NoSource == {NoRevision}

AnySource == {"r1", NoRevision}

\* The source's artifact disappears and comes back.
Outage == {<<"r1", NoRevision>>, <<NoRevision, "r1">>}

IdSymmetry == Permutations(Ids)
==============================================================================
