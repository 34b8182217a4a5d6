# A TLA+ model of the CloudFormation controller for Flux

The controller reconciles `CloudFormationStack` objects: it reads a template
from a Flux source, turns it into a CloudFormation change set, executes the
change set, follows the stack until it settles, and deletes the stack when the
object is deleted. A reconcile is a sequence of calls to three services (the
Kubernetes API server through an informer cache, the source's artifact server
and S3, CloudFormation) in which every call may fail, take effect and still
report an error, or be the last one of a dying process; users, the source and
CloudFormation go on working in between. This project models that system, lets
TLC explore small instances of it, and proves with TLAPS, for every instance,
what it promises about scheduling, deletion, deployment, dependencies and the
names of change sets, and that the detailed reconciler implements an abstract loop.

## 1. Inventory

| Part | Source | State | Operations | Hard behaviour |
|---|---|---|---|---|
| Reconciler | `internal/controllers/cloudformationstack_controller.go` | one reconcile's locals: the in-memory object, the client's stack, the result | `Reconcile`, `reconcile`, `reconcileStack`, `reconcileChangeset`, `reconcileDelete` | acts on a cached object; several external calls, no transaction; what it remembers between reconciles is the object's status only |
| Object and status | `api/v1alpha1/cloudformation_stack_types.go` | spec, generation, finalizer, status | `SetCloudFormationStackReadiness` and its three callers, `GetRetryInterval` | optional fields; fields copied from earlier attempts |
| Status write | `internal/controllers/util.go` `patchStatus` | – | merge patch against the cached copy | a stale base omits fields |
| CloudFormation client | `internal/clients/cloudformation` | – | seven calls; `GetChangeSetName`, `ExtractChangeSetName` | errors folded into not-found and empty; names as identity |
| Status predicates | `internal/clients/types` | – | lists and predicates | a status in no list, or in two |
| CloudFormation (external) | used by the client | the stack, its change sets | creation, execution, rollback, deletion, asynchronous | any of them may fail; others may use the stack |
| Source watch | `source_predicate.go`, `util.go` `requestsForRevisionChangeOf`, `IndexBy` | – | event filter, fan-out to objects | events dropped by a cached status |
| Queue and process | controller-runtime, `main.go` | queued keys, delayed keys | requeue, backoff, panic recovery, restart | a forgotten requeue loses the object |
| Dependencies | `util.go` `checkDependencies`, `dependency.Sort` | – | readiness of other objects | cycles, stale readiness, cached reads one after another |
| Artifact and template | `util.go` `loadCloudFormationTemplate`, `internal/clients/s3` | – | download, digest, upload | failure only |
| Events, metrics, wiring, generated code, mocks, tests | – | – | – | not modelled |

What makes each part correct:

- the reconciler deploys what the spec and the revision it read render to,
  reports success only for that, and never stops working for an object that
  needs it;
- an object goes away only after its stack, if that is what it asks for, and no
  stack is deleted for any other reason than that or being beyond repair;
- when nothing changes any more, the stack becomes what the object asks for, and
  the object says so;
- a stack is not worked on before those it depends on, whoever reads from a source
  hears of its revisions, and objects that wait for each other hold up nobody else;
- a change set's name tells what is in it, as far as names can;
- no optional field, status or stale copy leads to a panic or a wrong type.

`PROJECT.json` lists the hazards behind these, each with its line.

## 2. Modules

    CfnStatus              statuses and predicates; the branches taken on them
      CloudFormation       one stack, its change sets, the service, the client's calls
        StackObject        the resource and its status functions   (EXTENDS MergePatch too)
          StackController      reconciler, cache, queue, users, source, crashes
            MCStackController    constants of the small instances
            StackRefinement      the mapping from StackController to ReconcileLoop
            StackControllerProofs  types, control, deletion, panics, the end of a reconcile
              StackDeploymentProofs  what is deployed and what is called success
                StackReadyProofs       what a Ready condition says
              StackRefinementProofs  the refinement   (EXTENDS StackRefinement too)
              StuckChangeSetProofs   why a stuck change set stays stuck
    ReconcileLoop          the abstract specification of one object's loop
      ReconcileLoopProofs    what holds of every such loop
    MergePatch             the status write
      Dependencies         several objects, their sources, dependsOn
        DependenciesRefinement  the mapping from Dependencies to ReconcileLoop
          MCDependencies       constants
          DependenciesProofs   theorems, the refinement
    ChangeSetNames         the text of change set names
      MCChangeSetNames       constants
      ChangeSetNamesProofs   theorems

**CfnStatus** keeps the lists of `stack.go` and `changeset.go` and their
predicates under the source's names. `StackVerdict`, `DeletionVerdict` and
`ChangeSetVerdict` are the order in which `reconcileStack`, `reconcileDelete` and
`reconcileChangeset` ask them.

**CloudFormation** keeps the stack (status and deployed content) and, for each
ARN, a change set. A change set's name is the pair of generation and revision
that `GetChangeSetName` prints; the ARN adds a unique part, a member of `Ids`. The
pair is an abstraction: the code replaces special characters and cuts the name, so what
is said of deployments holds for revisions whose names differ, and **ChangeSetNames**
says which ones do.
`Contents` stands for template, parameters and tags together. `Call` gives a call
four outcomes: accepted, rejected, failed, and accepted with the reply lost.
The actions at the end are the service's own: change sets get created (or turn
out empty, or fail), stack actions succeed, fail and roll back, somebody else
updates or deletes the stack.

**MergePatch** is `patchStatus`: fields that differ from the cached base are sent,
the list of conditions as one field.

**StackObject** keeps the fields of the spec a reconcile branches on and the
fields of the status a reconcile, an event filter or a dependent reads, with one
operator for each status function.

**StackController** has one action for each call that leaves the process, and `pc`
names the next one:

| Code | Actions |
|---|---|
| `Reconcile` | `StartReconcile` (cached `Get`), `AddFinalizer`, `PatchStatus` |
| `reconcile` | `ObserveGeneration`, `ReconcileSource` |
| `reconcileStack` | `DescribeStack`, `ContinueRollback`, `RecoverPanic`, `CleanupStack` |
| `reconcileChangeset` | `DescribeChangeSet`, `UploadTemplate`, `CreateChangeSet`, `DeleteEmptyChangeSet`, `DeleteFailedChangeSet`, `ExecuteChangeSet` |
| `reconcileDelete` | `DescribeStackForDelete`, `DeleteStack`, `RemoveFinalizer` |
| queue, informer | `TimerFires`, `CacheSync` |
| `requestsForRevisionChangeOf`, predicate | `SourceChanges` |
| users, process | `EditSpec`, `DeleteObject`, `CreateObject`, `Crash`, `Restart` |

`cfnObj` and `cfnStatus` are the reconcile's `cfnStack`, `clientStack` the
`types.Stack` it hands to the client, `result` the wait it will ask for.
`Report` is a return of `reconcile` or `reconcileDelete`; `ReturnAfter` is a
return of `Reconcile`. An error wins over `RequeueAfter`, as controller-runtime
has it (v0.16.3), so the retry interval that the code returns next to an error
never applies: it is the rate-limited backoff that does. `lag` says how far the
informer is behind: by nothing, by writes its filter ignores, or by an event that
will queue the key. `held` says that the object in memory still has the current
`resourceVersion`: the finalizer's removal is an `Update`, and refused otherwise.
`SourceChanges` queues the key for a first artifact and for a new one, but not for a
source that is created with its artifact (`created`): the predicate drops creations.

The branches for an unexpected status are not modelled in `DescribeStack` and
`DescribeChangeSet`: the theorems `NoUnexpectedStackStatus` and
`NoUnexpectedChangeSet` show that nothing the service can report leads there. The
deletion path skips the status patch after the finalizer is removed (line 172 of
the reconciler), and so does `RemoveFinalizer`.

**ReconcileLoop** says what that amounts to for somebody who sees neither calls,
change sets nor status: something is asked for, which may be guarded by a
finalizer; a worker looks at it, takes one action on the stack at a time and
rests; what it works for may be outdated, but then another look is due. A request
is one of four wishes: deploy, pause, destroy the stack and go, or just go. The
stack is in one of five phases. **StackRefinement** maps `StackController` to it:
the request is the object's generation, spec and deletion, a look is due when the
key is queued, delayed, or will be queued by an event the informer has yet to
deliver, and the phase is what `StackDescription`'s predicates tell. The
refinement holds under every fault, somebody else's deletion of the stack
included (`Shared`).

**Dependencies** has several objects, each a namespaced key with its own
reconcile, and several sources. `IndexBy` and `SourceOf` resolve the same
reference in the two places where the code does; `RequestsForRevisionChangeOf` is
the fan-out with its filter and with the sort that fails on a ring (a cycle of two
or more of the objects to be told; an object that depends on itself is not
noticed). A source may be `Missing`, and when it appears with an artifact nobody is told
(`Announced`). `CheckDependency` reads one dependency from the cache at a time, so that
everything else may happen in between. What `reconcileStack` does is one step,
`Deploy`, which waits for the stack, deletes one that cannot be updated, deletes a
failed change set, finds the stack up to date, or starts to change it;
recording an ARN, faults, crashes, suspension and deletion are
`StackController`'s subject. `Broken` are the pairs of object and revision that
CloudFormation refuses. The order `dependency.Sort` gives is not kept: with
several workers the queue does not keep it either, and nothing may rest on it.
**DependenciesRefinement** maps each object's part of it to a `ReconcileLoop` of its
own, so that the abstraction which `StackController` implements in every detail of one
object's reconciles is also what holds of many objects that wait for each other and
share workers, sources and a queue.

**ChangeSetNames** writes names as sequences of characters: the format, the
replacement of special characters, the cut at the maximum length, and the search
for the slashes of an ARN. Its only behaviour is to enumerate attempts.

## 3. Properties

Safety, in `StackController`:

- `TypeOK`.
- `NoLostWakeup`: while no reconcile runs, an object that asks for work is queued,
  waits for a delayed requeue, or has an undelivered event that will queue it.
- `ControlInv`: `NoLostWakeup`, and what makes it and the deletion properties
  inductive: the cache is what its lag says, a reconcile that works for an
  outdated object has a successor, a current `resourceVersion` means a current
  object, and what has been decided about the stack stays true until acted on.
- `ReadyMeansDeployed`: a reconcile that decides it succeeded is right about the
  stack, at that moment, for the spec and revision it read.
- `ReadyIsForGeneration`: a Ready condition that names the object's generation is
  true of it, although the status in which it stands was put together by patches
  based on older copies.
- `ExecutesWhatItRead`: the change set it executes holds what it read; the names
  tell.
- `FinalizerGuardsStack`: an object with `destroyStackOnDeletion` and without
  `suspend` leaves under the finalizer only after its stack, and after everything
  that was deployed to it. A stack in `REVIEW_IN_PROGRESS` counts as absent, and is
  left behind; the second half says that nothing was ever deployed to it.
- `DeletesOnlyWithCause`: a stack's deletion is begun only for a stack beyond
  repair, or for a deleted object that asks for it. The object may be an old
  copy, replaced by a re-created one in the meantime; then the reconcile that will
  see the new one is due. The property was first stated without this last clause,
  and TLC showed why it is needed: a reconcile from a cache that still shows the
  old object deletes the stack that the new object has taken over.
- `ImplementsLoop`: every step is one of `ReconcileLoop`, or none it sees.

In `Dependencies`:

- `DependenciesGoFirst`: whatever was edited in between, and however old the copies
  were, a stack is only worked on when each object the reconcile found in
  `dependsOn` has been deployed at least once.
- `NobodyIsForgotten`: whatever event or edit comes at a bad moment, an object is being
  reconciled as it is, or a reconcile that will see it is due.
- `EachHasItsLoop`: every step is, for each of the objects, one of its `ReconcileLoop` or
  none that loop sees.
- `EntangledNeverStart`: objects that wait for each other never touch their stacks.
- `ReadersHear`: a new revision of an existing source queues everybody who reads from the source and has
  not attempted it, unless there is a ring among them.
- `OthersConverge`: whatever has a source, can be deployed and does not wait for
  something that cannot ends up with its last generation at the last revision.

In `ChangeSetNames`: `NamesAreValid` for the service, `RecognisesItsOwn` (the name
is found in the ARN), `GenerationsDiffer` (no two generations share a name, even
when names are cut or revisions continue the number), `SameNameSameWords` (two
revisions share an uncut name only when they consist of the same letters in the
same words).

Liveness of `StackController`: `Converges`, `ReportsReady`, `DeletionCompletes`,
and `LooksAgain`, the loop's own: again and again a reconcile works for the object
as it is.

**Fairness.** `WF` of: taking a queued key and continuing a reconcile (a worker
pool, calls with time-outs), delayed requeues coming due, the informer's watch
delivering, a dead pod being started again, and CloudFormation finishing what it
has begun. In `Dependencies` one worker serves several keys, and taking a key is
disabled while it is busy with another: `SF` for each key, because the queue is
first in first out. Nothing is assumed of users, sources or faults; they are
finitely many because of the bounds.

## 4. Runs

| Run | Checks | Instance | Distinct states |
|---|---|---|---|
| `deployment` | `TypeOK`, `NoLostWakeup`, `ReadyIsForGeneration`, `ReadyMeansDeployed`, `ExecutesWhatItRead` | two templates, two revisions that all deploy different things, edits and moves of the source back and forth (two of them in all), one crash | 1 550 000 |
| `deletion` | `ControlInv`, `FinalizerGuardsStack`, `DeletesOnlyWithCause`, `ImplementsLoop` | specs that destroy, keep or suspend, three user actions among edit, delete, create, two faults, existing stacks in six states | 830 000 |
| `disturbances` | `DeletesOnlyWithCause`, `ImplementsLoop` | two faults among API, change set, stack, out-of-band update and deletion, source, dependency; a source that loses its artifact | 1 230 000 |
| `convergence` | `Converges`, `ReportsReady` | two revisions, one forward move, one API, patch or crash fault | 180 000 |
| `deletion_liveness` | `DeletionCompletes`, `LooksAgain`, `ReadyMeansDeployed` | delete and create again at any point, one fault, failed stack actions and deletions included | 290 000 |
| `dependencies` | `EntangledNeverStart`, `NobodyIsForgotten`, `DependenciesGoFirst`, `ReadersHear`, `EachHasItsLoop`, `OthersConverge` | three objects in two namespaces and three sources (two of one key), starting as one of the four situations below; one write or source event; B cannot be deployed at `r2` | 400 000 |
| `change_set_names` | `NamesAreValid`, `RecognisesItsOwn`, `GenerationsDiffer`, `SameNameSameWords` | generations 1, 2, 12; all pairs of revisions of up to three characters out of a letter, a digit and two special ones; names cut at nine | 65 000 |
| `stuck_change_set` | violates `ReportsReady` | a new revision that changes nothing, no fault | |
| `applied_revision` | violates `AppliedRevisionIsDeployed` | two moves of the source, no fault | |
| `rollback_panic` | violates `NeverPanics` | a stack in `UPDATE_ROLLBACK_FAILED`, no retry interval | |
| `drift` | violates `Converges` | one out-of-band update | |
| `recreation` | violates `ExecutesWhatItRead` | delete, create with another template | |

`CHECK_DEADLOCK FALSE` stands where users may delete the object for good
(`deletion`, `deletion_liveness`, `recreation`), because then there is nothing left
to do, and in `change_set_names`, whose enumeration ends. Everywhere else a
requeue is always pending, and deadlock is checked.

**Bounds.** `MaxGeneration`, `MaxEdits`, `MaxEvents` and `MaxFaults` cap the counters.
Two revisions and two templates are enough for an earlier and a later one, and for a
return to the earlier (`deployment`, where the event of the return is dropped if the
earlier revision is still the one attempted last, and `applied_revision`). Faults are budgeted
because the interesting ones come one at a time: with one lost reply or crash at
each possible point, each pair of calls is separated once; `deletion` and
`disturbances` allow two, and failed stack actions are in `disturbances` and
`deletion_liveness`. `Ids` bounds the ARNs that exist at once under one name:
an ARN can be taken again once no change set, status, cache or reconcile knows it,
so three are enough for a live change set and the two the statuses may still name
(no run ever lacks an ARN for `CreateChangeSet`, checked once with an invariant);
where symmetry is used it is over these ids only, which are interchangeable, and
never with liveness. `deletion` has no source, so that change sets do not matter, and one
id is enough there. In `dependencies` one event is enough for each hazard to happen
once, in one of four situations. `Waiting`: A's dependency B has yet to be created, and
will wait for A if it is; or an edit frees A. `Chain`: B lists A twice, so that it
reads it twice and A may be edited in between (into a ring), or a new revision breaks B.
`ChainWithoutSource`: the source appears with its artifact, of which nobody is told.
`RingBesideC`: the first artifact of a source on which A and B wait for each other is
news to nobody, and C, which waits for neither, gets there by its interval. The safety
properties are proved for all instances. In
`change_set_names` three characters are enough for a run of special ones, a
special one at either end, and a digit that continues a generation's number; names
are cut after two to four characters of the revision.

**What the passing liveness runs leave out.** `Converges` and `ReportsReady` hold
when each new revision changes the stack, without failing stacks and change sets,
and without a return to an earlier revision. Otherwise the situation of
`stuck_change_set` can arise, and nothing converges from it. An empty change set
leads there without any fault; a return does when a status read from a cache that
lags names the earlier revision's first change set and one reply gets lost. For the
same reason the edit of a spec together with a lost reply is not part of
`convergence`. `OthersConverge` abstracts from change sets, and with them from that
situation.

## 5. What the violations show

1. `stuck_change_set`. A revision changes nothing in the stack: its change set is
   found empty and deleted, and its ARN stays in the status. The next reconcile
   finds the ARN gone, creates a change set of the same name again and writes its
   ARN. The reconcile after that reads the old ARN once more, from a cache that
   lags: nothing is found under it, the creation is refused because the name is
   taken, and if the cache has caught up by the time the status is written, the
   patch puts the old ARN back in place of the new one. From then on the status
   holds a dead ARN whose name is the wanted one, next to a live change set of that
   name: the description by ARN answers "not found", the creation by name is
   refused. A process that dies between the creation and the status write leaves
   the same behind. The theorem `StuckForGood` says that this is for good: no retry,
   restart or failure ends it, the controller's calls no longer have any effect, and
   the object does not become Ready, until its source moves, it is edited or
   deleted, or somebody else deletes the stack.
2. `applied_revision`. `CloudFormationStackReady` takes the applied revision from
   the last attempted one.
3. `rollback_panic`. `cfnStack.Spec.RetryInterval.Duration` where `GetRetryInterval()`
   is meant. It is the only way to panic (`PanicsOnlyWithoutRetry`), and none when every
   spec sets the interval (`RetryIntervalsPreventPanics`).
4. `drift`. An executed change set with the wanted name is success for good.
5. `recreation`. Generations start over with a new object, change set names with
   them.

Each quotes the sentence it contradicts in `PROJECT.json`. What else came up while
modelling, without a run of its own:

- Change set names are not "unique" (`changeset.go` lines 38-40) for revisions of the
  same words with different punctuation, nor for long ones: from a branch name of
  about 75 characters on, the 128 characters lose part of the commit, and all of
  it from about 115 on. A new commit then looks deployed (`LongBranchesShareNames`).
  `SameNameSameWords` says what is left, `ShortRevisionsAreUncut` for how long.
- When `dependency.Sort` meets a cycle, nobody on that source is told of a new
  revision, those outside the cycle included. They still get there, by their
  intervals (`ReadersHear` and `OthersConverge`): source events only bring forward
  what a timer would do. The comments at lines 239 and 254 of the reconciler rest
  on the event.
- The finalizer's patch can hand a reconcile a newer generation than the cache has;
  the next one may still start from the older copy and leave the newer
  `observedGeneration` standing next to an older generation's condition. The
  condition's own generation is right (`ReadyIsForGeneration`); `checkDependencies`
  compares the status's.
- A dependency is ready whatever revision it has: a dependent can be deployed at a
  new revision before its dependency is.

## 6. Proofs

Everything below holds for every value of the constants that satisfies
`ServiceConstants`, `AbsentStacks`, `ControllerConstants`, `DependencyConstants`,
`LoopConstants`, or `NameConstants` and `NumbersFit` (bounds are numbers, the empty
revision and ARN are not revisions and ARNs, user specs are specs, nothing is deployed
where there is no stack, a generation's digits fit in a name, and so on).

| Module | Theorem | States |
|---|---|---|
| `StackControllerProofs` | `TypeCorrectness` | `Spec => [](TypeOK /\ RevisionRead)` |
| | `ControlIsInvariant` | `Spec => []ControlInv` |
| | `NoWakeupIsLost` | `Spec => []NoLostWakeup` |
| | `DeletionsHaveCause` | `Spec => DeletesOnlyWithCause` |
| | `AbsentStacksAreEmpty` | `Spec => []AbsentIsEmpty`: what counts as absent has nothing deployed |
| | `FinalizerHolds` | `Spec => FinalizerGuardsStack` |
| | `PanicsOnlyWithoutRetry` | a reconcile that panics works for a user's spec without retry interval |
| | `RetryIntervalsPreventPanics` | `Spec => []NeverPanics`, if every spec sets it |
| | `ReconcilesEnd` | every step of a reconcile makes `StepsLeft` smaller, nobody else's makes it larger: eight steps at most |
| | `NoUnexpectedStackStatus`, `NoUnexpectedChangeSet` | every status and description has a branch |
| `StackDeploymentProofs` | `NamesAreInvariant` | `Spec => []NameInv`, if objects are not re-created |
| | `DeployedIsInvariant` | `Spec => []DeployedInv`, if moreover nobody else works on the stack |
| | `ExecutesOnlyWhatItRead` | `Spec => ExecutesWhatItRead`, if objects are not re-created |
| | `SuccessIsDeployed` | `Spec => ReadyMeansDeployed`, under the same two |
| `StackReadyProofs` | `ReadinessIsInvariant` | `Spec => []ReadinessInv`, under the same two |
| | `ReadyTellsTheGeneration` | `Spec => []ReadyIsForGeneration`, under the same two |
| `StackRefinementProofs` | `StackControllerImplementsLoop` | `Spec => ImplementsLoop` |
| | `RequestsAreHeard` | `Spec => []Loop!Attentive`, from the refinement and `AlwaysAttentive` |
| `ReconcileLoopProofs` | `LoopTypeCorrect`, `AlwaysAttentive`, `GuardAlwaysHolds`, `DeletionAlwaysWished` | what every loop that follows `ReconcileLoop` does |
| `DependenciesProofs` | `TypeCorrectness` | the types the others rest on |
| | `DependenciesWentFirst` | `Spec => DependenciesGoFirst` |
| | `RingsNeverStart` | `Spec => []EntangledNeverStart` |
| | `ReadersAreTold` | `Spec => ReadersHear` |
| | `NobodyIsEverForgotten` | `Spec => []NobodyIsForgotten` |
| | `EachObjectHasItsLoop`, `EachFollowsTheLoop` | `Spec => EachHasItsLoop`; `Spec => Loop(o)!Spec` for each object |
| `StuckChangeSetProofs` | `StuckForGood` | `Stuck` lasts until somebody intervenes, and every step in it is `Futile` |
| `ChangeSetNamesProofs` | `NamesType` | attempts are of a generation and any sequence of characters |
| | `NamesAreValidHolds` | `Spec => []NamesAreValid` |
| | `RecognisesItsOwnHolds` | `Spec => []RecognisesItsOwn` |
| | `GenerationsDifferHolds` | `Spec => []GenerationsDiffer` |
| | `SameNameSameWordsHolds` | `Spec => []SameNameSameWords` |
| | `SameNameSameDigest` | the same uncut name means the same generation and, after the last special character, the same word |
| | `ShortRevisionsAreUncut` | a revision that fits beside the generation is not cut |
| | `LongBranchesShareNames` | two revisions that begin with as much as a name holds have the same name |

*Types.* `TypeOK` alone is not inductive: the change set that is created is named
after the revision in `clientStack`, which the type allows to be empty.
`RevisionRead` adds that it is a revision from the source step on; `TypeInv` is
their conjunction. One lemma covers the client's calls (`CallsKeepTypes`), one the
returns, one the patches; then one step for each action.

*Control.* `NoLostWakeup` needs to know that a reconcile which ends without a
requeue was right to: it worked for an object that is deleted or suspended as it
is now, or else a successor is on its way (`ReconcileIsCurrent`), because the
cache, unless an event is pending, is current (`CacheIsCurrent`). The finalizer's
removal is the one return that nothing follows although the object still exists
before it; `HeldIsCurrent` shows that it removes the object it decided on, and
`DecisionsHold` that its decision still holds, for which no step of the service
may bring a stack back that was found absent (`ServiceKeepsVerdicts`). The
conjunction `ControlInv` was checked by TLC (run `deletion`) before it was proved.

*Deletion.* `FinalizerHolds` and `DeletionsHaveCause` follow step by step from
`ControlInv` and the actions; most actions touch neither the object nor the stack
(`WhoDeletes`). That nothing is left deployed needs `AbsentIsEmpty`: the service
gives a stack contents only in a status that does not count as absent, and takes it
back to one only when they are gone.

*Panics, and the end.* A panic needs a spec that lacks its retry interval, and every
spec a reconcile can hold was written by a user or was there from the start
(`SpecsAreWritten`, of the object, the cached copy and the one in memory).
`StepsLeft` is the longest way from each `pc` to the end of its reconcile. It turns the
bound on reconciles into a safety property; that the steps are taken at all is
fairness.

*Deployment.* `NameInv` says that a generation has one spec whichever copy is read
(`GenerationsTell`), that a change set holds what its name's generation and
revision render to (`NamesTell`), and that the one a reconcile works with has the
name it wants (`ArnIsWanted`). Every step either copies or forgets copies
(`CopiesKeepNames`), makes a generation that has no change sets yet
(`EditsKeepNames`), or creates one (`CreationKeepsNames`). Re-created objects break
`GenerationsTell`, and the run `recreation` shows that they must. `DeployedInv` adds
that the stack holds what was executed last (`ExecutionsTell`: executing deletes
the stack's other change sets, so one at most has run), that an empty change set is
still empty (`EmptySetsTell`: while a stack changes there is none) and that nothing
happens to the stack while a reconcile decides (`NothingMoves`). Both were checked
by TLC, on the instance of `deployment` and on one with deletions and all faults,
before they were proved.

*Readiness.* A reconcile's success is about the stack at that moment; the condition
it writes stays, and is put together from patches against an older copy. `ReadyInv`
says that a True condition with the object's own generation means the stack is
`Settled`: it holds what this generation renders to, whatever is being executed is of
this generation too (`Executing`), the object is not being deleted, and no copy of an
earlier generation will be read any more (`Unread`). The last needs
`FirstReader`. A reconcile can get ahead of the cache in one place only, the
response to the finalizer's patch; whoever reads a generation that way is the first,
finds no change set of that generation and so cannot report success. By the time a
reconcile does, the cache has shown the generation to it, and the cache does not go
back. `SuccessSettles` is that step, `ReconcileStaysSettled` and `AwsStaysSettled` say
that what follows keeps it; what a patch can write is in `WhoWrites`. `ReadinessInv`
was checked by TLC on five instances, which between them have deletions, existing
stacks and every fault but other people's work on the stack, before it was proved.
It uses that the informer never shows a version older than one it has shown.

*Refinement.* `WorkInv` adds to `TypeInv` and `ControlInv` what the mapping needs: who
makes the calls of a deployment works for an object that wants one, who deletes has
found something to delete, a worker that rests holds nothing, and without a process
nothing is scheduled. One lemma maps the steps the loop does not see (`UnseenSteps`),
others the returns, the writes and the start of a reconcile; then each action
becomes the loop's action of its kind.

*Stuck.* `Stuck` says what keeps itself up: the stack takes a change set, the wanted
name is taken, every copy of the status names the ARN that is gone, and the reconcile
under way, if any, has got no further than the refused creation. Every patch goes
from one such status to another (`PatchesMisremember`), so that no order of patches and
cache updates brings the other ARN in. TLC checked the implication on the instance of
`stuck_change_set`, with and without a crash, where `Stuck` is reached, before it was
proved.

*Dependencies.* `ReadingInv` says that a running reconcile has read an object that
exists and, once it checks, a revision; `OrderInv` that what it has checked was
deployed and that a Ready status, wherever a copy of it is, means deployed. `WaitInv`
is about rings: a copy of an object, in the cache or in a reconcile, is of an earlier
generation or the object itself (`CopiesInv`), and nothing was ever started for
objects that are or may still become a ring (`RingInv`). `NobodyIsForgotten` is inductive
with `CopiesInv`: a reconcile that starts from an outdated copy has a watch event to come.
For the refinement, `OnlyItsOwn` says that a step about one object is a stutter for the
others, and one lemma maps each kind of step of its own (`StartLooks`, `DeployWorks`,
`PatchFinishes`, `WriteAsks`, `StacksSettle`, `NewsReminds`); it needs that an idle
worker works for nobody (`RestInv`) and that only empty stacks are deleted
(`EmptiedInv`).

*Names.* These are inductions over data, of which the prover has no rule that takes an
operator. They are done on sets instead: a set of numbers that is not empty has a
least element (`LeastNumber`), so a set of sequences that holds the empty one and every
extension by one element holds all (`SequencesByAppending`). `FlattenSeq` and `Decimal`
are recursive functions; `FlattenAppend` and `DecimalUnfolds` show that the functions
their definitions choose exist, and unfold them once. The rest goes one character at a
time: replacing a continued text continues its replacement (`ReplaceContinues`), which
gives the prefix with the generation (`PrefixFacts`) and the cut; a clean name has no
slash, so the ARN's slashes are where they were put (`ExtractInvertsArn`); replacing
keeps the letters and the places of the breaks between them (`ReplaceKeepsWords`),
which the revision's part of the name then shows (`WordsOfConcat`).

Model-checked only: liveness, which is out of the prover's reach (`Converges`,
`ReportsReady`, `DeletionCompletes`, `LooksAgain`, `OthersConverge`).

## 7. Not modelled

- Two objects with one `stackName`, and a changed `stackName` (the old stack is left
  alone by design).
- Two controller processes at once during a change of leader.
- `lastAppliedChangeSet`, `lastHandledReconcileRequest`, messages and reasons:
  nothing decides on them.
- A cache that catches up in several steps: one `CacheSync` brings it to the current
  version, and so does the list a new process begins with (an API server may serve that
  list from a cache of its own).
- Intervals of zero, time in general: a wait is pending or not.
- In `Dependencies`: faults, crashes, suspension and deletion; change sets. One
  object's are in `StackController`.
- S3, artifacts and archives beyond success and failure; events; metrics; wiring;
  generated code. They change no state that a decision depends on.
