----------------------------- MODULE Dependencies -----------------------------
(***************************************************************************)
(* Several CloudFormationStack objects, the sources they refer to and the  *)
(* objects they depend on (internal/controllers/util.go, the indexes and   *)
(* watches of cloudformationstack_controller.go): which objects a new      *)
(* revision wakes up, and when an object may go ahead.                     *)
(*                                                                         *)
(* What a reconcile does with its own stack is StackController's subject   *)
(* and one step here.  Objects are neither suspended nor deleted.          *)
(***************************************************************************)
EXTENDS Naturals, Sequences, FiniteSets, MergePatch

CONSTANTS Objects,              \* the keys of the objects: [namespace, name]
          Sources,              \* the sources: [kind, key]
          UnknownKeys,          \* keys of neither, which specs may refer to
          UserSpecs,            \* each object's set of possible specs
          NoSpec,               \* what there is of an object that does not exist
          UserWrites,           \* <<object, spec before, spec>>: what users may write
          InitialSpecs,         \* the specs of those there when the controller starts
          Revisions, NoRevision,
          Missing,              \* what there is of a source that does not exist
          InitialSources,       \* and the sources that there may be then
          SourceMoves,          \* <<source, from, to>>: how sources may move
          Broken,               \* <<object, revision>>: what cannot be deployed
          Default,              \* the empty namespace of a reference
          NoCrossNamespaceRef,  \* the controller's flag
          Workers,              \* MaxConcurrentReconciles
          MaxGeneration,        \* bound on how often an object is written
          MaxEvents             \* bound on what users and sources do

Keys == Objects \cup {s.key : s \in Sources} \cup UnknownKeys

References == [namespace : {k.namespace : k \in Keys} \cup {Default},
               name : {k.name : k \in Keys}]

Specs == [sourceRef : [kind : {s.kind : s \in Sources}, ref : References],
          dependsOn : Seq(References)]

\* A source is at a revision, has no artifact, or does not exist.
SourceStates == Revisions \cup {NoRevision, Missing}

Conditions == {"none", "Unknown", "True", "False"}

Statuses == [ready : Conditions, readyGeneration : 0..MaxGeneration,
             observedGeneration : 0..MaxGeneration,
             lastAttemptedRevision : Revisions \cup {NoRevision}]

EmptyStatus == [ready |-> "none", readyGeneration |-> 0, observedGeneration |-> 0,
                lastAttemptedRevision |-> NoRevision]

\* What a stack holds: a generation of its object at a revision, or nothing yet.
Contents == [gen : 1..MaxGeneration, revision : Revisions]

NoContent == [gen |-> 0, revision |-> NoRevision]

ASSUME DependencyConstants ==
  /\ \A s \in Sources : s = [kind |-> s.kind, key |-> s.key]
  /\ UserSpecs \in [Objects -> SUBSET Specs] /\ \A o \in Objects : UserSpecs[o] # {}
  /\ NoSpec \notin Specs
  /\ \A initial \in InitialSpecs :
       DOMAIN initial \subseteq Objects /\ \A o \in DOMAIN initial : initial[o] \in UserSpecs[o]
  /\ NoRevision \notin Revisions /\ Missing \notin Revisions
  /\ \A initial \in InitialSpecs : InitialSources[initial] \subseteq [Sources -> SourceStates]
  /\ Broken \subseteq Objects \X Revisions
  /\ NoCrossNamespaceRef \in BOOLEAN
  /\ MaxGeneration \in Nat \ {0} /\ MaxEvents \in Nat

VARIABLES objs,     \* each object at the API server; generation 0 is none
          status,   \* and its status
          cached,   \* the informer cache: the same at some earlier time
          sources,  \* each source's artifact, as cached
          queued,   \* the keys in the work queue, or to be put there when the
                    \* reconcile that runs for them is done
          delayed,  \* the keys with a delayed requeue
          local,    \* each key's reconcile
          stacks,   \* each object's stack
          events    \* how often users and sources have changed something

server == <<objs, status>>
queue == <<queued, delayed>>
vars == <<objs, status, cached, sources, queued, delayed, local, stacks, events>>

PCs == {"idle", "observe", "source", "check", "deploy", "patch"}

\* A reconcile's copy of its object, the revision it read, the dependency it checks
\* next.
Locals == [pc : PCs, obj : [gen : 0..MaxGeneration, spec : Specs], status : Statuses,
           revision : Revisions \cup {NoRevision}, next : Nat]

Idle(o) == [pc |-> "idle", obj |-> [gen |-> 0, spec |-> CHOOSE s \in UserSpecs[o] : TRUE],
            status |-> EmptyStatus, revision |-> NoRevision, next |-> 1]

Absent(o) == Idle(o).obj

Exists(o) == o.gen > 0

TypeOK ==
  /\ objs \in [Objects -> [gen : 0..MaxGeneration, spec : Specs]]
  /\ status \in [Objects -> Statuses]
  /\ cached \in [objs : [Objects -> [gen : 0..MaxGeneration, spec : Specs]],
                 status : [Objects -> Statuses]]
  /\ sources \in [Sources -> SourceStates]
  /\ queued \subseteq Objects /\ delayed \subseteq Objects
  /\ local \in [Objects -> Locals]
  /\ stacks \in [Objects -> [status : {"steady", "changing", "failed", "deleting"},
                             content : Contents \cup {NoContent},
                             target : Contents \cup {NoContent}]]
  /\ events \in 0..MaxEvents

\* The controller starts: its cache is filled, every object is queued.
Init ==
  /\ \E initial \in InitialSpecs :
       /\ objs = [o \in Objects |-> IF o \in DOMAIN initial THEN [gen |-> 1, spec |-> initial[o]]
                                    ELSE Absent(o)]
       /\ sources \in InitialSources[initial]
  /\ status = [o \in Objects |-> EmptyStatus]
  /\ cached = [objs |-> objs, status |-> status]
  /\ queued = {o \in Objects : Exists(objs[o])} /\ delayed = {}
  /\ local = [o \in Objects |-> Idle(o)]
  /\ stacks = [o \in Objects |-> [status |-> "steady", content |-> NoContent,
                                  target |-> NoContent]]
  /\ events = 0

Event == events < MaxEvents /\ events' = events + 1

-----------------------------------------------------------------------------
(* References between objects.                                              *)

\* A reference without namespace is to the referring object's namespace.
Resolve(o, ref) ==
  [namespace |-> IF ref.namespace = Default THEN o.namespace ELSE ref.namespace,
   name |-> ref.name]

Dependency(o, spec, i) == Resolve(o, spec.dependsOn[i])

DependenciesOf(o, spec) == {Dependency(o, spec, i) : i \in DOMAIN spec.dependsOn}

\* A mutant: the index takes the reference as it is written.
IndexByReference(kind, o, spec) ==
  {key \in {spec.sourceRef.ref} : spec.sourceRef.kind = kind}

\* The index of a kind holds an object under the key of the source of that kind it
\* refers to.
IndexBy(kind, o, spec) ==
  {key \in {Resolve(o, spec.sourceRef.ref)} : spec.sourceRef.kind = kind}

\* getSource resolves the same reference, if it is allowed to.
SourceOf(o, spec) == [kind |-> spec.sourceRef.kind, key |-> Resolve(o, spec.sourceRef.ref)]

AccessDenied(o, spec) ==
  NoCrossNamespaceRef /\ SourceOf(o, spec).key.namespace # o.namespace

\* The source exists, may be referred to, and has an artifact.
Readable(o, spec) ==
  /\ SourceOf(o, spec) \in Sources /\ ~AccessDenied(o, spec)
  /\ sources[SourceOf(o, spec)] \in Revisions

\* A queued key needs no timer besides: each return sets a new one.
Enqueue(keys) == queued' = queued \cup keys /\ delayed' = delayed \ keys

-----------------------------------------------------------------------------
(* Who hears of a new revision.                                             *)

\* The objects of the source, but for those whose cached status names the revision
\* as attempted.
RevisionRequested(source, revision) ==
  {o \in Objects :
     /\ Exists(cached.objs[o])
     /\ source.key \in IndexBy(source.kind, o, cached.objs[o].spec)
     /\ cached.status[o].lastAttemptedRevision # revision}

\* dependency.Sort refuses a list with a cycle of two or more of its objects: each
\* object of such a cycle depends on another one of it.  An object that depends on
\* itself is not noticed.
Circular(list) ==
  \E ring \in (SUBSET list) \ {{}} :
    \A o \in ring : DependenciesOf(o, cached.objs[o].spec) \cap (ring \ {o}) # {}

\* When the sort fails, nobody is told.  (The order it gives is lost as soon as two
\* workers take from the queue; the queue here has none.)
RequestsForRevisionChangeOf(source, revision) ==
  {o \in RevisionRequested(source, revision) : ~Circular(RevisionRequested(source, revision))}

\* The predicate passes a first artifact and a new revision on, and drops creations: a
\* source that appears with its artifact is news to nobody.
Announced(old, new) == old # Missing /\ new \in Revisions \ {old}

SourceChanges(source) ==
  /\ Event
  /\ \E new \in SourceStates \ {sources[source]} :
       /\ <<source, sources[source], new>> \in SourceMoves
       /\ sources' = [sources EXCEPT ![source] = new]
       /\ Enqueue(IF Announced(sources[source], new)
                    THEN RequestsForRevisionChangeOf(source, new) ELSE {})
  /\ UNCHANGED <<server, cached, local, stacks>>

-----------------------------------------------------------------------------
(* A reconcile.                                                             *)

At(o, p) == local[o].pc = p

Running == {o \in Objects : ~At(o, "idle")}

Inside == UNCHANGED <<server, cached, sources, queue, stacks, events>>

\* A mutant: a reconcile asks for another one when its object is not ready.
ReturnUntilReady(o) ==
  /\ local' = [local EXCEPT ![o] = Idle(o)]
  /\ delayed' = delayed \cup ({x \in {o} : local[x].status.ready # "True"} \ queued)
  /\ UNCHANGED queued

\* Every return asks for another reconcile: after the dependency interval, the poll
\* or retry interval, the interval, or with backoff.
Return(o) ==
  /\ local' = [local EXCEPT ![o] = Idle(o)]
  /\ delayed' = delayed \cup ({o} \ queued)
  /\ UNCHANGED queued

\* The status functions: an empty revision leaves the last one.
WithReadiness(s, gen, ready, revision) ==
  [s EXCEPT !.ready = ready, !.readyGeneration = gen, !.observedGeneration = gen,
            !.lastAttemptedRevision = IF revision = NoRevision THEN @ ELSE revision]

Report(o, ready, revision) ==
  local' = [local EXCEPT ![o].pc = "patch",
                         ![o].status = WithReadiness(@, local[o].obj.gen, ready, revision)]

Patch(o, new) ==
  /\ \E s \in Patched(status[o], cached.status[o], new) : status' = [status EXCEPT ![o] = s]
  /\ UNCHANGED objs

Start(o) ==
  /\ o \in queued /\ At(o, "idle") /\ Cardinality(Running) < Workers
  /\ queued' = queued \ {o}
  /\ LET obj == cached.objs[o]
         s == cached.status[o]
     IN local' = IF ~Exists(obj) THEN local
                 ELSE [local EXCEPT ![o].pc = IF s.observedGeneration # obj.gen
                                                THEN "observe" ELSE "source",
                                    ![o].obj = obj, ![o].status = s]
  /\ UNCHANGED <<server, cached, sources, delayed, stacks, events>>

ObserveGeneration(o) ==
  /\ At(o, "observe")
  /\ LET s == WithReadiness(local[o].status, local[o].obj.gen, "Unknown", NoRevision)
     IN Patch(o, s) /\ local' = [local EXCEPT ![o].pc = "source", ![o].status = s]
  /\ UNCHANGED <<cached, sources, queue, stacks, events>>

\* No such source, none that may be referred to, or none with an artifact: the
\* object is not ready, and no revision is recorded.
ResolveSource(o) ==
  /\ At(o, "source")
  /\ LET spec == local[o].obj.spec
     IN \/ ~Readable(o, spec) /\ Report(o, "False", NoRevision)
        \/ /\ Readable(o, spec)
           /\ local' = [local EXCEPT ![o].pc = IF spec.dependsOn = <<>> THEN "deploy" ELSE "check",
                                     ![o].revision = sources[SourceOf(o, spec)]]
  /\ Inside

\* A mutant: a dependency that does not exist is no obstacle.
DependencyReadyOrMissing(d) ==
  d \in Objects /\ Exists(cached.objs[d]) => cached.status[d].ready = "True"

\* A mutant: a dependency is an obstacle only once it has failed.
DependencyNotFailed(d) ==
  /\ d \in Objects /\ Exists(cached.objs[d])
  /\ cached.status[d].observedGeneration = cached.objs[d].gen
  /\ cached.status[d].ready # "False"

DependencyReady(d) ==
  /\ d \in Objects /\ Exists(cached.objs[d])
  /\ cached.status[d].ready # "none"
  /\ cached.status[d].observedGeneration = cached.objs[d].gen
  /\ cached.status[d].ready = "True"

\* checkDependencies, one cached read after another.
CheckDependency(o) ==
  /\ At(o, "check")
  /\ LET next == local[o].next
         spec == local[o].obj.spec
     IN \/ /\ DependencyReady(Dependency(o, spec, next))
           /\ local' = IF next < Len(spec.dependsOn) THEN [local EXCEPT ![o].next = @ + 1]
                       ELSE [local EXCEPT ![o].pc = "deploy"]
        \/ /\ ~DependencyReady(Dependency(o, spec, next))
           /\ Report(o, "False", local[o].revision)
  /\ Inside

Wanted(o) == [gen |-> local[o].obj.gen, revision |-> local[o].revision]

\* A mutant: the change set's name holds the generation only.
UpToDateGeneration(o) == stacks[o].content.gen = Wanted(o).gen

UpToDate(o) == stacks[o].content = Wanted(o)

\* A mutant: failed updates are cleaned up too.
FailedAtAll(o) == stacks[o].status = "failed"

\* RequiresCleanup: a stack whose creation failed.
Unrecoverable(o) == stacks[o].status = "failed" /\ stacks[o].content = NoContent

\* The change set that failed is the one that is wanted.
HasFailed(o) ==
  stacks[o].status = "failed" /\ stacks[o].content # NoContent /\ stacks[o].target = Wanted(o)

\* All that reconcileStack does: wait for a stack that is changing, delete one that cannot
\* be updated, delete the change set that failed, be content with a stack that holds what
\* is wanted (which records no new attempt), or start to change it.
Deploy(o) ==
  /\ At(o, "deploy")
  /\ LET busy == stacks[o].status \in {"changing", "deleting"}
         ready == ~busy /\ ~Unrecoverable(o) /\ ~HasFailed(o)
     IN \/ /\ busy
           /\ Report(o, "Unknown", local[o].revision) /\ UNCHANGED stacks
        \/ /\ Unrecoverable(o)
           /\ Report(o, "False", local[o].revision)
           /\ stacks' = [stacks EXCEPT ![o].status = "deleting"]
        \/ /\ HasFailed(o)
           /\ Report(o, "False", local[o].revision)
           /\ stacks' = [stacks EXCEPT ![o].status = "steady"]
        \/ /\ ready /\ UpToDate(o)
           /\ Report(o, "True", NoRevision) /\ UNCHANGED stacks
        \/ /\ ready /\ ~UpToDate(o)
           /\ Report(o, "Unknown", local[o].revision)
           /\ stacks' = [stacks EXCEPT ![o].status = "changing", ![o].target = Wanted(o)]
  /\ UNCHANGED <<server, cached, sources, queue, events>>

PatchStatus(o) ==
  /\ At(o, "patch")
  /\ Patch(o, local[o].status) /\ Return(o)
  /\ UNCHANGED <<cached, sources, stacks, events>>

Step(o) ==
  \/ ObserveGeneration(o) \/ ResolveSource(o) \/ CheckDependency(o) \/ Deploy(o)
  \/ PatchStatus(o)

-----------------------------------------------------------------------------
(* Queue, informer, users, stacks.                                          *)

TimerFires(o) ==
  /\ o \in delayed
  /\ Enqueue({o})
  /\ UNCHANGED <<server, cached, sources, local, stacks, events>>

\* One watch delivers what was written to all objects; creations and new generations
\* pass its filter.
CacheSync ==
  /\ cached # [objs |-> objs, status |-> status]
  /\ cached' = [objs |-> objs, status |-> status]
  /\ Enqueue({o \in Objects : objs[o].gen # cached.objs[o].gen})
  /\ UNCHANGED <<server, sources, local, stacks, events>>

Written(o) == IF Exists(objs[o]) THEN objs[o].spec ELSE NoSpec

WriteSpec(o) ==
  /\ Event /\ objs[o].gen < MaxGeneration
  /\ \E spec \in UserSpecs[o] :
       /\ <<o, Written(o), spec>> \in UserWrites /\ spec # Written(o)
       /\ objs' = [objs EXCEPT ![o] = [gen |-> @.gen + 1, spec |-> spec]]
  /\ UNCHANGED <<status, cached, sources, queue, local, stacks>>

StackSettles(o) ==
  /\ stacks[o].status = "changing" /\ <<o, stacks[o].target.revision>> \notin Broken
  /\ stacks' = [stacks EXCEPT ![o].status = "steady", ![o].content = stacks[o].target]
  /\ UNCHANGED <<server, cached, sources, queue, local, events>>

StackIsDeleted(o) ==
  /\ stacks[o].status = "deleting"
  /\ stacks' = [stacks EXCEPT ![o].status = "steady"]
  /\ UNCHANGED <<server, cached, sources, queue, local, events>>

StackFails(o) ==
  /\ stacks[o].status = "changing" /\ <<o, stacks[o].target.revision>> \in Broken
  /\ stacks' = [stacks EXCEPT ![o].status = "failed"]
  /\ UNCHANGED <<server, cached, sources, queue, local, events>>

Next ==
  \/ \E o \in Objects :
       \/ Start(o) \/ Step(o) \/ TimerFires(o) \/ WriteSpec(o)
       \/ StackSettles(o) \/ StackFails(o) \/ StackIsDeleted(o)
  \/ \E source \in Sources : SourceChanges(source)
  \/ CacheSync

Spec == Init /\ [][Next]_vars

\* Workers go on, the queue is first in first out, timers fire, the watch delivers,
\* CloudFormation finishes.
Fairness ==
  /\ \A o \in Objects : SF_vars(Start(o)) /\ WF_vars(Step(o)) /\ WF_vars(TimerFires(o))
                        /\ WF_vars(StackSettles(o) \/ StackFails(o) \/ StackIsDeleted(o))
  /\ WF_vars(CacheSync)

FairSpec == Spec /\ Fairness

-----------------------------------------------------------------------------
(* Properties.                                                              *)

WasDeployed(o) == o \in Objects /\ stacks[o].content # NoContent

\* Nobody goes first: whatever was edited, whatever copies were read, a stack is only
\* ever worked on when each object its reconcile found in dependsOn has been deployed.
DependenciesGoFirst ==
  [][ \A o \in Objects : stacks[o].status # "changing" /\ stacks'[o].status = "changing"
        => \A d \in DependenciesOf(o, local[o].obj.spec) : WasDeployed(d) ]_vars

\* Objects each of which depends on one of them, and always has: generation 1 is
\* what a user created.
Entangled(ring) ==
  \A o \in ring : objs[o].gen = 1 /\ DependenciesOf(o, objs[o].spec) \cap ring # {}

\* Such objects wait for each other: no stack of theirs is ever worked on.
EntangledNeverStart ==
  \A ring \in SUBSET Objects : Entangled(ring) =>
    \A o \in ring : stacks[o] = [status |-> "steady", content |-> NoContent, target |-> NoContent]

\* An edit and an event that come at the wrong moment are not lost: a reconcile works
\* for its object as it is, or the object is queued, or the watch has yet to deliver it;
\* and while no reconcile runs for an object, another one is to come.
NobodyIsForgotten ==
  \A o \in Objects : Exists(objs[o]) =>
    \/ o \in queued \/ objs[o].gen # cached.objs[o].gen
    \/ IF At(o, "idle") THEN o \in delayed ELSE local[o].obj = objs[o]

\* Who reads from an existing source hears of its new revision: the key an object is indexed
\* under is the one it is going to read, however its reference is written.  Only a ring
\* among those who should hear keeps the news from them.
ReadersHear ==
  [][ \A source \in Sources :
        sources[source] # Missing /\ sources'[source] \in Revisions \ {sources[source]} =>
        LET late == {o \in Objects :
                       /\ Exists(cached.objs[o]) /\ SourceOf(o, cached.objs[o].spec) = source
                       /\ cached.status[o].lastAttemptedRevision # sources'[source]}
        IN late \subseteq queued' \/ Circular(late) ]_vars

\* The objects that cannot be deployed as things are: without source, broken, or
\* waiting for one that cannot.
Stuck ==
  LET hopeless ==
        {o \in Objects :
           \/ ~Exists(objs[o]) \/ ~Readable(o, objs[o].spec)
           \/ <<o, sources[SourceOf(o, objs[o].spec)]>> \in Broken}
      Waiting(o, others) ==
        \E d \in DependenciesOf(o, objs[o].spec) : d \notin Objects \/ d \in others
  IN UNION {others \in SUBSET Objects : \A o \in others : o \in hopeless \/ Waiting(o, others)}

\* All others end up with their last generation at the last revision, whatever events
\* were dropped, and in whatever order objects were written and became ready.
OthersConverge ==
  <>[](LET others == Objects \ Stuck
       IN \A o \in others :
            stacks[o].content = [gen |-> objs[o].gen,
                                 revision |-> sources[SourceOf(o, objs[o].spec)]])

==============================================================================
