-------------------------- MODULE DependenciesProofs --------------------------
(***************************************************************************)
(* Theorems about Dependencies, for every value of its constants: any      *)
(* number of objects, sources and workers.                                 *)
(***************************************************************************)
EXTENDS DependenciesRefinement, TLAPS

Objs == [gen : 0..MaxGeneration, spec : Specs]

Stacks == [status : {"steady", "changing", "failed", "deleting"},
           content : Contents \cup {NoContent}, target : Contents \cup {NoContent}]

\* A reconcile has read an object that exists, and a revision before it needs one;
\* what is being deployed is something.
ReadingInv ==
  \A o \in Objects :
    /\ ~At(o, "idle") => Exists(local[o].obj)
    /\ At(o, "check") \/ At(o, "deploy") => local[o].revision \in Revisions
    /\ At(o, "idle") \/ At(o, "observe") \/ At(o, "source") => local[o].next = 1
    /\ At(o, "check") => local[o].next \in 1..Len(local[o].obj.spec.dependsOn)
    /\ stacks[o].status = "changing" => stacks[o].target \in Contents

TypeInv == TypeOK /\ ReadingInv

-----------------------------------------------------------------------------
(* What the operators return.                                               *)

LEMMA AbsentType ==
  ASSUME NEW o \in Objects
  PROVE  /\ Absent(o) \in Objs /\ Absent(o).gen = 0
         /\ Idle(o) \in Locals /\ Idle(o).pc = "idle" /\ Idle(o).status.ready = "none"
         /\ Idle(o).next = 1 /\ EmptyStatus \in Statuses /\ EmptyStatus.ready = "none"
<1>1. \E s \in UserSpecs[o] : TRUE
  BY DependencyConstants
<1>2. (CHOOSE s \in UserSpecs[o] : TRUE) \in UserSpecs[o]
  BY <1>1
<1>3. (CHOOSE s \in UserSpecs[o] : TRUE) \in Specs
  BY <1>2, DependencyConstants
<1>4. 0 \in 0..MaxGeneration
  BY DependencyConstants
<1>5. EmptyStatus \in Statuses /\ EmptyStatus.ready = "none"
  BY <1>4 DEF EmptyStatus, Statuses, Conditions
<1>6. Idle(o) \in Locals
  BY <1>3, <1>4, <1>5 DEF Idle, Locals, PCs
<1>7. QED
  BY <1>3, <1>4, <1>5, <1>6 DEF Idle, Absent, Objs

LEMMA ReadinessType ==
  ASSUME NEW s \in Statuses, NEW gen \in 0..MaxGeneration, NEW ready \in Conditions,
         NEW revision \in Revisions \cup {NoRevision}
  PROVE  /\ WithReadiness(s, gen, ready, revision) \in Statuses
         /\ WithReadiness(s, gen, ready, revision).ready = ready
BY DEF WithReadiness, Statuses

\* The Ready condition of a patched status is the one sent or the one there was.
LEMMA PatchedType ==
  ASSUME NEW live \in Statuses, NEW base \in Statuses, NEW new \in Statuses,
         NEW s \in Patched(live, base, new)
  PROVE  s \in Statuses /\ s.ready \in {new.ready, live.ready}
<1>1. PICK condition \in {new, live} :
        s = [f \in DOMAIN live |-> IF f \in ConditionFields THEN condition[f]
                                   ELSE IF new[f] # base[f] THEN new[f] ELSE live[f]]
  BY DEF Patched
<1>2. condition \in Statuses
  BY <1>1
<1>3. s \in Statuses
  BY <1>1, <1>2 DEF Statuses, ConditionFields
<1>4. s.ready = condition.ready
  BY <1>1 DEF Statuses, ConditionFields
<1>5. QED
  BY <1>1, <1>3, <1>4

\* What a step does to its own reconcile.
LEMMA ReportEffect ==
  ASSUME TypeInv, NEW o \in Objects, NEW ready \in Conditions,
         NEW revision \in Revisions \cup {NoRevision}, Report(o, ready, revision)
  PROVE  /\ local' \in [Objects -> Locals]
         /\ local'[o].pc = "patch" /\ local'[o].obj = local[o].obj
         /\ local'[o].status.ready = ready
         /\ \A p \in Objects \ {o} : local'[p] = local[p]
<1> DEFINE s == WithReadiness(local[o].status, local[o].obj.gen, ready, revision)
<1>1. local[o] \in Locals
  BY DEF TypeInv, TypeOK
<1>2. s \in Statuses /\ s.ready = ready
  BY <1>1, ReadinessType DEF Locals
<1> HIDE DEF s
<1>3. local' = [local EXCEPT ![o].pc = "patch", ![o].status = s]
  BY DEF Report, s
<1>4. QED
  BY <1>1, <1>2, <1>3 DEF TypeInv, TypeOK, Locals, PCs

LEMMA PatchEffect ==
  ASSUME TypeInv, NEW o \in Objects, NEW new \in Statuses, Patch(o, new)
  PROVE  /\ status' \in [Objects -> Statuses] /\ objs' = objs
         /\ status'[o].ready \in {new.ready, status[o].ready}
         /\ \A p \in Objects \ {o} : status'[p] = status[p]
<1>1. PICK s \in Patched(status[o], cached.status[o], new) : status' = [status EXCEPT ![o] = s]
  BY DEF Patch
<1>2. status[o] \in Statuses /\ cached.status[o] \in Statuses
  BY DEF TypeInv, TypeOK
<1>3. s \in Statuses /\ s.ready \in {new.ready, status[o].ready}
  BY <1>2, PatchedType
<1>4. QED
  BY <1>1, <1>3 DEF Patch, TypeInv, TypeOK

LEMMA ReturnEffect ==
  ASSUME TypeInv, NEW o \in Objects, Return(o)
  PROVE  /\ local' \in [Objects -> Locals] /\ local'[o] = Idle(o)
         /\ \A p \in Objects \ {o} : local'[p] = local[p]
         /\ queued' \subseteq Objects /\ delayed' \subseteq Objects
BY AbsentType DEF Return, TypeInv, TypeOK

LEMMA EnqueueEffect ==
  ASSUME TypeInv, NEW keys \in SUBSET Objects, Enqueue(keys)
  PROVE  queued' \subseteq Objects /\ delayed' \subseteq Objects
BY DEF Enqueue, TypeInv, TypeOK

LEMMA RequestsAreObjects ==
  ASSUME NEW source, NEW revision
  PROVE  RequestsForRevisionChangeOf(source, revision) \subseteq Objects
BY DEF RequestsForRevisionChangeOf, RevisionRequested

-----------------------------------------------------------------------------
(* Types.                                                                   *)

LEMMA TypeInvInit == Init => TypeInv
<1> SUFFICES ASSUME Init PROVE TypeInv
  OBVIOUS
<1>1. PICK initial \in InitialSpecs :
        objs = [o \in Objects |-> IF o \in DOMAIN initial THEN [gen |-> 1, spec |-> initial[o]]
                                  ELSE Absent(o)]
  BY DEF Init
<1>2. objs \in [Objects -> Objs]
  <2> SUFFICES ASSUME NEW o \in Objects PROVE objs[o] \in Objs
    BY <1>1
  <2>1. CASE o \in DOMAIN initial
    <3>1. initial[o] \in Specs /\ 1 \in 0..MaxGeneration
      BY <2>1, DependencyConstants
    <3>2. QED
      BY <1>1, <2>1, <3>1 DEF Objs
  <2>2. CASE o \notin DOMAIN initial
    BY <1>1, <2>2, AbsentType
  <2>3. QED
    BY <2>1, <2>2
<1>3. status \in [Objects -> Statuses] /\ local \in [Objects -> Locals]
  BY AbsentType DEF Init
<1>4. cached \in [objs : [Objects -> Objs], status : [Objects -> Statuses]]
  BY <1>2, <1>3 DEF Init
<1>5. stacks \in [Objects -> Stacks]
  BY DEF Init, Stacks
<1>6. events \in 0..MaxEvents /\ sources \in [Sources -> SourceStates]
  BY DependencyConstants DEF Init
<1>7. TypeOK
  BY <1>2, <1>3, <1>4, <1>5, <1>6 DEF Init, TypeOK, Objs, Stacks
<1>8. ReadingInv
  BY AbsentType DEF Init, ReadingInv, At
<1>9. QED
  BY <1>7, <1>8 DEF TypeInv

\* A reconcile's step.
LEMMA ReconcileKeepsTypes ==
  ASSUME TypeInv, NEW o \in Objects, Start(o) \/ Step(o)
  PROVE  TypeInv'
<1> USE DEF TypeInv
<1>0. /\ local[o] \in Locals /\ status[o] \in Statuses /\ stacks[o] \in Stacks
      /\ cached.objs[o] \in Objs /\ cached.status[o] \in Statuses
      /\ cached.objs \in [Objects -> Objs] /\ cached.status \in [Objects -> Statuses]
  BY DEF TypeOK, Objs, Stacks
<1>1. CASE Start(o)
  <2>1. CASE ~Exists(cached.objs[o])
    BY <1>1, <2>1 DEF Start, TypeOK, ReadingInv, At, server
  <2>2. CASE Exists(cached.objs[o])
    <3> DEFINE p == IF cached.status[o].observedGeneration # cached.objs[o].gen
                      THEN "observe" ELSE "source"
    <3>1. local' = [local EXCEPT ![o].pc = p, ![o].obj = cached.objs[o],
                                 ![o].status = cached.status[o]]
      BY <1>1, <2>2 DEF Start
    <3>2. p \in {"observe", "source"}
      OBVIOUS
    <3> HIDE DEF p
    <3>3. /\ local' \in [Objects -> Locals] /\ local'[o].pc = p /\ local'[o].obj = cached.objs[o]
          /\ local'[o].next = local[o].next
          /\ \A q \in Objects \ {o} : local'[q] = local[q]
      BY <1>0, <3>1, <3>2 DEF TypeOK, Locals, PCs, Objs
    <3>4. TypeOK'
      BY <1>1, <3>3 DEF Start, TypeOK, server
    <3>5. ReadingInv'
      BY <1>1, <2>2, <3>2, <3>3 DEF Start, ReadingInv, At, Exists
    <3>6. QED
      BY <3>4, <3>5
  <2>3. QED
    BY <2>1, <2>2
<1>2. CASE ObserveGeneration(o)
  <2> DEFINE s == WithReadiness(local[o].status, local[o].obj.gen, "Unknown", NoRevision)
  <2>1. Patch(o, s) /\ local' = [local EXCEPT ![o].pc = "source", ![o].status = s]
    BY <1>2 DEF ObserveGeneration
  <2>2. s \in Statuses
    BY <1>0, ReadinessType DEF Locals, Conditions
  <2> HIDE DEF s
  <2>3. /\ local' \in [Objects -> Locals] /\ local'[o].pc = "source" /\ local'[o].obj = local[o].obj
        /\ local'[o].next = local[o].next
        /\ \A q \in Objects \ {o} : local'[q] = local[q]
    BY <1>0, <2>1, <2>2 DEF TypeOK, Locals, PCs
  <2>4. status' \in [Objects -> Statuses] /\ objs' = objs
    BY <2>1, <2>2, PatchEffect
  <2>5. QED
    BY <1>2, <2>3, <2>4 DEF ObserveGeneration, TypeOK, ReadingInv, At, queue
<1>3. CASE ResolveSource(o)
  <2>1. UNCHANGED <<objs, status, cached, sources, queued, delayed, stacks, events>>
    BY <1>3 DEF ResolveSource, Inside, server, queue
  <2>2. CASE Report(o, "False", NoRevision)
    <3>1. /\ local' \in [Objects -> Locals] /\ local'[o].pc = "patch"
          /\ local'[o].obj = local[o].obj /\ \A q \in Objects \ {o} : local'[q] = local[q]
      BY <2>2, ReportEffect DEF Conditions
    <3>2. local[o].pc = "source"
      BY <1>3 DEF ResolveSource, At
    <3>3. TypeOK'
      BY <2>1, <3>1 DEF TypeOK
    <3>4. ReadingInv'
      BY <2>1, <3>1, <3>2 DEF ReadingInv, At
    <3>5. QED
      BY <3>3, <3>4
  <2>3. CASE ~Report(o, "False", NoRevision)
    <3> DEFINE spec == local[o].obj.spec
               p == IF spec.dependsOn = <<>> THEN "deploy" ELSE "check"
               revision == sources[SourceOf(o, spec)]
    <3>1. /\ local' = [local EXCEPT ![o].pc = p, ![o].revision = revision]
          /\ Readable(o, spec)
      BY <1>3, <2>3 DEF ResolveSource
    <3>2. revision \in Revisions
      BY <3>1 DEF Readable
    <3>3. p \in {"check", "deploy"} /\ (p = "check" => spec.dependsOn # <<>>)
      OBVIOUS
    <3>4. spec.dependsOn \in Seq(References)
      BY <1>0 DEF Locals, Specs
    <3> HIDE DEF p, revision
    <3>5. /\ local' \in [Objects -> Locals] /\ local'[o].pc = p /\ local'[o].obj = local[o].obj
          /\ local'[o].revision = revision /\ local'[o].next = local[o].next
          /\ \A q \in Objects \ {o} : local'[q] = local[q]
      BY <1>0, <3>1, <3>2, <3>3 DEF TypeOK, Locals, PCs
    <3>6. TypeOK'
      BY <2>1, <3>5 DEF TypeOK
    <3>7. local[o].next = 1 /\ Exists(local[o].obj)
      BY <1>3 DEF ResolveSource, ReadingInv, At
    <3>8. Len(spec.dependsOn) \in Nat /\ (p = "check" => Len(spec.dependsOn) # 0)
      BY <3>3, <3>4
    <3>9. ReadingInv'
      BY <2>1, <3>2, <3>3, <3>5, <3>7, <3>8 DEF ReadingInv, At
    <3>10. QED
      BY <3>6, <3>9
  <2>4. QED
    BY <2>2, <2>3
<1>4. CASE CheckDependency(o)
  <2> DEFINE spec == local[o].obj.spec
             next == local[o].next
  <2>1. UNCHANGED <<objs, status, cached, sources, queued, delayed, stacks, events>>
    BY <1>4 DEF CheckDependency, Inside, server, queue
  <2>2. /\ local[o].revision \in Revisions /\ next \in 1..Len(spec.dependsOn)
        /\ spec.dependsOn \in Seq(References)
    BY <1>0, <1>4 DEF CheckDependency, ReadingInv, At, Locals, Specs
  <2>3. CASE Report(o, "False", local[o].revision)
    <3>1. /\ local' \in [Objects -> Locals] /\ local'[o].pc = "patch"
          /\ local'[o].obj = local[o].obj /\ \A q \in Objects \ {o} : local'[q] = local[q]
      BY <2>2, <2>3, ReportEffect DEF Conditions
    <3>2. QED
      BY <1>4, <2>1, <3>1 DEF CheckDependency, TypeOK, ReadingInv, At
  <2>4. CASE next < Len(spec.dependsOn) /\ local' = [local EXCEPT ![o].next = @ + 1]
    <3>1. /\ local' \in [Objects -> Locals] /\ local'[o].pc = "check" /\ local'[o].obj = local[o].obj
          /\ local'[o].revision = local[o].revision /\ local'[o].next = next + 1
          /\ \A q \in Objects \ {o} : local'[q] = local[q]
      <4>1. local[o].pc = "check" /\ local[o].next + 1 \in Nat
        BY <1>0, <1>4 DEF CheckDependency, At, Locals
      <4>2. QED
        BY <1>0, <2>4, <4>1 DEF TypeOK, Locals
    <3>2. next + 1 \in 1..Len(spec.dependsOn)
      BY <2>2, <2>4
    <3>3. TypeOK'
      BY <2>1, <3>1 DEF TypeOK
    <3>4. ReadingInv'
      BY <1>4, <2>1, <2>2, <3>1, <3>2 DEF CheckDependency, ReadingInv, At
    <3>5. QED
      BY <3>3, <3>4
  <2>5. CASE local' = [local EXCEPT ![o].pc = "deploy"]
    <3>1. /\ local' \in [Objects -> Locals] /\ local'[o].pc = "deploy" /\ local'[o].obj = local[o].obj
          /\ local'[o].revision = local[o].revision
          /\ \A q \in Objects \ {o} : local'[q] = local[q]
      BY <1>0, <2>5 DEF TypeOK, Locals, PCs
    <3>2. TypeOK'
      BY <2>1, <3>1 DEF TypeOK
    <3>3. ReadingInv'
      BY <1>4, <2>1, <2>2, <3>1 DEF CheckDependency, ReadingInv, At
    <3>4. QED
      BY <3>2, <3>3
  <2>6. QED
    BY <1>4, <2>3, <2>4, <2>5 DEF CheckDependency
<1>5. CASE Deploy(o)
  <2> DEFINE ready == local'[o].status.ready
  <2>1. UNCHANGED <<objs, status, cached, sources, queued, delayed, events>>
    BY <1>5 DEF Deploy, server, queue
  <2>2. local[o].revision \in Revisions /\ local[o].obj.gen \in 1..MaxGeneration
    BY <1>0, <1>5, DependencyConstants DEF Deploy, ReadingInv, At, Exists, Locals
  <2>3. \E r \in Conditions, revision \in {local[o].revision, NoRevision} : Report(o, r, revision)
    BY <1>5 DEF Deploy, Conditions
  <2>4. /\ local' \in [Objects -> Locals] /\ local'[o].pc = "patch"
        /\ local'[o].obj = local[o].obj /\ \A q \in Objects \ {o} : local'[q] = local[q]
    BY <2>2, <2>3, ReportEffect
  <2>5. Wanted(o) \in Contents
    BY <2>2 DEF Wanted, Contents
  <2>6. /\ stacks' \in [Objects -> Stacks] /\ \A q \in Objects \ {o} : stacks'[q] = stacks[q]
        /\ stacks'[o].status = "changing" => stacks'[o].target \in Contents
    <3>1. stacks \in [Objects -> Stacks]
      BY DEF TypeOK, Stacks
    <3>2. CASE UNCHANGED stacks
      BY <3>1, <3>2 DEF ReadingInv
    <3>3. CASE \/ stacks' = [stacks EXCEPT ![o].status = "steady"]
               \/ stacks' = [stacks EXCEPT ![o].status = "deleting"]
      BY <1>0, <3>1, <3>3 DEF Stacks
    <3>4. CASE stacks' = [stacks EXCEPT ![o].status = "changing", ![o].target = Wanted(o)]
      <4> DEFINE target == Wanted(o)
      <4> HIDE DEF target
      <4>1. stacks' = [stacks EXCEPT ![o].status = "changing", ![o].target = target]
        BY <3>4 DEF target
      <4>2. target \in Contents
        BY <2>5 DEF target
      <4>3. QED
        BY <1>0, <3>1, <4>1, <4>2 DEF Stacks
    <3>5. QED
      BY <1>5, <3>2, <3>3, <3>4 DEF Deploy
  <2>7. TypeOK'
    BY <2>1, <2>4, <2>6 DEF TypeOK, Stacks
  <2>8. ReadingInv'
    BY <1>5, <2>4, <2>6 DEF Deploy, ReadingInv, At
  <2>9. QED
    BY <2>7, <2>8
<1>6. CASE PatchStatus(o)
  <2>1. /\ local' \in [Objects -> Locals] /\ local'[o] = Idle(o)
        /\ \A p \in Objects \ {o} : local'[p] = local[p]
        /\ queued' \subseteq Objects /\ delayed' \subseteq Objects
    BY <1>6, ReturnEffect DEF PatchStatus
  <2>2. local[o].status \in Statuses
    BY <1>0 DEF Locals
  <2>3. status' \in [Objects -> Statuses] /\ objs' = objs
    BY <1>6, <2>2, PatchEffect DEF PatchStatus
  <2>4. TypeOK'
    BY <1>6, <2>1, <2>3 DEF PatchStatus, TypeOK
  <2>5. ReadingInv'
    BY <1>6, <2>1, AbsentType DEF PatchStatus, ReadingInv, At
  <2>6. QED
    BY <2>4, <2>5
<1>7. QED
  BY <1>1, <1>2, <1>3, <1>4, <1>5, <1>6 DEF Step

\* What happens around the reconciles.
LEMMA SurroundingsKeepTypes ==
  ASSUME TypeInv,
         \/ \E o \in Objects : \/ TimerFires(o) \/ WriteSpec(o)
                              \/ StackSettles(o) \/ StackFails(o) \/ StackIsDeleted(o)
         \/ \E source \in Sources : SourceChanges(source)
         \/ CacheSync
  PROVE  TypeInv'
<1> USE DEF TypeInv
<1>1. ASSUME NEW o \in Objects, TimerFires(o) PROVE TypeInv'
  <2>1. queued' \subseteq Objects /\ delayed' \subseteq Objects
    BY <1>1, EnqueueEffect DEF TimerFires
  <2>2. QED
    BY <1>1, <2>1 DEF TimerFires, TypeOK, ReadingInv, At, server
<1>2. ASSUME NEW o \in Objects, WriteSpec(o) PROVE TypeInv'
  <2>1. PICK spec \in UserSpecs[o] : objs' = [objs EXCEPT ![o] = [gen |-> @.gen + 1, spec |-> spec]]
    BY <1>2 DEF WriteSpec
  <2>2. spec \in Specs /\ objs[o].gen + 1 \in 0..MaxGeneration
    <3>1. spec \in Specs
      BY <2>1, DependencyConstants
    <3>2. objs[o].gen \in 0..MaxGeneration /\ objs[o].gen < MaxGeneration
      BY <1>2 DEF WriteSpec, TypeOK
    <3>3. QED
      BY <3>1, <3>2, DependencyConstants
  <2>3. objs' \in [Objects -> [gen : 0..MaxGeneration, spec : Specs]]
    BY <2>1, <2>2 DEF TypeOK
  <2>4. events' \in 0..MaxEvents
    BY <1>2, DependencyConstants DEF WriteSpec, Event, TypeOK
  <2>5. QED
    BY <1>2, <2>3, <2>4 DEF WriteSpec, TypeOK, ReadingInv, At, queue
<1>3. ASSUME NEW o \in Objects, StackSettles(o) \/ StackFails(o) \/ StackIsDeleted(o) PROVE TypeInv'
  <2>1. stacks \in [Objects -> Stacks] /\ stacks[o] \in Stacks
    BY DEF TypeOK, Stacks
  <2>2. \E s \in Stacks : stacks' = [stacks EXCEPT ![o] = s] /\ s.status # "changing"
    <3>1. CASE StackSettles(o)
      <4>1. stacks' = [stacks EXCEPT ![o] = [stacks[o] EXCEPT !.status = "steady",
                                                             !.content = stacks[o].target]]
        BY <3>1, <2>1 DEF StackSettles, Stacks
      <4>2. [stacks[o] EXCEPT !.status = "steady", !.content = stacks[o].target] \in Stacks
        BY <2>1 DEF Stacks
      <4>3. [stacks[o] EXCEPT !.status = "steady", !.content = stacks[o].target].status = "steady"
        BY <2>1 DEF Stacks
      <4>4. QED
        BY <4>1, <4>2, <4>3
    <3>2. CASE StackFails(o)
      <4>1. stacks' = [stacks EXCEPT ![o] = [stacks[o] EXCEPT !.status = "failed"]]
        BY <3>2, <2>1 DEF StackFails, Stacks
      <4>2. [stacks[o] EXCEPT !.status = "failed"] \in Stacks
        BY <2>1 DEF Stacks
      <4>3. [stacks[o] EXCEPT !.status = "failed"].status = "failed"
        BY <2>1 DEF Stacks
      <4>4. QED
        BY <4>1, <4>2, <4>3
    <3>3. CASE StackIsDeleted(o)
      <4>1. stacks' = [stacks EXCEPT ![o] = [stacks[o] EXCEPT !.status = "steady"]]
        BY <3>3, <2>1 DEF StackIsDeleted, Stacks
      <4>2. /\ [stacks[o] EXCEPT !.status = "steady"] \in Stacks
            /\ [stacks[o] EXCEPT !.status = "steady"].status = "steady"
        BY <2>1 DEF Stacks
      <4>3. QED
        BY <4>1, <4>2
    <3>4. QED
      BY <1>3, <3>1, <3>2, <3>3
  <2>3. /\ stacks' \in [Objects -> Stacks] /\ stacks'[o].status # "changing"
        /\ \A q \in Objects \ {o} : stacks'[q] = stacks[q]
    BY <2>1, <2>2
  <2>4. UNCHANGED <<objs, status, cached, sources, queued, delayed, local, events>>
    BY <1>3 DEF StackSettles, StackFails, StackIsDeleted, server, queue
  <2>5. TypeOK'
    BY <2>3, <2>4 DEF TypeOK, Stacks
  <2>6. ReadingInv'
    BY <2>3, <2>4 DEF ReadingInv, At
  <2>7. QED
    BY <2>5, <2>6
<1>4. ASSUME NEW source \in Sources, SourceChanges(source) PROVE TypeInv'
  <2>1. PICK new \in SourceStates :
          /\ sources' = [sources EXCEPT ![source] = new]
          /\ Enqueue(IF Announced(sources[source], new)
                       THEN RequestsForRevisionChangeOf(source, new) ELSE {})
    BY <1>4 DEF SourceChanges
  <2>2. queued' \subseteq Objects /\ delayed' \subseteq Objects
    BY <2>1, RequestsAreObjects, EnqueueEffect
  <2>3. sources' \in [Sources -> SourceStates]
    BY <2>1 DEF TypeOK
  <2>4. events' \in 0..MaxEvents
    BY <1>4, DependencyConstants DEF SourceChanges, Event, TypeOK
  <2>5. QED
    BY <1>4, <2>2, <2>3, <2>4 DEF SourceChanges, TypeOK, ReadingInv, At, server
<1>5. CASE CacheSync
  <2>1. queued' \subseteq Objects /\ delayed' \subseteq Objects
    BY <1>5, EnqueueEffect DEF CacheSync
  <2>2. cached' \in [objs : [Objects -> Objs], status : [Objects -> Statuses]]
    BY <1>5 DEF CacheSync, TypeOK, Objs
  <2>3. QED
    BY <1>5, <2>1, <2>2 DEF CacheSync, TypeOK, Objs, ReadingInv, At, server
<1>6. QED
  BY <1>1, <1>2, <1>3, <1>4, <1>5

\* Types are kept, by any number of objects, sources and workers.
THEOREM TypeCorrectness == Spec => []TypeInv
<1>1. TypeInv /\ [Next]_vars => TypeInv'
  <2> SUFFICES ASSUME TypeInv, [Next]_vars PROVE TypeInv'
    OBVIOUS
  <2>1. CASE UNCHANGED vars
    BY <2>1 DEF vars, TypeInv, TypeOK, ReadingInv, At
  <2>2. CASE Next
    BY <2>2, ReconcileKeepsTypes, SurroundingsKeepTypes DEF Next
  <2>3. QED
    BY <2>1, <2>2
<1>2. QED
  BY <1>1, TypeInvInit, PTL DEF Spec

-----------------------------------------------------------------------------
(* A dependent only goes ahead after its dependencies.                      *)

\* Wherever an object is said to be ready - at the server, in the cache, in a
\* reconcile's copy - its stack has been deployed, and stays so.
ReadyMeansDeployedOnce ==
  \A o \in Objects :
    status[o].ready = "True" \/ cached.status[o].ready = "True" \/ local[o].status.ready = "True"
      => WasDeployed(o)

\* A reconcile that checks its next dependency has found the ones before deployed.
Cleared(o) ==
  /\ At(o, "check") => \A i \in 1..(local[o].next - 1) :
                          WasDeployed(Dependency(o, local[o].obj.spec, i))
  /\ At(o, "deploy") => \A i \in 1..Len(local[o].obj.spec.dependsOn) :
                           WasDeployed(Dependency(o, local[o].obj.spec, i))

CheckedInOrder == \A o \in Objects : Cleared(o)

OrderInv == ReadyMeansDeployedOnce /\ CheckedInOrder

LEMMA OrderInvInit == Init => OrderInv
BY AbsentType DEF Init, OrderInv, ReadyMeansDeployedOnce, CheckedInOrder, Cleared, At

\* What has been deployed is never nothing again.
LEMMA DeployedStays ==
  ASSUME TypeInv, [Next]_vars, NEW o, WasDeployed(o)
  PROVE  WasDeployed(o)'
<1> USE DEF TypeInv
<1>1. o \in Objects /\ stacks[o].content # NoContent /\ stacks \in [Objects -> Stacks]
  BY DEF WasDeployed, TypeOK, Stacks
<1>2. CASE UNCHANGED stacks
  BY <1>2 DEF WasDeployed
<1>3. ASSUME NEW p \in Objects, Deploy(p) PROVE WasDeployed(o)'
  BY <1>1, <1>3 DEF Deploy, WasDeployed, Stacks
<1>4. ASSUME NEW p \in Objects, StackFails(p) \/ StackIsDeleted(p) PROVE WasDeployed(o)'
  BY <1>1, <1>4 DEF StackFails, StackIsDeleted, WasDeployed, Stacks
<1>5. ASSUME NEW p \in Objects, StackSettles(p) PROVE WasDeployed(o)'
  <2>1. stacks[p].target # NoContent
    <3>1. stacks[p].target \in Contents
      BY <1>5 DEF StackSettles, ReadingInv
    <3>2. NoContent \notin Contents
      BY DependencyConstants DEF NoContent, Contents
    <3>3. QED
      BY <3>1, <3>2
  <2>2. stacks'[o].content \in {stacks[o].content, stacks[p].target}
    BY <1>1, <1>5 DEF StackSettles, Stacks
  <2>3. QED
    BY <1>1, <2>1, <2>2 DEF WasDeployed
<1>6. CASE Next
  BY <1>2, <1>3, <1>4, <1>5, <1>6
     DEF Next, Start, Step, ObserveGeneration, ResolveSource, CheckDependency, PatchStatus,
         TimerFires, WriteSpec, SourceChanges, CacheSync, Inside
<1>7. QED
  BY <1>2, <1>6 DEF vars

\* What a reconcile has found stays true while others go on.
LEMMA ClearedKept ==
  ASSUME NEW p, Cleared(p), local'[p] = local[p], \A o : WasDeployed(o) => WasDeployed(o)'
  PROVE  Cleared(p)'
<1>1. ASSUME NEW i, WasDeployed(Dependency(p, local[p].obj.spec, i))
      PROVE  WasDeployed(Dependency(p, local[p].obj.spec, i))'
  <2>1. Dependency(p, local[p].obj.spec, i)' = Dependency(p, local[p].obj.spec, i)
    BY DEF Dependency, Resolve
  <2>2. WasDeployed(Dependency(p, local[p].obj.spec, i)) =>
          \E d : d = Dependency(p, local[p].obj.spec, i) /\ WasDeployed(d)'
    OBVIOUS
  <2>3. QED
    BY <1>1, <2>1, <2>2 DEF WasDeployed
<1>2. QED
  BY <1>1 DEF Cleared, At

\* A reconcile's step: what it says of its own object, and what it has found.
LEMMA StepKeepsOrder ==
  ASSUME TypeInv, OrderInv, \A o : WasDeployed(o) => WasDeployed(o)', NEW o \in Objects,
         Start(o) \/ Step(o)
  PROVE  OrderInv'
<1>0. /\ local[o] \in Locals /\ local \in [Objects -> Locals]
      /\ cached.objs[o] \in Objs /\ cached.status[o] \in Statuses
  BY DEF TypeInv, TypeOK, Objs
<1>1. SUFFICES /\ \A p \in Objects \ {o} : local'[p] = local[p] /\ status'[p] = status[p]
               /\ local'[o].status.ready = "True" \/ status'[o].ready = "True" => WasDeployed(o)'
               /\ Cleared(o)'
  <2>1. cached' = cached
    BY DEF Start, Step, ObserveGeneration, ResolveSource, CheckDependency, Deploy, PatchStatus,
           Inside
  <2>2. ReadyMeansDeployedOnce'
    BY <1>1, <2>1 DEF OrderInv, ReadyMeansDeployedOnce
  <2>3. CheckedInOrder'
    BY <1>1, ClearedKept DEF OrderInv, CheckedInOrder
  <2>4. QED
    BY <2>2, <2>3 DEF OrderInv
<1>2. status[o].ready = "True" \/ cached.status[o].ready = "True" \/ local[o].status.ready = "True"
        => WasDeployed(o)'
  BY DEF OrderInv, ReadyMeansDeployedOnce
<1>3. CASE Start(o)
  <2>1. status' = status /\ (local' = local \/ Exists(cached.objs[o]))
    BY <1>3 DEF Start, server
  <2>2. CASE local' = local
    <3>1. Cleared(o)'
      BY <2>2, ClearedKept DEF OrderInv, CheckedInOrder
    <3>2. QED
      BY <1>2, <2>1, <2>2, <3>1
  <2>3. CASE local' # local
    <3> DEFINE p == IF cached.status[o].observedGeneration # cached.objs[o].gen
                      THEN "observe" ELSE "source"
    <3>1. local' = [local EXCEPT ![o].pc = p, ![o].obj = cached.objs[o],
                                 ![o].status = cached.status[o]]
      BY <1>3, <2>3 DEF Start
    <3>2. p \in {"observe", "source"}
      OBVIOUS
    <3> HIDE DEF p
    <3>3. /\ \A q \in Objects \ {o} : local'[q] = local[q]
          /\ local'[o].pc = p /\ local'[o].status = cached.status[o]
      BY <1>0, <3>1 DEF Locals
    <3>4. QED
      BY <1>2, <2>1, <3>2, <3>3 DEF Cleared, At
  <2>4. QED
    BY <2>2, <2>3
<1>4. CASE ObserveGeneration(o)
  <2> DEFINE s == WithReadiness(local[o].status, local[o].obj.gen, "Unknown", NoRevision)
  <2>1. Patch(o, s) /\ local' = [local EXCEPT ![o].pc = "source", ![o].status = s]
    BY <1>4 DEF ObserveGeneration
  <2>2. s \in Statuses /\ s.ready = "Unknown"
    BY <1>0, ReadinessType DEF Locals, Conditions
  <2> HIDE DEF s
  <2>3. /\ \A q \in Objects \ {o} : local'[q] = local[q]
        /\ local'[o].pc = "source" /\ local'[o].status = s
    BY <1>0, <2>1 DEF Locals
  <2>4. /\ status'[o].ready \in {"Unknown", status[o].ready}
        /\ \A p \in Objects \ {o} : status'[p] = status[p]
    BY <2>1, <2>2, PatchEffect
  <2>5. QED
    BY <1>2, <2>2, <2>3, <2>4 DEF Cleared, At
<1>5. ASSUME UNCHANGED status, NEW ready \in Conditions, NEW revision \in Revisions \cup {NoRevision},
             Report(o, ready, revision), ready = "True" => WasDeployed(o)'
      PROVE  /\ \A p \in Objects \ {o} : local'[p] = local[p] /\ status'[p] = status[p]
             /\ local'[o].status.ready = "True" \/ status'[o].ready = "True" => WasDeployed(o)'
             /\ Cleared(o)'
  <2>1. /\ local'[o].pc = "patch" /\ local'[o].status.ready = ready
        /\ \A p \in Objects \ {o} : local'[p] = local[p]
    BY <1>5, ReportEffect
  <2>2. QED
    BY <1>2, <1>5, <2>1 DEF Cleared, At
<1>6. CASE ResolveSource(o)
  <2>1. UNCHANGED status
    BY <1>6 DEF ResolveSource, Inside, server
  <2>2. CASE Report(o, "False", NoRevision)
    BY <1>5, <2>1, <2>2 DEF Conditions
  <2>3. CASE ~Report(o, "False", NoRevision)
    <3> DEFINE spec == local[o].obj.spec
               p == IF spec.dependsOn = <<>> THEN "deploy" ELSE "check"
               revision == sources[SourceOf(o, spec)]
    <3>1. local' = [local EXCEPT ![o].pc = p, ![o].revision = revision]
      BY <1>6, <2>3 DEF ResolveSource
    <3>2. p \in {"check", "deploy"} /\ (p = "deploy" => spec.dependsOn = <<>>)
      OBVIOUS
    <3> HIDE DEF p, revision
    <3>3. /\ \A q \in Objects \ {o} : local'[q] = local[q]
          /\ local'[o].pc = p /\ local'[o].status = local[o].status
          /\ local'[o].next = local[o].next /\ local'[o].obj = local[o].obj
      BY <1>0, <3>1 DEF Locals
    <3>4. local[o].next = 1
      BY <1>6 DEF ResolveSource, TypeInv, ReadingInv, At
    <3>5. Cleared(o)'
      <4>1. ~\E i : i \in 1..(1 - 1)
        OBVIOUS
      <4>2. Len(<<>>) = 0
        OBVIOUS
      <4>3. QED
        BY <3>2, <3>3, <3>4, <4>1, <4>2 DEF Cleared, At
    <3>6. QED
      BY <1>2, <2>1, <3>3, <3>5
  <2>4. QED
    BY <2>2, <2>3
<1>7. CASE CheckDependency(o)
  <2> DEFINE spec == local[o].obj.spec
             next == local[o].next
  <2>1. UNCHANGED <<status, stacks>> /\ local[o].pc = "check"
    BY <1>7 DEF CheckDependency, Inside, server, At
  <2>2. local[o].revision \in Revisions /\ next \in 1..Len(spec.dependsOn)
    BY <1>7 DEF CheckDependency, TypeInv, ReadingInv, At
  <2>3. CASE Report(o, "False", local[o].revision)
    BY <1>5, <2>1, <2>2, <2>3 DEF Conditions
  <2>4. CASE ~Report(o, "False", local[o].revision)
    <3>1. WasDeployed(Dependency(o, spec, next))
      BY <1>7, <2>4 DEF CheckDependency, DependencyReady, OrderInv, ReadyMeansDeployedOnce
    <3>2. \A i \in 1..(next - 1) : WasDeployed(Dependency(o, spec, i))
      BY <2>1 DEF OrderInv, CheckedInOrder, Cleared, At
    <3>3. /\ spec.dependsOn \in Seq(References) /\ Len(spec.dependsOn) \in Nat
          /\ next \in Nat
      BY <1>0 DEF Locals, Specs
    <3>4. \A i \in 1..next : WasDeployed(Dependency(o, spec, i))
      <4>1. \A i \in 1..next : i = next \/ i \in 1..(next - 1)
        BY <3>3
      <4>2. QED
        BY <3>1, <3>2, <4>1
    <3>5. PICK p \in {"check", "deploy"}, n \in {next, next + 1} :
            /\ local' = [local EXCEPT ![o].pc = p, ![o].next = n]
            /\ p = "check" => n = next + 1
            /\ p = "deploy" => next = Len(spec.dependsOn)
      <4>1. CASE next < Len(spec.dependsOn)
        <5>1. local' = [local EXCEPT ![o].next = next + 1]
          BY <1>7, <2>4, <4>1 DEF CheckDependency
        <5>2. local' = [local EXCEPT ![o].pc = "check", ![o].next = next + 1]
          BY <1>0, <2>1, <5>1 DEF Locals
        <5>3. QED
          BY <5>2
      <4>2. CASE ~(next < Len(spec.dependsOn))
        <5>1. local' = [local EXCEPT ![o].pc = "deploy"]
          BY <1>7, <2>4, <4>2 DEF CheckDependency
        <5>2. local' = [local EXCEPT ![o].pc = "deploy", ![o].next = next]
          BY <1>0, <5>1 DEF Locals
        <5>3. next = Len(spec.dependsOn)
          BY <2>2, <3>3, <4>2
        <5>4. QED
          BY <5>2, <5>3
      <4>3. QED
        BY <4>1, <4>2
    <3>6. /\ \A q \in Objects \ {o} : local'[q] = local[q]
          /\ local'[o].pc = p /\ local'[o].status = local[o].status
          /\ local'[o].next = n /\ local'[o].obj = local[o].obj
      BY <1>0, <3>5 DEF Locals
    <3>7. \A d : WasDeployed(d)' <=> WasDeployed(d)
      BY <2>1 DEF WasDeployed
    <3>8. \A i \in 1..next : WasDeployed(Dependency(o, spec, i))'
      <4> SUFFICES ASSUME NEW i \in 1..next PROVE WasDeployed(Dependency(o, spec, i))'
        OBVIOUS
      <4>1. QED
        BY <2>1, <3>4, <3>6 DEF WasDeployed, Dependency, Resolve
    <3>9. Cleared(o)'
      <4>1. p = "check" => 1..(n - 1) = 1..next
        BY <3>3, <3>5
      <4>2. QED
        BY <3>5, <3>6, <3>8, <4>1 DEF Cleared, At
    <3>10. QED
      BY <1>2, <2>1, <3>6, <3>9
  <2>5. QED
    BY <2>3, <2>4
<1>8. CASE Deploy(o)
  <2>1. UNCHANGED status /\ local[o].revision \in Revisions /\ local[o].obj.gen > 0
    BY <1>8 DEF Deploy, server, TypeInv, ReadingInv, At, Exists
  <2>2. CASE Report(o, "Unknown", local[o].revision) \/ Report(o, "False", local[o].revision)
    BY <1>5, <2>1, <2>2 DEF Conditions
  <2>3. CASE UpToDate(o) /\ Report(o, "True", NoRevision)
    <3>1. WasDeployed(o)
      BY <2>1, <2>3 DEF UpToDate, Wanted, NoContent, WasDeployed
    <3>2. QED
      BY <1>5, <2>1, <2>3, <3>1 DEF Conditions
  <2>4. QED
    BY <1>8, <2>2, <2>3 DEF Deploy
<1>9. CASE PatchStatus(o)
  <2>1. local'[o] = Idle(o) /\ \A p \in Objects \ {o} : local'[p] = local[p]
    BY <1>9, ReturnEffect DEF PatchStatus
  <2>2. local[o].status \in Statuses /\ Patch(o, local[o].status)
    BY <1>0, <1>9 DEF PatchStatus, Locals
  <2>3. /\ status'[o].ready \in {local[o].status.ready, status[o].ready}
        /\ \A p \in Objects \ {o} : status'[p] = status[p]
    BY <2>2, PatchEffect
  <2>4. QED
    BY <1>2, <2>1, <2>3, AbsentType DEF Cleared, At
<1>10. QED
  BY <1>3, <1>4, <1>6, <1>7, <1>8, <1>9 DEF Step

LEMMA OrderInvStep == TypeInv /\ OrderInv /\ [Next]_vars => OrderInv'
<1> SUFFICES ASSUME TypeInv, OrderInv, [Next]_vars PROVE OrderInv'
  OBVIOUS
<1>1. \A o : WasDeployed(o) => WasDeployed(o)'
  BY DeployedStays
<1>2. ASSUME UNCHANGED local, UNCHANGED status,
             cached' = cached \/ cached' = [objs |-> objs, status |-> status]
      PROVE  OrderInv'
  <2>1. ReadyMeansDeployedOnce'
    BY <1>1, <1>2 DEF OrderInv, ReadyMeansDeployedOnce
  <2>2. CheckedInOrder'
    BY <1>1, <1>2, ClearedKept DEF OrderInv, CheckedInOrder
  <2>3. QED
    BY <2>1, <2>2 DEF OrderInv
<1>3. CASE UNCHANGED vars
  BY <1>2, <1>3 DEF vars
<1>4. CASE \E o \in Objects : Start(o) \/ Step(o)
  BY <1>1, <1>4, StepKeepsOrder
<1>5. CASE \/ \E o \in Objects : \/ TimerFires(o) \/ WriteSpec(o)
                                 \/ StackSettles(o) \/ StackFails(o) \/ StackIsDeleted(o)
           \/ \E source \in Sources : SourceChanges(source)
           \/ CacheSync
  BY <1>2, <1>5 DEF TimerFires, WriteSpec, StackSettles, StackFails, StackIsDeleted, SourceChanges,
                     CacheSync,
                    server
<1>6. QED
  BY <1>3, <1>4, <1>5 DEF Next

\* An object's stack is only worked on once everything its reconcile found in dependsOn
\* has been deployed, whatever is edited meanwhile and however old the copies are.
THEOREM DependenciesWentFirst == Spec => DependenciesGoFirst
<1>1. TypeInv /\ OrderInv /\ [Next]_vars =>
        [ \A o \in Objects : stacks[o].status # "changing" /\ stacks'[o].status = "changing"
            => \A d \in DependenciesOf(o, local[o].obj.spec) : WasDeployed(d) ]_vars
  <2> SUFFICES ASSUME TypeInv, OrderInv, Next, NEW o \in Objects,
                      stacks[o].status # "changing", stacks'[o].status = "changing",
                      NEW d \in DependenciesOf(o, local[o].obj.spec)
               PROVE  WasDeployed(d)
    BY DEF vars
  <2>1. stacks \in [Objects -> Stacks] /\ local[o].obj.spec \in Specs
    BY DEF TypeInv, TypeOK, Stacks, Locals
  <2>2. \E p \in Objects : Deploy(p) \/ StackSettles(p) \/ StackFails(p) \/ StackIsDeleted(p)
    BY DEF Next, Start, Step, ObserveGeneration, ResolveSource, CheckDependency, PatchStatus,
           TimerFires, WriteSpec, SourceChanges, CacheSync, Inside
  <2>3. Deploy(o)
    BY <2>1, <2>2 DEF Deploy, StackSettles, StackFails, StackIsDeleted, Stacks
  <2>4. At(o, "deploy")
    BY <2>3 DEF Deploy
  <2>5. PICK i \in DOMAIN local[o].obj.spec.dependsOn : d = Dependency(o, local[o].obj.spec, i)
    BY DEF DependenciesOf
  <2>6. i \in 1..Len(local[o].obj.spec.dependsOn)
    BY <2>1 DEF Specs
  <2>7. QED
    BY <2>4, <2>5, <2>6 DEF OrderInv, CheckedInOrder, Cleared
<1>2. QED
  BY <1>1, OrderInvInit, OrderInvStep, TypeCorrectness, PTL DEF Spec, DependenciesGoFirst

-----------------------------------------------------------------------------
(* Objects in a ring wait forever.                                          *)

\* A copy of an object is of an earlier generation, or of this one.
CopyOf(copy, obj) == copy.gen <= obj.gen /\ (copy.gen = obj.gen => copy = obj)

CopiesInv ==
  \A o \in Objects :
    /\ CopyOf(cached.objs[o], objs[o])
    /\ ~At(o, "idle") => CopyOf(local[o].obj, objs[o])

Untouched == [status |-> "steady", content |-> NoContent, target |-> NoContent]

\* Objects that do not exist yet may complete a ring: it is as stuck as one that is
\* complete.
MayEntangle(ring) ==
  \A o \in ring : \/ objs[o].gen = 0
                  \/ objs[o].gen = 1 /\ DependenciesOf(o, objs[o].spec) \cap ring # {}

RingInv ==
  \A ring \in SUBSET Objects : MayEntangle(ring) => \A o \in ring : stacks[o] = Untouched

WaitInv == CopiesInv /\ RingInv

LEMMA WaitInvInit == Init => WaitInv
<1> SUFFICES ASSUME Init PROVE WaitInv
  OBVIOUS
<1>1. TypeInv
  BY TypeInvInit
<1>2. CopiesInv
  <2>1. \A o \in Objects : At(o, "idle")
    BY AbsentType DEF Init, At
  <2>2. \A o \in Objects : objs[o].gen <= objs[o].gen
    BY <1>1 DEF TypeInv, TypeOK
  <2>3. cached.objs = objs
    BY DEF Init
  <2>4. QED
    BY <2>1, <2>2, <2>3 DEF CopiesInv, CopyOf
<1>3. RingInv
  BY DEF Init, RingInv, Untouched
<1>4. QED
  BY <1>2, <1>3 DEF WaitInv

\* Until its status is written, a reconcile goes on with the object it started with, and
\* nothing is queued.
LEMMA WorkKeepsTheObject ==
  ASSUME TypeInv, NEW o \in Objects,
         ObserveGeneration(o) \/ ResolveSource(o) \/ CheckDependency(o) \/ Deploy(o)
  PROVE  /\ local[o].pc # "idle" /\ local'[o].pc # "idle" /\ local'[o].obj = local[o].obj
         /\ \A p \in Objects \ {o} : local'[p] = local[p]
         /\ UNCHANGED <<objs, cached, queue>>
<1>0. local \in [Objects -> Locals]
  BY DEF TypeInv, TypeOK
<1>1. ASSUME NEW ready \in Conditions, NEW revision \in Revisions \cup {NoRevision},
             Report(o, ready, revision)
      PROVE  /\ local'[o].pc # "idle" /\ local'[o].obj = local[o].obj
             /\ \A p \in Objects \ {o} : local'[p] = local[p]
  BY <1>1, ReportEffect
<1>2. CASE ObserveGeneration(o)
  <2> DEFINE s == WithReadiness(local[o].status, local[o].obj.gen, "Unknown", NoRevision)
  <2>1. /\ local' = [local EXCEPT ![o].pc = "source", ![o].status = s]
        /\ UNCHANGED <<objs, cached, queue>> /\ local[o].pc = "observe"
    BY <1>2 DEF ObserveGeneration, Patch, At
  <2> HIDE DEF s
  <2>2. QED
    BY <1>0, <2>1 DEF Locals
<1>3. CASE ResolveSource(o)
  <2> DEFINE spec == local[o].obj.spec
             p == IF spec.dependsOn = <<>> THEN "deploy" ELSE "check"
             revision == sources[SourceOf(o, spec)]
  <2>1. UNCHANGED <<objs, cached, queue>> /\ local[o].pc = "source"
    BY <1>3 DEF ResolveSource, Inside, server, At
  <2>2. CASE Report(o, "False", NoRevision)
    BY <1>1, <2>1, <2>2 DEF Conditions
  <2>3. CASE local' = [local EXCEPT ![o].pc = p, ![o].revision = revision]
    <3>1. p # "idle"
      OBVIOUS
    <3> HIDE DEF p, revision
    <3>2. QED
      BY <1>0, <2>1, <2>3, <3>1 DEF Locals
  <2>4. QED
    BY <1>3, <2>2, <2>3 DEF ResolveSource
<1>4. CASE CheckDependency(o)
  <2>1. /\ UNCHANGED <<objs, cached, queue>> /\ local[o].pc = "check"
        /\ local[o].revision \in Revisions
    BY <1>4 DEF CheckDependency, Inside, server, At, TypeInv, ReadingInv
  <2>2. CASE Report(o, "False", local[o].revision)
    BY <1>1, <2>1, <2>2 DEF Conditions
  <2>3. CASE \/ local' = [local EXCEPT ![o].next = @ + 1] \/ local' = [local EXCEPT ![o].pc = "deploy"]
    BY <1>0, <2>1, <2>3 DEF Locals
  <2>4. QED
    BY <1>4, <2>2, <2>3 DEF CheckDependency
<1>5. CASE Deploy(o)
  <2>1. /\ UNCHANGED <<objs, cached, queue>> /\ local[o].pc = "deploy"
        /\ local[o].revision \in Revisions
    BY <1>5 DEF Deploy, server, At, TypeInv, ReadingInv
  <2>2. \E r \in Conditions, revision \in {local[o].revision, NoRevision} : Report(o, r, revision)
    BY <1>5 DEF Deploy, Conditions
  <2>3. QED
    BY <1>1, <2>1, <2>2
<1>6. QED
  BY <1>2, <1>3, <1>4, <1>5

LEMMA CopiesStep == TypeInv /\ CopiesInv /\ [Next]_vars => CopiesInv'
<1> SUFFICES ASSUME TypeInv, CopiesInv, [Next]_vars PROVE CopiesInv'
  OBVIOUS
<1>0. /\ objs \in [Objects -> Objs] /\ cached.objs \in [Objects -> Objs]
      /\ local \in [Objects -> Locals]
  BY DEF TypeInv, TypeOK, Objs
<1>1. ASSUME UNCHANGED <<objs, cached>>, NEW o \in Objects,
             \A p \in Objects \ {o} : local'[p] = local[p],
             \/ local'[o].pc = "idle" \/ local'[o].obj = cached.objs[o]
             \/ local[o].pc # "idle" /\ local'[o].obj = local[o].obj
      PROVE  CopiesInv'
  BY <1>1 DEF CopiesInv, At
<1>2. ASSUME UNCHANGED <<objs, cached, local>> PROVE CopiesInv'
  BY <1>2 DEF CopiesInv, At
<1>4. ASSUME NEW o \in Objects, Start(o) PROVE CopiesInv'
  <2>1. UNCHANGED <<objs, cached>>
    BY <1>4 DEF Start, server
  <2>2. CASE local' = local
    BY <1>2, <2>1, <2>2
  <2>3. CASE local' # local
    <3> DEFINE p == IF cached.status[o].observedGeneration # cached.objs[o].gen
                      THEN "observe" ELSE "source"
    <3>1. local' = [local EXCEPT ![o].pc = p, ![o].obj = cached.objs[o],
                                 ![o].status = cached.status[o]]
      BY <1>4, <2>3 DEF Start
    <3> HIDE DEF p
    <3>2. (\A q \in Objects \ {o} : local'[q] = local[q]) /\ local'[o].obj = cached.objs[o]
      BY <1>0, <3>1 DEF Locals
    <3>3. QED
      BY <1>1, <2>1, <3>2
  <2>4. QED
    BY <2>2, <2>3
<1>5. ASSUME NEW o \in Objects,
             ObserveGeneration(o) \/ ResolveSource(o) \/ CheckDependency(o) \/ Deploy(o)
      PROVE  CopiesInv'
  BY <1>1, <1>5, WorkKeepsTheObject
<1>9. ASSUME NEW o \in Objects, PatchStatus(o) PROVE CopiesInv'
  <2>1. local'[o] = Idle(o) /\ \A p \in Objects \ {o} : local'[p] = local[p]
    BY <1>9, ReturnEffect DEF PatchStatus
  <2>2. QED
    BY <1>1, <1>9, <2>1, AbsentType DEF PatchStatus, Patch
<1>10. ASSUME NEW o \in Objects, WriteSpec(o) PROVE CopiesInv'
  <2>1. PICK spec \in UserSpecs[o] : objs' = [objs EXCEPT ![o] = [gen |-> @.gen + 1, spec |-> spec]]
    BY <1>10 DEF WriteSpec
  <2>2. UNCHANGED <<cached, local>>
    BY <1>10 DEF WriteSpec
  <2>3. \A p \in Objects \ {o} : objs'[p] = objs[p]
    BY <1>0, <2>1
  <2>4. objs'[o].gen = objs[o].gen + 1 /\ objs[o].gen \in Nat
    BY <1>0, <2>1, DependencyConstants DEF Objs
  <2>5. ASSUME NEW c \in Objs, CopyOf(c, objs[o]) PROVE CopyOf(c, objs'[o])
    <3>1. c.gen \in Nat
      BY DependencyConstants DEF Objs
    <3>2. QED
      BY <2>4, <2>5, <3>1 DEF CopyOf
  <2>6. cached.objs[o] \in Objs /\ local[o].obj \in Objs
    BY <1>0 DEF Locals, Objs
  <2>7. QED
    BY <2>2, <2>3, <2>5, <2>6 DEF CopiesInv, At
<1>11. CASE CacheSync
  <2>1. cached'.objs = objs /\ UNCHANGED <<objs, local>>
    BY <1>11 DEF CacheSync, server
  <2>2. \A o \in Objects : CopyOf(objs[o], objs[o])
    BY <1>0, DependencyConstants DEF CopyOf, Objs
  <2>3. QED
    BY <2>1, <2>2 DEF CopiesInv, At
<1>12. CASE \/ \E o \in Objects : \/ TimerFires(o) \/ StackSettles(o) \/ StackFails(o)
                                  \/ StackIsDeleted(o)
            \/ \E source \in Sources : SourceChanges(source)
            \/ UNCHANGED vars
  BY <1>2, <1>12 DEF TimerFires, StackSettles, StackFails, StackIsDeleted, SourceChanges, server,
                     vars
<1>13. QED
  BY <1>4, <1>5, <1>9, <1>10, <1>11, <1>12 DEF Next, Step

LEMMA RingStep ==
  TypeInv /\ OrderInv /\ WaitInv /\ [Next]_vars => RingInv'
<1> SUFFICES ASSUME TypeInv, OrderInv, CopiesInv, RingInv, [Next]_vars,
                    NEW ring \in SUBSET Objects, MayEntangle(ring)', NEW o \in ring
             PROVE  stacks'[o] = Untouched
  BY DEF WaitInv, RingInv
<1>0. objs \in [Objects -> Objs] /\ stacks \in [Objects -> Stacks] /\ local \in [Objects -> Locals]
  BY DEF TypeInv, TypeOK, Objs, Stacks
<1>1. MayEntangle(ring)
  <2>1. CASE UNCHANGED objs
    BY <2>1 DEF MayEntangle
  <2>2. ASSUME NEW p \in Objects, WriteSpec(p) PROVE MayEntangle(ring)
    <3>1. PICK spec \in UserSpecs[p] : objs' = [objs EXCEPT ![p] = [gen |-> @.gen + 1, spec |-> spec]]
      BY <2>2 DEF WriteSpec
    <3>2. objs'[p].gen = objs[p].gen + 1 /\ objs[p].gen \in Nat
      BY <1>0, <3>1, DependencyConstants DEF Objs
    <3>3. \A q \in Objects \ {p} : objs'[q] = objs[q]
      BY <1>0, <3>1
    <3>4. p \in ring => objs[p].gen = 0
      BY <3>2 DEF MayEntangle
    <3>5. QED
      BY <3>3, <3>4 DEF MayEntangle
  <2>3. CASE Next
    BY <2>1, <2>2, <2>3
       DEF Next, Start, Step, ObserveGeneration, ResolveSource, CheckDependency, Deploy,
           PatchStatus, Patch, TimerFires, StackSettles, StackFails, StackIsDeleted,
           SourceChanges, CacheSync,
           Inside, server
  <2>4. QED
    BY <2>1, <2>3 DEF vars
<1>2. \A p \in ring : stacks[p] = Untouched
  BY <1>1 DEF RingInv
<1>3. ASSUME Deploy(o) PROVE FALSE
  <2>1. At(o, "deploy") /\ ~At(o, "idle") /\ Exists(local[o].obj)
    BY <1>3 DEF Deploy, At, TypeInv, ReadingInv
  <2>2. CopyOf(local[o].obj, objs[o])
    BY <2>1 DEF CopiesInv
  <2>3. objs[o].gen = 1 /\ local[o].obj = objs[o]
    <3>1. local[o].obj.gen \in Nat /\ local[o].obj.gen > 0 /\ objs[o].gen \in Nat
      BY <1>0, <2>1, DependencyConstants DEF Exists, Locals, Objs
    <3>2. objs[o].gen = 1
      BY <1>1, <2>2, <3>1 DEF MayEntangle, CopyOf
    <3>3. QED
      BY <2>2, <3>1, <3>2 DEF CopyOf
  <2>4. PICK d \in ring : d \in DependenciesOf(o, local[o].obj.spec)
    BY <1>1, <2>3 DEF MayEntangle
  <2>5. PICK i \in DOMAIN local[o].obj.spec.dependsOn : d = Dependency(o, local[o].obj.spec, i)
    BY <2>4 DEF DependenciesOf
  <2>6. i \in 1..Len(local[o].obj.spec.dependsOn)
    BY <1>0 DEF Locals, Specs
  <2>7. WasDeployed(d)
    BY <2>1, <2>5, <2>6 DEF OrderInv, CheckedInOrder, Cleared
  <2>8. QED
    BY <1>2, <2>7 DEF WasDeployed, Untouched
<1>4. CASE stacks'[o] = stacks[o]
  BY <1>2, <1>4
<1>5. ASSUME NEW p \in Objects,
             Deploy(p) \/ StackSettles(p) \/ StackFails(p) \/ StackIsDeleted(p)
      PROVE  stacks'[o] = stacks[o]
  <2>1. CASE p = o
    BY <1>2, <1>3, <1>5, <2>1 DEF StackSettles, StackFails, StackIsDeleted, Untouched
  <2>2. CASE p # o
    BY <1>0, <1>5, <2>2 DEF Deploy, StackSettles, StackFails, StackIsDeleted
  <2>3. QED
    BY <2>1, <2>2
<1>6. CASE Next
  BY <1>4, <1>5, <1>6
     DEF Next, Start, Step, ObserveGeneration, ResolveSource, CheckDependency, PatchStatus,
         TimerFires, WriteSpec, SourceChanges, CacheSync, Inside
<1>7. QED
  BY <1>4, <1>6 DEF vars

\* Objects that have depended on each other since they were created are never deployed,
\* nor is anything that depends on them: nothing in the controller breaks a ring.
THEOREM RingsNeverStart == Spec => []EntangledNeverStart
<1>1. RingInv => EntangledNeverStart
  BY DEF RingInv, EntangledNeverStart, MayEntangle, Entangled, Untouched
<1>2. TypeInv /\ OrderInv /\ WaitInv /\ [Next]_vars => WaitInv'
  BY CopiesStep, RingStep DEF WaitInv
<1>3. WaitInv => RingInv
  BY DEF WaitInv
<1>4. QED
  BY <1>1, <1>2, <1>3, WaitInvInit, OrderInvInit, OrderInvStep, TypeCorrectness, PTL DEF Spec

-----------------------------------------------------------------------------
(* Nobody is forgotten.                                                      *)

\* What is true of an object that is not.
Remembered(o) ==
  \/ ~Exists(objs[o]) \/ o \in queued \/ objs[o].gen # cached.objs[o].gen
  \/ IF At(o, "idle") THEN o \in delayed ELSE local[o].obj = objs[o]

LEMMA RememberedMeans == NobodyIsForgotten <=> \A o \in Objects : Remembered(o)
BY DEF NobodyIsForgotten, Remembered

LEMMA ReconcilesRemember ==
  ASSUME TypeInv, CopiesInv, \A p \in Objects : Remembered(p), NEW o \in Objects,
         Start(o) \/ Step(o)
  PROVE  \A p \in Objects : Remembered(p)'
<1>1. UNCHANGED <<objs, cached>>
  <2>1. CASE Start(o) \/ PatchStatus(o)
    BY <2>1 DEF Start, PatchStatus, Patch, server
  <2>2. CASE ObserveGeneration(o) \/ ResolveSource(o) \/ CheckDependency(o) \/ Deploy(o)
    BY <2>2, WorkKeepsTheObject
  <2>3. QED
    BY <2>1, <2>2 DEF Step
<1>2. CASE Start(o)
  <2>1. \A p \in Objects \ {o} : local'[p] = local[p] /\ (p \in queued <=> p \in queued')
    <3>1. local \in [Objects -> Locals]
      BY DEF TypeInv, TypeOK
    <3>2. CASE local' = local
      BY <1>2, <3>2 DEF Start
    <3>3. CASE local' # local
      <4> DEFINE p == IF cached.status[o].observedGeneration # cached.objs[o].gen
                        THEN "observe" ELSE "source"
      <4>1. local' = [local EXCEPT ![o].pc = p, ![o].obj = cached.objs[o],
                                   ![o].status = cached.status[o]]
        BY <1>2, <3>3 DEF Start
      <4> HIDE DEF p
      <4>2. QED
        BY <1>2, <3>1, <4>1 DEF Start, Locals
    <3>4. QED
      BY <3>2, <3>3
  <2>2. \A p \in Objects \ {o} : Remembered(p)'
    BY <1>1, <1>2, <2>1 DEF Start, Remembered, Exists, At
  <2>3. Remembered(o)'
    <3>1. cached.objs[o].gen = objs[o].gen => cached.objs[o] = objs[o]
      BY DEF CopiesInv, CopyOf
    <3>2. CASE ~Exists(cached.objs[o])
      BY <1>1, <3>1, <3>2 DEF Remembered, Exists
    <3>3. CASE Exists(cached.objs[o])
      <4> DEFINE p == IF cached.status[o].observedGeneration # cached.objs[o].gen
                        THEN "observe" ELSE "source"
      <4>1. p # "idle"
        OBVIOUS
      <4>2. local' = [local EXCEPT ![o].pc = p, ![o].obj = cached.objs[o],
                                   ![o].status = cached.status[o]]
        BY <1>2, <3>3 DEF Start
      <4>3. local \in [Objects -> Locals]
        BY DEF TypeInv, TypeOK
      <4> HIDE DEF p
      <4>4. local'[o].pc # "idle" /\ local'[o].obj = cached.objs[o]
        BY <4>1, <4>2, <4>3 DEF Locals
      <4>5. QED
        BY <1>1, <3>1, <4>4 DEF Remembered, Exists, At
    <3>4. QED
      BY <3>2, <3>3
  <2>4. QED
    BY <2>2, <2>3
<1>3. CASE ObserveGeneration(o) \/ ResolveSource(o) \/ CheckDependency(o) \/ Deploy(o)
  <2>1. /\ local[o].pc # "idle" /\ local'[o].pc # "idle" /\ local'[o].obj = local[o].obj
        /\ \A p \in Objects \ {o} : local'[p] = local[p]
        /\ UNCHANGED <<queued, delayed>>
    BY <1>3, WorkKeepsTheObject DEF queue
  <2>2. QED
    BY <1>1, <2>1 DEF Remembered, Exists, At
<1>4. CASE PatchStatus(o)
  <2>1. Return(o) /\ \A p \in Objects \ {o} : local'[p] = local[p]
    BY <1>4, ReturnEffect DEF PatchStatus
  <2>2. queued' = queued /\ delayed' = delayed \cup ({o} \ queued) /\ local'[o] = Idle(o)
    BY <2>1, ReturnEffect DEF Return
  <2>3. local'[o].pc = "idle"
    BY <2>2 DEF Idle
  <2>4. QED
    BY <1>1, <2>1, <2>2, <2>3 DEF Remembered, Exists, At
<1>5. QED
  BY <1>2, <1>3, <1>4 DEF Step

LEMMA SurroundingsRemember ==
  ASSUME TypeInv, CopiesInv, \A p \in Objects : Remembered(p),
         \/ \E o \in Objects : \/ TimerFires(o) \/ WriteSpec(o)
                              \/ StackSettles(o) \/ StackFails(o) \/ StackIsDeleted(o)
         \/ \E source \in Sources : SourceChanges(source)
         \/ CacheSync \/ UNCHANGED vars
  PROVE  \A p \in Objects : Remembered(p)'
<1>1. ASSUME NEW keys, Enqueue(keys), UNCHANGED <<objs, cached, local>>
      PROVE  \A p \in Objects : Remembered(p)'
  BY <1>1 DEF Enqueue, Remembered, Exists, At
<1>2. CASE \/ \E o \in Objects : TimerFires(o)
           \/ \E source \in Sources : SourceChanges(source)
  BY <1>1, <1>2 DEF TimerFires, SourceChanges, server
<1>3. CASE \/ UNCHANGED vars
           \/ \E o \in Objects : StackSettles(o) \/ StackFails(o) \/ StackIsDeleted(o)
  <2>1. UNCHANGED <<objs, cached, local, queued, delayed>>
    BY <1>3 DEF StackSettles, StackFails, StackIsDeleted, vars, server, queue
  <2>2. QED
    BY <2>1 DEF Remembered, Exists, At
<1>4. ASSUME NEW o \in Objects, WriteSpec(o) PROVE \A p \in Objects : Remembered(p)'
  <2>1. PICK spec \in UserSpecs[o] : objs' = [objs EXCEPT ![o] = [gen |-> @.gen + 1, spec |-> spec]]
    BY <1>4 DEF WriteSpec
  <2>2. objs \in [Objects -> Objs] /\ cached.objs \in [Objects -> Objs]
    BY DEF TypeInv, TypeOK, Objs
  <2>3. UNCHANGED <<cached, local, queued, delayed>>
    BY <1>4 DEF WriteSpec, queue
  <2>4. (\A p \in Objects \ {o} : objs'[p] = objs[p]) /\ objs'[o].gen = objs[o].gen + 1
    BY <2>1, <2>2 DEF Objs
  <2>5. objs'[o].gen # cached.objs[o].gen
    <3>1. objs[o].gen \in Nat /\ cached.objs[o].gen \in Nat /\ cached.objs[o].gen <= objs[o].gen
      BY <2>2, DependencyConstants DEF CopiesInv, CopyOf, Objs
    <3>2. QED
      BY <2>4, <3>1
  <2>6. QED
    BY <2>3, <2>4, <2>5 DEF Remembered, Exists, At
<1>5. CASE CacheSync
  <2>1. /\ cached'.objs = objs /\ UNCHANGED <<objs, local>>
        /\ Enqueue({o \in Objects : objs[o].gen # cached.objs[o].gen})
    BY <1>5 DEF CacheSync, server
  <2>2. QED
    BY <2>1 DEF Enqueue, Remembered, Exists, At
<1>6. QED
  BY <1>2, <1>3, <1>4, <1>5

\* With any number of objects and workers, no edit, event or requeue that comes at the
\* wrong moment leaves an object without a reconcile that will see it as it is.
THEOREM NobodyIsEverForgotten == Spec => []NobodyIsForgotten
<1>1. Init => NobodyIsForgotten
  BY DEF Init, NobodyIsForgotten
<1>2. TypeInv /\ CopiesInv /\ NobodyIsForgotten /\ [Next]_vars => NobodyIsForgotten'
  <2> SUFFICES ASSUME TypeInv, CopiesInv, \A p \in Objects : Remembered(p), [Next]_vars
               PROVE  \A p \in Objects : Remembered(p)'
    BY RememberedMeans DEF NobodyIsForgotten, Remembered
  <2>1. QED
    BY ReconcilesRemember, SurroundingsRemember DEF Next
<1>3. Init => CopiesInv
  BY WaitInvInit DEF WaitInv
<1>4. TypeInv /\ CopiesInv /\ [Next]_vars => CopiesInv'
  BY CopiesStep
<1>5. QED
  BY <1>1, <1>2, <1>3, <1>4, TypeCorrectness, PTL DEF Spec

-----------------------------------------------------------------------------
(* Who hears of a new revision.                                             *)

\* The index and getSource agree on which object belongs to which source, and only a
\* ring keeps a new revision from the objects that are going to read it.
THEOREM ReadersAreTold == Spec => ReadersHear
<1>1. TypeInv /\ [Next]_vars =>
        [ \A source \in Sources :
            sources[source] # Missing /\ sources'[source] \in Revisions \ {sources[source]} =>
            LET late == {o \in Objects :
                           /\ Exists(cached.objs[o]) /\ SourceOf(o, cached.objs[o].spec) = source
                           /\ cached.status[o].lastAttemptedRevision # sources'[source]}
            IN late \subseteq queued' \/ Circular(late) ]_vars
  <2> SUFFICES ASSUME TypeInv, Next, NEW source \in Sources,
                      sources[source] # Missing,
                      sources'[source] \in Revisions \ {sources[source]}
               PROVE  LET late == {o \in Objects :
                                     /\ Exists(cached.objs[o])
                                     /\ SourceOf(o, cached.objs[o].spec) = source
                                     /\ cached.status[o].lastAttemptedRevision # sources'[source]}
                      IN late \subseteq queued' \/ Circular(late)
    BY DEF vars
  <2> DEFINE revision == sources'[source]
             late == {o \in Objects :
                        /\ Exists(cached.objs[o]) /\ SourceOf(o, cached.objs[o].spec) = source
                        /\ cached.status[o].lastAttemptedRevision # revision}
  <2>1. PICK s \in Sources : SourceChanges(s)
    BY DEF Next, Start, Step, ObserveGeneration, ResolveSource, CheckDependency, Deploy, PatchStatus,
           TimerFires, WriteSpec, StackSettles, StackFails, StackIsDeleted, CacheSync, Inside
  <2>2. PICK r : /\ sources' = [sources EXCEPT ![s] = r]
                 /\ Enqueue(IF Announced(sources[s], r)
                              THEN RequestsForRevisionChangeOf(s, r) ELSE {})
    BY <2>1 DEF SourceChanges
  <2>3. s = source /\ r = revision
    BY <2>2 DEF TypeInv, TypeOK
  <2>4. RequestsForRevisionChangeOf(source, revision) \subseteq queued'
    BY <2>2, <2>3 DEF Enqueue, Announced
  <2>5. late = RevisionRequested(source, revision)
    <3>1. source = [kind |-> source.kind, key |-> source.key]
      BY DependencyConstants
    <3>2. \A o \in Objects : SourceOf(o, cached.objs[o].spec) = source
                            <=> source.key \in IndexBy(source.kind, o, cached.objs[o].spec)
      BY <3>1 DEF IndexBy, SourceOf
    <3>3. QED
      BY <3>2 DEF RevisionRequested
  <2>6. late \subseteq queued' \/ Circular(late)
    BY <2>4, <2>5 DEF RequestsForRevisionChangeOf
  <2>7. QED
    BY <2>6
<1>2. QED
  BY <1>1, TypeCorrectness, PTL DEF Spec, ReadersHear

-----------------------------------------------------------------------------
(* Each object has its loop.                                                 *)

\* What the mapping needs besides: an object that does not exist is nobody, and a worker
\* that rests works for nobody.
RestInv ==
  \A o \in Objects :
    /\ ~Exists(objs[o]) => objs[o] = Absent(o)
    /\ At(o, "idle") => local[o].obj = Absent(o)

\* Only a stack that holds nothing is deleted.
EmptiedInv == \A o \in Objects : stacks[o].status = "deleting" => stacks[o].content = NoContent

LEMMA EmptiedInvInit == Init => EmptiedInv
BY DEF Init, EmptiedInv

LEMMA EmptiedInvStep == TypeInv /\ EmptiedInv /\ [Next]_vars => EmptiedInv'
<1> SUFFICES ASSUME TypeInv, EmptiedInv, [Next]_vars PROVE EmptiedInv'
  OBVIOUS
<1>1. stacks \in [Objects -> Stacks]
  BY DEF TypeInv, TypeOK, Stacks
<1>2. CASE UNCHANGED stacks
  BY <1>2 DEF EmptiedInv
<1>3. ASSUME NEW o \in Objects, Deploy(o) PROVE EmptiedInv'
  <2>1. CASE stacks' = [stacks EXCEPT ![o].status = "deleting"] /\ Unrecoverable(o)
    BY <1>1, <2>1 DEF Unrecoverable, EmptiedInv, Stacks
  <2>2. CASE \/ stacks' = [stacks EXCEPT ![o].status = "steady"]
             \/ stacks' = [stacks EXCEPT ![o].status = "changing", ![o].target = Wanted(o)]
    BY <1>1, <2>2 DEF EmptiedInv, Stacks
  <2>3. QED
    BY <1>2, <1>3, <2>1, <2>2 DEF Deploy
<1>4. ASSUME NEW o \in Objects, StackSettles(o) \/ StackFails(o) \/ StackIsDeleted(o)
      PROVE  EmptiedInv'
  BY <1>1, <1>4 DEF StackSettles, StackFails, StackIsDeleted, EmptiedInv, Stacks
<1>5. CASE Next
  BY <1>2, <1>3, <1>4, <1>5
     DEF Next, Start, Step, ObserveGeneration, ResolveSource, CheckDependency, PatchStatus,
         TimerFires, WriteSpec, SourceChanges, CacheSync, Inside
<1>6. QED
  BY <1>2, <1>5 DEF vars

LEMMA NobodyAsks ==
  ASSUME NEW o \in Objects
  PROVE  /\ Absent(o) \notin LoopRequests
         /\ \A r \in Objs : Exists(r) <=> r \in LoopRequests
<1>1. Absent(o).gen = 0
  BY AbsentType
<1>2. \A r \in Objs : Exists(r) <=> r \in LoopRequests
  BY DependencyConstants DEF Objs, Exists, LoopRequests
<1>3. QED
  BY <1>1, <1>2 DEF LoopRequests

LEMMA LooksTheSame ==
  ASSUME NEW o \in Objects,
         objs'[o] = objs[o], PhaseOf(stacks'[o]) = PhaseOf(stacks[o]),
         local'[o].obj = local[o].obj, At(o, "idle")' <=> At(o, "idle"),
         Due(o)' <=> Due(o)
  PROVE  UNCHANGED Loop(o)!loopVars
<1>1. Due(o)' = Due(o) /\ WorkerOf(o)' = WorkerOf(o)
  BY DEF WorkerOf, Due
<1>2. PhaseOf(stacks[o])' = PhaseOf(stacks[o])
  BY DEF PhaseOf
<1>3. QED
  BY <1>1, <1>2 DEF Loop!loopVars

\* What Start does to its key's reconcile.
LEMMA StartEffect ==
  ASSUME TypeInv, NEW o \in Objects, Start(o)
  PROVE  /\ local[o].pc = "idle" /\ o \in queued /\ queued' = queued \ {o}
         /\ UNCHANGED <<objs, cached, delayed, stacks>>
         /\ \A p \in Objects \ {o} : local'[p] = local[p]
         /\ ~Exists(cached.objs[o]) => local' = local
         /\ Exists(cached.objs[o]) => local'[o].pc # "idle" /\ local'[o].obj = cached.objs[o]
<1>1. /\ local[o].pc = "idle" /\ o \in queued /\ queued' = queued \ {o}
      /\ UNCHANGED <<objs, cached, delayed, stacks>>
  BY DEF Start, At, server
<1>2. CASE ~Exists(cached.objs[o])
  BY <1>1, <1>2 DEF Start
<1>3. CASE Exists(cached.objs[o])
  <2> DEFINE p == IF cached.status[o].observedGeneration # cached.objs[o].gen
                    THEN "observe" ELSE "source"
  <2>1. p # "idle"
    OBVIOUS
  <2>2. local' = [local EXCEPT ![o].pc = p, ![o].obj = cached.objs[o],
                               ![o].status = cached.status[o]]
    BY <1>3 DEF Start
  <2>3. local \in [Objects -> Locals]
    BY DEF TypeInv, TypeOK
  <2> HIDE DEF p
  <2>4. QED
    BY <1>1, <1>3, <2>1, <2>2, <2>3 DEF Locals
<1>4. QED
  BY <1>2, <1>3

\* A step about one object is none about the others.
LEMMA OnlyItsOwn ==
  ASSUME TypeInv, NEW p \in Objects,
         \/ Start(p) \/ Step(p) \/ TimerFires(p) \/ WriteSpec(p)
         \/ StackSettles(p) \/ StackFails(p) \/ StackIsDeleted(p)
  PROVE  /\ cached' = cached
         /\ \A q \in Objects \ {p} :
              /\ objs'[q] = objs[q] /\ local'[q] = local[q] /\ stacks'[q] = stacks[q]
              /\ q \in queued' \cup delayed' <=> q \in queued \cup delayed
<1>1. objs \in [Objects -> Objs] /\ stacks \in [Objects -> Stacks]
  BY DEF TypeInv, TypeOK, Objs, Stacks
<1>2. CASE Start(p)
  BY <1>2, StartEffect
<1>3. CASE ObserveGeneration(p) \/ ResolveSource(p) \/ CheckDependency(p) \/ Deploy(p)
  <2>1. /\ UNCHANGED <<objs, cached, queued, delayed>>
        /\ \A q \in Objects \ {p} : local'[q] = local[q]
    BY <1>3, WorkKeepsTheObject DEF queue
  <2>2. \A q \in Objects \ {p} : stacks'[q] = stacks[q]
    BY <1>1, <1>3 DEF ObserveGeneration, ResolveSource, CheckDependency, Deploy, Inside
  <2>3. QED
    BY <2>1, <2>2
<1>4. CASE PatchStatus(p)
  <2>1. Return(p) /\ UNCHANGED <<objs, cached, stacks>>
    BY <1>4 DEF PatchStatus, Patch
  <2>2. \A q \in Objects \ {p} : local'[q] = local[q]
    BY <2>1, ReturnEffect
  <2>3. QED
    BY <2>1, <2>2 DEF Return
<1>5. CASE TimerFires(p)
  BY <1>5 DEF TimerFires, Enqueue, server
<1>6. CASE WriteSpec(p)
  BY <1>1, <1>6 DEF WriteSpec, queue
<1>7. CASE StackSettles(p) \/ StackFails(p) \/ StackIsDeleted(p)
  BY <1>1, <1>7 DEF StackSettles, StackFails, StackIsDeleted, server, queue
<1>8. QED
  BY <1>2, <1>3, <1>4, <1>5, <1>6, <1>7 DEF Step

LEMMA RestInvInit == Init => RestInv
<1> SUFFICES ASSUME Init, NEW o \in Objects
             PROVE  /\ ~Exists(objs[o]) => objs[o] = Absent(o)
                    /\ local[o].obj = Absent(o)
  BY DEF RestInv
<1>1. local[o] = Idle(o)
  BY DEF Init
<1>2. \/ objs[o] = Absent(o) \/ objs[o].gen = 1
  BY DEF Init
<1>3. QED
  BY <1>1, <1>2 DEF Absent, Exists

LEMMA RestInvStep == TypeInv /\ RestInv /\ [Next]_vars => RestInv'
<1> SUFFICES ASSUME TypeInv, RestInv, [Next]_vars PROVE RestInv'
  OBVIOUS
<1>1. ASSUME NEW o \in Objects, objs'[o] = objs[o],
             \/ local'[o].obj = local[o].obj /\ (At(o, "idle")' <=> At(o, "idle"))
             \/ ~At(o, "idle")' \/ local'[o].obj = Absent(o)
      PROVE  (~Exists(objs[o]) => objs[o] = Absent(o))' /\ (At(o, "idle") => local[o].obj = Absent(o))'
  <2>1. Absent(o)' = Absent(o)
    BY DEF Absent, Idle
  <2>2. QED
    BY <1>1, <2>1 DEF RestInv, Exists
<1>2. ASSUME NEW p \in Objects, NEW o \in Objects,
             \/ Start(p) \/ Step(p) \/ TimerFires(p) \/ WriteSpec(p)
             \/ StackSettles(p) \/ StackFails(p) \/ StackIsDeleted(p)
      PROVE  (~Exists(objs[o]) => objs[o] = Absent(o))' /\ (At(o, "idle") => local[o].obj = Absent(o))'
  <2>1. CASE o # p
    BY <1>1, <1>2, <2>1, OnlyItsOwn DEF At
  <2>2. CASE o = p /\ Start(p)
    BY <1>1, <2>2, StartEffect DEF At
  <2>3. CASE o = p /\ (ObserveGeneration(p) \/ ResolveSource(p) \/ CheckDependency(p) \/ Deploy(p))
    BY <1>1, <2>3, WorkKeepsTheObject DEF At
  <2>4. CASE o = p /\ PatchStatus(p)
    <3>1. objs' = objs /\ local'[p].obj = Absent(p)
      BY <2>4, ReturnEffect DEF PatchStatus, Patch, Absent
    <3>2. QED
      BY <1>1, <2>4, <3>1
  <2>5. CASE o = p /\ WriteSpec(p)
    <3>1. objs'[p].gen = objs[p].gen + 1 /\ objs[p].gen \in Nat /\ local' = local
      BY <2>5, DependencyConstants DEF WriteSpec, TypeInv, TypeOK
    <3>2. Exists(objs'[p])
      BY <3>1 DEF Exists
    <3>3. Absent(p)' = Absent(p)
      BY DEF Absent, Idle
    <3>4. QED
      BY <2>5, <3>1, <3>2, <3>3 DEF RestInv, At, Exists
  <2>6. CASE \/ TimerFires(p) \/ StackSettles(p) \/ StackFails(p) \/ StackIsDeleted(p)
    <3>1. UNCHANGED <<objs, local>>
      BY <2>6 DEF TimerFires, StackSettles, StackFails, StackIsDeleted, server
    <3>2. QED
      BY <1>1, <3>1 DEF At
  <2>7. QED
    BY <1>2, <2>1, <2>2, <2>3, <2>4, <2>5, <2>6 DEF Step
<1>3. CASE CacheSync \/ (\E source \in Sources : SourceChanges(source)) \/ UNCHANGED vars
  <2>1. UNCHANGED <<objs, local>>
    BY <1>3 DEF CacheSync, SourceChanges, vars, server
  <2>2. QED
    BY <1>1, <2>1 DEF RestInv, At
<1>4. QED
  BY <1>2, <1>3 DEF Next, RestInv

\* Taking a key is a look.
LEMMA StartLooks ==
  ASSUME TypeInv, CopiesInv, RestInv, NEW o \in Objects, Start(o)
  PROVE  Loop(o)!Next
<1>1. /\ local[o].pc = "idle" /\ o \in queued /\ queued' = queued \ {o}
      /\ UNCHANGED <<objs, cached, delayed, stacks>>
      /\ ~Exists(cached.objs[o]) => local' = local
      /\ Exists(cached.objs[o]) => local'[o].pc # "idle" /\ local'[o].obj = cached.objs[o]
  BY StartEffect
<1>2. cached.objs[o] \in Objs /\ objs[o] \in Objs /\ CopyOf(cached.objs[o], objs[o])
  BY DEF TypeInv, TypeOK, CopiesInv, Objs
<1>3. cached.objs[o] = objs[o] \/ Due(o)'
  BY <1>1, <1>2 DEF CopyOf, Due
<1>4. Due(o) /\ Due(o)' \in BOOLEAN
  BY <1>1 DEF Due
<1>5. WorkerOf(o) = "idle" /\ PhaseOf(stacks[o])' = PhaseOf(stacks[o])
  BY <1>1 DEF WorkerOf, At, PhaseOf
<1>6. CASE Exists(cached.objs[o])
  <2>1. WorkerOf(o)' = "busy" /\ local'[o].obj \in LoopRequests
    BY <1>1, <1>2, <1>6, NobodyAsks DEF WorkerOf, At
  <2>2. Loop(o)!LookAt(local'[o].obj)
    BY <1>1, <1>3, <1>6, <2>1 DEF Loop!LookAt
  <2>3. Loop(o)!Look
    BY <1>1, <1>4, <1>5, <2>1, <2>2 DEF Loop!Look
  <2>4. QED
    BY <2>3 DEF Loop!Next
<1>7. CASE ~Exists(cached.objs[o])
  <2>1. WorkerOf(o)' = "idle" /\ local'[o].obj = Absent(o) /\ Absent(o)' = Absent(o)
    BY <1>1, <1>7 DEF WorkerOf, At, RestInv, Absent, Idle
  <2>2. Due(o)' \/ ~Loop(o)!NeedsWork(objs[o])
    <3>1. CASE cached.objs[o] = objs[o]
      <4>1. objs[o] \notin LoopRequests
        BY <1>2, <1>7, <3>1, NobodyAsks
      <4>2. QED
        BY <4>1 DEF Loop!NeedsWork, Loop!Wish
    <3>2. QED
      BY <1>3, <3>1
  <2>3. Loop(o)!Look
    BY <1>1, <1>4, <1>5, <2>1, <2>2 DEF Loop!Look
  <2>4. QED
    BY <2>3 DEF Loop!Next
<1>8. QED
  BY <1>6, <1>7

\* What a reconcile does to its stack is the loop's work.
LEMMA DeployWorks ==
  ASSUME TypeInv, NEW o \in Objects, Deploy(o)
  PROVE  [Loop(o)!Next]_(Loop(o)!loopVars)
<1>1. /\ local[o].pc # "idle" /\ local'[o].pc # "idle" /\ local'[o].obj = local[o].obj
      /\ UNCHANGED <<objs, cached, queued, delayed>>
  BY WorkKeepsTheObject DEF queue
<1>2. /\ WorkerOf(o) = "busy" /\ WorkerOf(o)' = "busy" /\ Due(o)' = Due(o)
      /\ At(o, "idle")' <=> At(o, "idle")
  BY <1>1 DEF WorkerOf, At, Due
<1>3. local[o].obj \in LoopRequests
  <2>1. local[o].obj \in Objs /\ Exists(local[o].obj)
    BY <1>1 DEF TypeInv, TypeOK, Locals, Objs, ReadingInv, At
  <2>2. QED
    BY <2>1, NobodyAsks
<1>4. Loop(o)!Wish(local[o].obj) = "deploy"
  BY <1>3 DEF Loop!Wish
<1>5. stacks \in [Objects -> Stacks] /\ stacks[o] \in Stacks
  BY DEF TypeInv, TypeOK, Stacks
<1>6. \/ PhaseOf(stacks'[o]) = PhaseOf(stacks[o])
      \/ PhaseOf(stacks[o]) = "broken" /\ PhaseOf(stacks'[o]) = "deleting"
      \/ PhaseOf(stacks[o]) \in {"absent", "present"} /\ PhaseOf(stacks'[o]) = "changing"
  <2>1. CASE UNCHANGED stacks
    BY <2>1
  <2>2. CASE Unrecoverable(o) /\ stacks' = [stacks EXCEPT ![o].status = "deleting"]
    BY <1>5, <2>2 DEF Unrecoverable, PhaseOf, Stacks
  <2>3. CASE HasFailed(o) /\ stacks' = [stacks EXCEPT ![o].status = "steady"]
    BY <1>5, <2>3 DEF HasFailed, PhaseOf, Stacks
  <2>4. CASE /\ stacks[o].status \notin {"changing", "deleting"} /\ ~Unrecoverable(o)
             /\ stacks' = [stacks EXCEPT ![o].status = "changing", ![o].target = Wanted(o)]
    <3>1. stacks'[o].status = "changing"
      BY <1>5, <2>4 DEF Stacks
    <3>2. PhaseOf(stacks'[o]) = "changing"
      BY <3>1 DEF PhaseOf
    <3>3. PhaseOf(stacks[o]) \in {"absent", "present"}
      BY <1>5, <2>4 DEF Unrecoverable, PhaseOf, Stacks
    <3>4. QED
      BY <3>2, <3>3
  <2>5. QED
    BY <2>1, <2>2, <2>3, <2>4 DEF Deploy
<1>7. CASE PhaseOf(stacks'[o]) = PhaseOf(stacks[o])
  <2>1. UNCHANGED Loop(o)!loopVars
    BY <1>1, <1>2, <1>7, LooksTheSame
  <2>2. QED
    BY <2>1
<1>8. CASE ~(PhaseOf(stacks'[o]) = PhaseOf(stacks[o]))
  <2>1. Loop(o)!Work
    BY <1>1, <1>2, <1>4, <1>6, <1>8 DEF Loop!Work, Loop!Busy
  <2>2. QED
    BY <2>1 DEF Loop!Next
<1>9. QED
  BY <1>7, <1>8

\* Every return leaves another look due.
LEMMA PatchFinishes ==
  ASSUME TypeInv, NEW o \in Objects, PatchStatus(o)
  PROVE  Loop(o)!Next
<1>1. Return(o) /\ UNCHANGED <<objs, cached, stacks>> /\ local[o].pc = "patch"
  BY DEF PatchStatus, Patch, At
<1>2. local'[o] = Idle(o)
  BY <1>1, ReturnEffect
<1>3. /\ WorkerOf(o) = "busy" /\ WorkerOf(o)' = "idle" /\ local'[o].obj = Absent(o)
      /\ Absent(o)' = Absent(o)
  BY <1>1, <1>2, AbsentType DEF WorkerOf, At, Absent, Idle
<1>4. Due(o)' = TRUE
  BY <1>1 DEF Return, Due
<1>5. PhaseOf(stacks[o])' = PhaseOf(stacks[o])
  BY <1>1 DEF PhaseOf
<1>6. Loop(o)!Finish
  BY <1>1, <1>3, <1>4, <1>5 DEF Loop!Finish, Loop!Rest, Loop!Busy
<1>7. QED
  BY <1>6 DEF Loop!Next

\* A write of the spec asks for something else.
LEMMA WriteAsks ==
  ASSUME TypeInv, CopiesInv, NEW o \in Objects, WriteSpec(o)
  PROVE  Loop(o)!Next
<1>1. PICK spec \in UserSpecs[o] : objs' = [objs EXCEPT ![o] = [gen |-> @.gen + 1, spec |-> spec]]
  BY DEF WriteSpec
<1>2. UNCHANGED <<cached, local, stacks, queued, delayed>> /\ objs[o].gen < MaxGeneration
  BY DEF WriteSpec, queue
<1>3. /\ objs \in [Objects -> Objs] /\ cached.objs[o] \in Objs /\ spec \in Specs
      /\ CopyOf(cached.objs[o], objs[o])
  BY <1>1, DependencyConstants DEF TypeInv, TypeOK, Objs, CopiesInv
<1>4. objs'[o] = [gen |-> objs[o].gen + 1, spec |-> spec]
  BY <1>1, <1>3
<1>5. objs[o].gen \in Nat /\ cached.objs[o].gen \in Nat /\ objs[o].gen + 1 \in 1..MaxGeneration
  BY <1>2, <1>3, DependencyConstants DEF Objs
<1>6. objs'[o] \in LoopRequests /\ objs'[o] # objs[o] /\ objs'[o].gen # cached'.objs[o].gen
  BY <1>2, <1>3, <1>4, <1>5 DEF LoopRequests, CopyOf
<1>7. Due(o)' = TRUE /\ WorkerOf(o)' = WorkerOf(o) /\ PhaseOf(stacks[o])' = PhaseOf(stacks[o])
  BY <1>2, <1>6 DEF Due, WorkerOf, At, PhaseOf
<1>8. ~Loop(o)!Leaving(objs[o])
  BY DEF Loop!Leaving, Loop!Wish
<1>9. Loop(o)!Ask
  BY <1>2, <1>6, <1>7, <1>8 DEF Loop!Ask
<1>10. QED
  BY <1>9 DEF Loop!Next

\* What the service does to a stack.
LEMMA StacksSettle ==
  ASSUME TypeInv, EmptiedInv, NEW o \in Objects,
         StackSettles(o) \/ StackFails(o) \/ StackIsDeleted(o)
  PROVE  [Loop(o)!Next]_(Loop(o)!loopVars)
<1>1. UNCHANGED <<objs, cached, local, queued, delayed>>
  BY DEF StackSettles, StackFails, StackIsDeleted, server, queue
<1>2. Due(o)' = Due(o) /\ WorkerOf(o)' = WorkerOf(o) /\ (At(o, "idle")' <=> At(o, "idle"))
  BY <1>1 DEF Due, WorkerOf, At
<1>3. stacks \in [Objects -> Stacks] /\ stacks[o] \in Stacks
  BY DEF TypeInv, TypeOK, Stacks
<1>4. \/ PhaseOf(stacks[o]) = "changing" /\ PhaseOf(stacks'[o]) \in {"present", "broken"}
      \/ PhaseOf(stacks[o]) = "deleting" /\ PhaseOf(stacks'[o]) = "absent"
  <2>1. CASE StackSettles(o)
    <3>1. stacks[o].target # NoContent
      <4>1. stacks[o].target \in Contents
        BY <2>1 DEF StackSettles, TypeInv, ReadingInv
      <4>2. NoContent \notin Contents
        BY DependencyConstants DEF NoContent, Contents
      <4>3. QED
        BY <4>1, <4>2
    <3>2. stacks'[o].status = "steady" /\ stacks'[o].content = stacks[o].target
      BY <1>3, <2>1 DEF StackSettles, Stacks
    <3>3. QED
      BY <2>1, <3>1, <3>2 DEF StackSettles, PhaseOf
  <2>2. CASE StackFails(o)
    BY <1>3, <2>2 DEF StackFails, PhaseOf, Stacks
  <2>3. CASE StackIsDeleted(o)
    BY <1>3, <2>3 DEF StackIsDeleted, PhaseOf, Stacks, EmptiedInv
  <2>4. QED
    BY <2>1, <2>2, <2>3
<1>5. Loop(o)!Settle
  <2>1. PhaseOf(stacks[o])' = PhaseOf(stacks'[o])
    BY DEF PhaseOf
  <2>2. QED
    BY <1>1, <1>2, <1>4, <2>1 DEF Loop!Settle
<1>6. QED
  BY <1>5 DEF Loop!Next

\* The source's news is a reminder to those it queues; the delivery of what was written
\* changes only how a look is due.
LEMMA NewsReminds ==
  ASSUME NEW o \in Objects,
         CacheSync \/ (\E source \in Sources : SourceChanges(source)) \/ UNCHANGED vars
  PROVE  [Loop(o)!Next]_(Loop(o)!loopVars)
<1>1. UNCHANGED <<objs, local, stacks>>
  BY DEF CacheSync, SourceChanges, vars, server
<1>2. /\ WorkerOf(o)' = WorkerOf(o) /\ PhaseOf(stacks[o])' = PhaseOf(stacks[o])
      /\ At(o, "idle")' <=> At(o, "idle")
  BY <1>1 DEF WorkerOf, At, PhaseOf
<1>3. CASE Due(o)' <=> Due(o)
  <2>1. UNCHANGED Loop(o)!loopVars
    BY <1>1, <1>2, <1>3, LooksTheSame
  <2>2. QED
    BY <2>1
<1>4. CASE ~(Due(o)' <=> Due(o))
  <2>1. Due(o)' = TRUE
    <3>1. CASE CacheSync
      BY <1>4, <3>1 DEF CacheSync, Enqueue, Due, server
    <3>2. CASE \E source \in Sources : SourceChanges(source)
      BY <1>4, <3>2 DEF SourceChanges, Enqueue, Due, server
    <3>3. CASE UNCHANGED vars
      BY <1>4, <3>3 DEF vars, Due
    <3>4. QED
      BY <3>1, <3>2, <3>3
  <2>2. Loop(o)!Remind
    BY <1>1, <1>2, <2>1 DEF Loop!Remind
  <2>3. QED
    BY <2>2 DEF Loop!Next
<1>5. QED
  BY <1>3, <1>4

LEMMA StepsAreTheLoops ==
  ASSUME TypeInv, CopiesInv, RestInv, EmptiedInv, [Next]_vars, NEW o \in Objects
  PROVE  [Loop(o)!Next]_(Loop(o)!loopVars)
<1>1. ASSUME NEW p \in Objects, p # o,
             \/ Start(p) \/ Step(p) \/ TimerFires(p) \/ WriteSpec(p)
             \/ StackSettles(p) \/ StackFails(p) \/ StackIsDeleted(p)
      PROVE  UNCHANGED Loop(o)!loopVars
  <2>1. /\ cached' = cached /\ objs'[o] = objs[o] /\ local'[o] = local[o]
        /\ stacks'[o] = stacks[o] /\ (o \in queued' \cup delayed' <=> o \in queued \cup delayed)
    BY <1>1, OnlyItsOwn
  <2>2. (Due(o)' <=> Due(o)) /\ (At(o, "idle")' <=> At(o, "idle"))
    BY <2>1 DEF Due, At
  <2>3. QED
    BY <2>1, <2>2, LooksTheSame
<1>2. CASE ObserveGeneration(o) \/ ResolveSource(o) \/ CheckDependency(o)
  <2>1. /\ local[o].pc # "idle" /\ local'[o].pc # "idle" /\ local'[o].obj = local[o].obj
        /\ UNCHANGED <<objs, cached, queued, delayed>>
    BY <1>2, WorkKeepsTheObject DEF queue
  <2>2. UNCHANGED stacks
    BY <1>2 DEF ObserveGeneration, ResolveSource, CheckDependency, Inside
  <2>3. (Due(o)' <=> Due(o)) /\ (At(o, "idle")' <=> At(o, "idle"))
    BY <2>1 DEF Due, At
  <2>4. UNCHANGED Loop(o)!loopVars
    BY <2>1, <2>2, <2>3, LooksTheSame
  <2>5. QED
    BY <2>4
<1>3. CASE TimerFires(o)
  <2>1. UNCHANGED <<objs, cached, local, stacks>> /\ o \in delayed /\ o \in queued'
    BY <1>3 DEF TimerFires, Enqueue, server
  <2>2. (Due(o)' <=> Due(o)) /\ (At(o, "idle")' <=> At(o, "idle"))
    BY <2>1 DEF Due, At
  <2>3. UNCHANGED Loop(o)!loopVars
    BY <2>1, <2>2, LooksTheSame
  <2>4. QED
    BY <2>3
<1>4. CASE StackSettles(o) \/ StackFails(o) \/ StackIsDeleted(o)
  BY <1>4, StacksSettle
<1>5. QED
  BY <1>1, <1>2, <1>3, <1>4, StartLooks, DeployWorks, PatchFinishes, WriteAsks, NewsReminds
     DEF Next, Step

LEMMA InitIsTheLoops ==
  ASSUME Init, NEW o \in Objects
  PROVE  Loop(o)!Init
<1>1. TypeInv /\ RestInv
  BY TypeInvInit, RestInvInit
<1>2. /\ local[o] = Idle(o) /\ cached.objs = objs
      /\ delayed = {} /\ queued = {p \in Objects : Exists(objs[p])}
  BY DEF Init
<1>3. WorkerOf(o) = "idle" /\ local[o].obj = Absent(o)
  BY <1>2, AbsentType DEF WorkerOf, At, Absent
<1>4. objs[o] \in Objs
  BY <1>1 DEF TypeInv, TypeOK, Objs
<1>5. objs[o] \in LoopRequests \cup {Absent(o)}
  BY <1>1, <1>4, NobodyAsks DEF RestInv
<1>6. Due(o) = (objs[o] # Absent(o))
  <2>1. Due(o) <=> Exists(objs[o])
    BY <1>2 DEF Due
  <2>2. Exists(objs[o]) <=> objs[o] # Absent(o)
    BY <1>1, <1>4, <1>5, NobodyAsks DEF RestInv
  <2>3. QED
    BY <2>1, <2>2 DEF Due
<1>7. PhaseOf(stacks[o]) = "absent"
  BY DEF Init, PhaseOf
<1>8. QED
  BY <1>3, <1>5, <1>6, <1>7 DEF Loop!Init, Loop!Phases

\* Every object has a loop of its own: whatever happens to it and to the others, in
\* whatever order, each step is one that ReconcileLoop may take for it, or none it sees.
THEOREM EachObjectHasItsLoop == Spec => EachHasItsLoop
<1>1. Init => \A o \in Objects : Loop(o)!Init
  BY InitIsTheLoops
<1>2. TypeInv /\ CopiesInv /\ RestInv /\ EmptiedInv /\ [Next]_vars =>
        [ \A o \in Objects : [Loop(o)!Next]_(Loop(o)!loopVars) ]_vars
  BY StepsAreTheLoops
<1>3. Init => CopiesInv /\ RestInv /\ EmptiedInv
  BY WaitInvInit, RestInvInit, EmptiedInvInit DEF WaitInv
<1>4. /\ TypeInv /\ CopiesInv /\ [Next]_vars => CopiesInv'
      /\ TypeInv /\ RestInv /\ [Next]_vars => RestInv'
      /\ TypeInv /\ EmptiedInv /\ [Next]_vars => EmptiedInv'
  BY CopiesStep, RestInvStep, EmptiedInvStep
<1>5. QED
  BY <1>1, <1>2, <1>3, <1>4, TypeCorrectness, PTL DEF Spec, EachHasItsLoop

\* So what holds of every such loop holds of each object's: its specification follows
\* from the controller's.
THEOREM EachFollowsTheLoop ==
  ASSUME NEW o \in Objects
  PROVE  Spec => Loop(o)!Spec
<1>1. Init => Loop(o)!Init
  BY InitIsTheLoops
<1>2. TypeInv /\ CopiesInv /\ RestInv /\ EmptiedInv /\ [Next]_vars =>
        [Loop(o)!Next]_(Loop(o)!loopVars)
  BY StepsAreTheLoops
<1>3. Init => CopiesInv /\ RestInv /\ EmptiedInv
  BY WaitInvInit, RestInvInit, EmptiedInvInit DEF WaitInv
<1>4. /\ TypeInv /\ CopiesInv /\ [Next]_vars => CopiesInv'
      /\ TypeInv /\ RestInv /\ [Next]_vars => RestInv'
      /\ TypeInv /\ EmptiedInv /\ [Next]_vars => EmptiedInv'
  BY CopiesStep, RestInvStep, EmptiedInvStep
<1>5. QED
  BY <1>1, <1>2, <1>3, <1>4, TypeCorrectness, PTL DEF Spec, Loop!Spec

==============================================================================
