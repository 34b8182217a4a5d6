------------------------ MODULE DependenciesRefinement ------------------------
(***************************************************************************)
(* The refinement mapping from Dependencies to ReconcileLoop: each of the  *)
(* objects is reconciled by a loop of its own, whatever the others do.     *)
(***************************************************************************)
EXTENDS Dependencies

\* A stack that never was, or was deleted, holds nothing; one whose creation failed is
\* beyond repair, one whose update failed has been rolled back.
PhaseOf(s) ==
  CASE s.status = "changing" -> "changing"
    [] s.status = "deleting" -> "deleting"
    [] s.status = "failed" /\ s.content = NoContent -> "broken"
    [] s.status = "steady" /\ s.content = NoContent -> "absent"
    [] OTHER -> "present"

LoopRequests == [gen : 1..MaxGeneration, spec : Specs]

WorkerOf(o) == IF At(o, "idle") THEN "idle" ELSE "busy"

\* The key is to be taken from the queue now or later, or the watch will put it there.
Due(o) == o \in queued \cup delayed \/ objs[o].gen # cached.objs[o].gen

\* Objects are neither suspended nor deleted here, and the finalizer is not modelled.
Loop(o) == INSTANCE ReconcileLoop WITH
  Requests <- LoopRequests, Nobody <- Absent(o),
  WishOf <- [r \in LoopRequests |-> "deploy"], Shared <- FALSE,
  asked <- objs[o], guarded <- FALSE,
  phase <- PhaseOf(stacks[o]),
  worker <- WorkerOf(o), view <- local[o].obj, due <- Due(o)

\* Each object has a loop that looks at it again whenever it or its source changes, and
\* works on its stack for what it has looked at: it takes nothing from the others but
\* the permission to start, and no event of theirs disturbs it.
EachHasItsLoop ==
  /\ \A o \in Objects : Loop(o)!Init
  /\ [][ \A o \in Objects : [Loop(o)!Next]_(Loop(o)!loopVars) ]_vars

==============================================================================
