---------------------------- MODULE ReconcileLoop ----------------------------
(***************************************************************************)
(* What the controller promises for one object and its stack, without      *)
(* saying how it does it: a loop looks at what is asked for and works on   *)
(* the stack, one reconcile at a time.  What it has looked at may be       *)
(* outdated while it works; then it is due to look again.                  *)
(*                                                                         *)
(* StackRefinement shows that StackController implements this.             *)
(***************************************************************************)
CONSTANTS Requests,  \* what can be asked for
          Nobody,    \* nothing is: there is no object
          WishOf,    \* each request's wish
          Shared     \* whether others may delete the stack

Wishes == {"deploy", "pause", "destroy", "release"}

\* Absent, being created or updated, there and updatable, there and beyond
\* repair, being deleted.
Phases == {"absent", "changing", "present", "broken", "deleting"}

VARIABLES asked,    \* what is asked for
          guarded,  \* the request does not go away by itself (the finalizer)
          phase,    \* the stack
          worker,   \* "idle", "busy" or "down"
          view,     \* the request a busy worker works for
          due       \* another look is due

loopVars == <<asked, guarded, phase, worker, view, due>>

LoopTypeOK ==
  /\ asked \in Requests \cup {Nobody} /\ guarded \in BOOLEAN
  /\ phase \in Phases
  /\ worker \in {"idle", "busy", "down"} /\ view \in Requests \cup {Nobody}
  /\ due \in BOOLEAN

Init ==
  /\ asked \in Requests \cup {Nobody} /\ guarded = FALSE
  /\ phase \in Phases
  /\ worker = "idle" /\ view = Nobody /\ due = (asked # Nobody)

Wish(r) == IF r \in Requests THEN WishOf[r] ELSE "none"

Leaving(r) == Wish(r) \in {"destroy", "release"}

\* Without these nothing is left to do, now or later.
NeedsWork(r) == Wish(r) \in {"deploy", "destroy", "release"}

-----------------------------------------------------------------------------
(* Those who ask.                                                            *)

\* An object that is being deleted stays so.
Ask ==
  /\ asked' \in Requests /\ asked' # asked
  /\ Leaving(asked) => Leaving(asked')
  /\ guarded' = (guarded /\ asked # Nobody)
  /\ due' = TRUE
  /\ UNCHANGED <<phase, worker, view>>

\* What nobody guards goes away when it is deleted.
Withdraw ==
  /\ asked \in Requests /\ ~guarded
  /\ asked' = Nobody /\ due' = TRUE
  /\ UNCHANGED <<guarded, phase, worker, view>>

\* There is news of something the request depends on.
Remind ==
  /\ due' = TRUE
  /\ UNCHANGED <<asked, guarded, phase, worker, view>>

-----------------------------------------------------------------------------
(* The loop.                                                                 *)

Busy == worker = "busy"

\* A reconcile ends for now: with another look due, unless nothing needs one.
Rest ==
  /\ worker' = "idle" /\ view' = Nobody
  /\ due' \in BOOLEAN
  /\ due' \/ (due' = due /\ ~NeedsWork(asked))

\* The worker works for what is asked now, or has yet to hear of it.
LookAt(r) == worker' = "busy" /\ view' = r /\ (r = asked \/ due')

Look ==
  /\ worker = "idle" /\ due
  /\ due' \in BOOLEAN
  /\ \/ view' \in Requests /\ LookAt(view')
     \/ worker' = "idle" /\ view' = Nobody /\ (due' \/ ~NeedsWork(asked))
  /\ UNCHANGED <<asked, guarded, phase>>

\* The finalizer is there, and with it comes the request as it is now.
Guard ==
  /\ Busy /\ asked \in Requests
  /\ guarded' = TRUE
  /\ Rest \/ (worker' = "busy" /\ view' = asked /\ UNCHANGED due)
  /\ UNCHANGED <<asked, phase>>

\* One action on the stack.
Work ==
  /\ Busy
  /\ \/ Wish(view) = "deploy" /\ phase \in {"absent", "present"} /\ phase' = "changing"
     \/ Wish(view) = "deploy" /\ phase = "broken" /\ phase' = "deleting"
     \/ Wish(view) = "destroy" /\ phase \in {"present", "broken"} /\ phase' = "deleting"
  /\ UNCHANGED <<asked, guarded, worker, view, due>>

Finish ==
  /\ Busy /\ Rest
  /\ UNCHANGED <<asked, guarded, phase>>

\* The object goes away only as it was asked to, and after its stack if that was
\* asked for too.
Release ==
  /\ Busy /\ view = asked
  /\ Wish(asked) = "release" \/ (Wish(asked) = "destroy" /\ phase = "absent")
  /\ asked' = Nobody /\ guarded' = FALSE
  /\ worker' = "idle" /\ view' = Nobody /\ due' = TRUE
  /\ UNCHANGED phase

\* The process dies; the next one looks at whatever is asked.
Die ==
  /\ worker # "down"
  /\ worker' = "down" /\ view' = Nobody /\ due' = TRUE
  /\ UNCHANGED <<asked, guarded, phase>>

Revive ==
  /\ worker = "down"
  /\ worker' = "idle" /\ view' = Nobody /\ due' = (asked # Nobody)
  /\ UNCHANGED <<asked, guarded, phase>>

-----------------------------------------------------------------------------
(* The stack.                                                                *)

Settle ==
  /\ \/ phase = "changing" /\ phase' \in {"present", "broken"}
     \/ phase = "deleting" /\ phase' \in {"absent", "broken"}
     \/ Shared /\ phase \in {"present", "broken"} /\ phase' = "deleting"
  /\ UNCHANGED <<asked, guarded, worker, view, due>>

Next ==
  \/ Ask \/ Withdraw \/ Remind
  \/ Look \/ Guard \/ Work \/ Finish \/ Release \/ Die \/ Revive
  \/ Settle

Spec == Init /\ [][Next]_loopVars

-----------------------------------------------------------------------------
\* Whoever asks is heard: a worker that works for something else, or none, while
\* there is work, has another look due.
Attentive ==
  /\ worker = "busy" => view = asked \/ due
  /\ worker = "idle" /\ NeedsWork(asked) => due

\* What is guarded and wants its stack destroyed goes away only after the stack.
GuardHolds ==
  [][ asked' = Nobody /\ asked \in Requests /\ guarded /\ Wish(asked) = "destroy"
      => phase = "absent" ]_loopVars

\* Unless others do it, the deletion of a stack that could still be used begins
\* only for a request that wants it destroyed.
DeletionIsWished ==
  [][ ~Shared /\ phase' = "deleting" /\ phase \in {"absent", "changing", "present"}
      => worker = "busy" /\ Wish(view) = "destroy" ]_loopVars

\* Again and again a worker works for what is asked now.
LooksAgain == []<>(NeedsWork(asked) => worker = "busy" /\ view = asked)

==============================================================================
