------------------------- MODULE ReconcileLoopProofs -------------------------
(***************************************************************************)
(* What ReconcileLoop says of every loop that implements it, whatever can  *)
(* be asked for.                                                           *)
(***************************************************************************)
EXTENDS ReconcileLoop, TLAPS

\* There is always the possibility that nothing is asked for, and every request has
\* a wish.
LoopConstants ==
  /\ Nobody \notin Requests
  /\ WishOf \in [Requests -> Wishes]
  /\ Shared \in BOOLEAN

-----------------------------------------------------------------------------
\* Every variable stays in the set its comment describes.
THEOREM LoopTypeCorrect ==
  ASSUME LoopConstants
  PROVE  Spec => []LoopTypeOK
<1>1. Init => LoopTypeOK
  BY DEF Init, LoopTypeOK
<1>2. LoopTypeOK /\ [Next]_loopVars => LoopTypeOK'
  <2> SUFFICES ASSUME LoopTypeOK, [Next]_loopVars PROVE LoopTypeOK'
    OBVIOUS
  <2>1. CASE Ask \/ Withdraw \/ Remind
    BY <2>1 DEF Ask, Withdraw, Remind, LoopTypeOK
  <2>2. CASE Look \/ Guard
    BY <2>2 DEF Look, LookAt, Guard, Rest, LoopTypeOK
  <2>3. CASE Work \/ Finish \/ Release
    BY <2>3 DEF Work, Finish, Release, Rest, Phases, LoopTypeOK
  <2>4. CASE Die \/ Revive \/ Settle
    BY <2>4 DEF Die, Revive, Settle, Phases, LoopTypeOK
  <2>5. CASE UNCHANGED loopVars
    BY <2>5 DEF loopVars, LoopTypeOK
  <2>6. QED
    BY <2>1, <2>2, <2>3, <2>4, <2>5 DEF Next
<1>3. QED
  BY <1>1, <1>2, PTL DEF Spec

\* Whoever asks is heard: no worker, busy or idle, is left without another look due
\* when it does not work for what is asked.
THEOREM AlwaysAttentive ==
  ASSUME LoopConstants
  PROVE  Spec => []Attentive
<1>1. Init => Attentive
  BY DEF Init, Attentive, NeedsWork, Wish, LoopConstants
<1>2. Attentive /\ [Next]_loopVars => Attentive'
  <2> SUFFICES ASSUME Attentive, [Next]_loopVars PROVE Attentive'
    OBVIOUS
  <2>1. CASE Ask \/ Withdraw \/ Remind
    BY <2>1 DEF Ask, Withdraw, Remind, Attentive
  <2>2. CASE Look
    BY <2>2 DEF Look, LookAt, Attentive, NeedsWork, Wish
  <2>3. CASE Guard \/ Finish
    BY <2>3 DEF Guard, Finish, Rest, Attentive, NeedsWork, Wish
  <2>4. CASE Release \/ Die
    BY <2>4 DEF Release, Die, Attentive
  <2>5. CASE Revive
    BY <2>5 DEF Revive, Attentive, NeedsWork, Wish, LoopConstants
  <2>6. CASE Work \/ Settle \/ UNCHANGED loopVars
    BY <2>6 DEF Work, Settle, loopVars, Attentive, NeedsWork, Wish
  <2>7. QED
    BY <2>1, <2>2, <2>3, <2>4, <2>5, <2>6 DEF Next
<1>3. QED
  BY <1>1, <1>2, PTL DEF Spec

\* An object that wants its stack destroyed goes away only after the stack, from the
\* moment it has its finalizer.
THEOREM GuardAlwaysHolds ==
  ASSUME LoopConstants
  PROVE  Spec => GuardHolds
<1>1. [Next]_loopVars =>
        [ asked' = Nobody /\ asked \in Requests /\ guarded /\ Wish(asked) = "destroy"
          => phase = "absent" ]_loopVars
  <2> SUFFICES ASSUME Next, asked' = Nobody, asked \in Requests, guarded,
                      Wish(asked) = "destroy"
               PROVE  phase = "absent"
    OBVIOUS
  <2>1. Withdraw \/ Release
    BY DEF LoopConstants, Next, Ask, Remind, Look, Guard, Work, Finish, Die, Revive, Settle
  <2>2. QED
    BY <2>1 DEF Withdraw, Release
<1>2. QED
  BY <1>1, PTL DEF Spec, GuardHolds

\* Unless others delete the stack, the deletion of one that could still be used
\* begins only for a request that wants it destroyed.
THEOREM DeletionAlwaysWished ==
  ASSUME LoopConstants
  PROVE  Spec => DeletionIsWished
<1>1. [Next]_loopVars =>
        [ ~Shared /\ phase' = "deleting" /\ phase \in {"absent", "changing", "present"}
          => worker = "busy" /\ Wish(view) = "destroy" ]_loopVars
  <2> SUFFICES ASSUME Next, ~Shared, phase' = "deleting",
                      phase \in {"absent", "changing", "present"}
               PROVE  worker = "busy" /\ Wish(view) = "destroy"
    OBVIOUS
  <2>1. Work
    BY DEF Next, Ask, Withdraw, Remind, Look, Guard, Finish, Release, Die, Revive, Settle
  <2>2. QED
    BY <2>1 DEF Work, Busy
<1>2. QED
  BY <1>1, PTL DEF Spec, DeletionIsWished
==============================================================================
