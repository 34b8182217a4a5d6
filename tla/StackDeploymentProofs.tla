------------------------ MODULE StackDeploymentProofs ------------------------
(***************************************************************************)
(* Why the controller deploys what it read, and reports success only for   *)
(* that: names tell what change sets hold, and what was executed last is   *)
(* what the stack holds.                                                   *)
(***************************************************************************)
EXTENDS StackControllerProofs

\* A generation of the object has one spec, whichever copy of it is read.
SameSpec(o, p) == Exists(o) /\ o.gen = p.gen => o.spec = p.spec

GenerationsTell ==
  /\ SameSpec(cachedObj, obj) /\ SameSpec(cfnObj, obj) /\ SameSpec(cfnObj, cachedObj)
  /\ Exists(obj) => cachedObj.gen <= obj.gen /\ cfnObj.gen <= obj.gen

\* A change set with the object's generation in its name holds what the object's spec
\* renders to at the revision in its name.
Rendered(a, o) ==
  a.name.generation = o.gen => css[a].content = Render[<<o.spec.template, a.name.revision>>]

NamesTell ==
  \A a \in Arns : Live(a) =>
    /\ Exists(obj) => a.name.generation <= obj.gen
    /\ Rendered(a, obj) /\ Rendered(a, cachedObj) /\ Rendered(a, cfnObj)

\* The change set a reconcile works with is the one it wants.
ArnIsWanted ==
  /\ pc \in {"describeStack", "describeChangeSet"} =>
       clientStack.arn = NoArn \/ clientStack.arn.name = DesiredName
  /\ pc \in {"deleteEmpty", "deleteFailed", "execute"} =>
       clientStack.arn \in Arns /\ clientStack.arn.name = DesiredName

NameInv == GenerationsTell /\ NamesTell /\ ArnIsWanted

-----------------------------------------------------------------------------
(* Names.                                                                   *)

\* What lives has lived, with the same content.
NoNewContents == \A a \in Arns : Live(a)' => Live(a) /\ css'[a].content = css[a].content

LEMMA ArnsHaveGenerations ==
  ASSUME NEW a \in Arns
  PROVE  a.name.generation \in 1..MaxGeneration
BY DEF Arns, ChangeSetNames

LEMMA Numbers ==
  ASSUME TypeInv
  PROVE  /\ obj.gen \in Nat /\ cachedObj.gen \in Nat /\ cfnObj.gen \in Nat
         /\ NoObject.gen = 0 /\ ~Exists(NoObject)
         /\ css \in [Arns -> Descriptions]
BY NoObjectType, ServiceConstants
   DEF TypeInv, TypeOK, ServerTypeOK, CacheTypeOK, LocalTypeOK, ServiceTypeOK, Objects, Exists

\* Copies are copied, or forgotten; the object keeps its generation, or goes away.
LEMMA CopiesKeepNames ==
  ASSUME TypeInv, GenerationsTell, NamesTell, NoNewContents,
         (obj'.gen = obj.gen /\ obj'.spec = obj.spec) \/ obj' = NoObject,
         cachedObj' \in {cachedObj, obj', NoObject},
         cfnObj' \in {cfnObj, cachedObj, obj', NoObject}
  PROVE  GenerationsTell' /\ NamesTell'
<1>1. /\ obj.gen \in Nat /\ cachedObj.gen \in Nat /\ cfnObj.gen \in Nat
      /\ NoObject.gen = 0 /\ ~Exists(NoObject)
  BY Numbers
<1>2. GenerationsTell'
  BY <1>1 DEF GenerationsTell, SameSpec, Exists
<1>3. ASSUME NEW a \in Arns, Live(a)'
      PROVE  /\ Exists(obj') => a.name.generation <= obj'.gen
             /\ Rendered(a, obj)' /\ Rendered(a, cachedObj)' /\ Rendered(a, cfnObj)'
  <2>1. /\ Exists(obj) => a.name.generation <= obj.gen
        /\ Rendered(a, obj) /\ Rendered(a, cachedObj) /\ Rendered(a, cfnObj)
        /\ css'[a].content = css[a].content
    BY <1>3 DEF NamesTell, NoNewContents
  <2>2. a.name.generation > 0 /\ a.name.generation \in Nat
    BY ArnsHaveGenerations, ServiceConstants
  <2>3. Exists(obj') => a.name.generation <= obj'.gen
    BY <1>1, <2>1 DEF Exists
  <2>4. Rendered(a, obj)'
    BY <1>1, <2>1, <2>2 DEF Rendered
  <2>5. Rendered(a, cachedObj)'
    BY <1>1, <2>1, <2>2, <2>4 DEF Rendered
  <2>6. Rendered(a, cfnObj)'
    BY <1>1, <2>1, <2>2, <2>4 DEF Rendered
  <2>7. QED
    BY <2>3, <2>4, <2>5, <2>6
<1>4. QED
  BY <1>2, <1>3 DEF NamesTell

\* A new generation has no change sets yet.
LEMMA EditsKeepNames ==
  ASSUME TypeInv, GenerationsTell, NamesTell, EditSpec \/ DeleteObject
  PROVE  GenerationsTell' /\ NamesTell'
<1>1. UNCHANGED <<cachedObj, cfnObj, css>> /\ Exists(obj)
  BY DEF EditSpec, DeleteObject, CacheUnsynced, Overtaken, service
<1>2. NoNewContents
  BY <1>1 DEF NoNewContents, Live
<1>3. CASE obj' = NoObject
  BY <1>1, <1>2, <1>3, CopiesKeepNames
<1>4. CASE obj' # NoObject
  <2>1. obj'.gen = obj.gen + 1
    BY <1>4 DEF EditSpec, DeleteObject, TypeInv, TypeOK, ServerTypeOK, Objects
  <2>2. /\ obj.gen \in Nat /\ cachedObj.gen \in Nat /\ cfnObj.gen \in Nat
    BY Numbers
  <2>3. GenerationsTell'
    BY <1>1, <2>1, <2>2 DEF GenerationsTell, SameSpec, Exists
  <2>4. ASSUME NEW a \in Arns, Live(a)'
        PROVE  /\ Exists(obj') => a.name.generation <= obj'.gen
               /\ Rendered(a, obj)' /\ Rendered(a, cachedObj)' /\ Rendered(a, cfnObj)'
    <3>1. /\ a.name.generation <= obj.gen
          /\ Rendered(a, cachedObj) /\ Rendered(a, cfnObj)
      BY <1>1, <2>4 DEF NamesTell, Live
    <3>2. a.name.generation \in Nat
      BY ArnsHaveGenerations, ServiceConstants
    <3>3. QED
      BY <1>1, <2>1, <2>2, <3>1, <3>2 DEF Rendered
  <2>5. QED
    BY <2>3, <2>4 DEF NamesTell
<1>5. QED
  BY <1>3, <1>4

\* A new change set is named after what it holds.
LEMMA CreationKeepsNames ==
  ASSUME TypeInv, GenerationsTell, NamesTell, CreateChangeSet
  PROVE  GenerationsTell' /\ NamesTell'
<1>1. UNCHANGED <<obj, cachedObj, cfnObj>> /\ pc = "create"
  BY DEF CreateChangeSet, Call, Report, ApiCallFails, Outside, server, cache, At
<1>2. GenerationsTell'
  BY <1>1 DEF GenerationsTell, SameSpec, Exists
<1>3. CASE UNCHANGED css
  <2>1. NoNewContents
    BY <1>3 DEF NoNewContents, Live
  <2>2. QED
    BY <1>1, <2>1, CopiesKeepNames
<1>4. CASE ~UNCHANGED css
  <2>1. PICK arn \in Arns :
          /\ arn.name = DesiredName
          /\ css' = [css EXCEPT ![arn] =
                       [content |-> Render[<<cfnObj.spec.template, clientStack.revision>>],
                        status |-> "CREATE_IN_PROGRESS", execution |-> "UNAVAILABLE",
                        reason |-> "none"]]
    BY <1>4 DEF CreateChangeSet, Call, CreateChangeSetCall, service, NewArns
  <2>2. /\ arn.name.generation = cfnObj.gen /\ arn.name.revision = clientStack.revision
    BY <2>1 DEF DesiredName, GetChangeSetName
  <2>3. /\ css[arn]'.content = Render[<<cfnObj.spec.template, arn.name.revision>>]
        /\ \A a \in Arns \ {arn} : css[a]' = css[a]
    BY <2>1, <2>2, Numbers
  <2>4. /\ obj.gen \in Nat /\ cachedObj.gen \in Nat /\ cfnObj.gen \in Nat
    BY Numbers
  <2>5. cfnObj.gen > 0
    BY <2>2, <2>4, ArnsHaveGenerations, ServiceConstants
  <2>6. Rendered(arn, obj)' /\ Rendered(arn, cachedObj)' /\ Rendered(arn, cfnObj)'
    BY <1>1, <2>2, <2>3, <2>5 DEF Rendered, GenerationsTell, SameSpec, Exists
  <2>7. Exists(obj') => arn.name.generation <= obj'.gen
    BY <1>1, <2>2 DEF GenerationsTell
  <2>8. ASSUME NEW a \in Arns \ {arn}, Live(a)'
        PROVE  /\ Exists(obj') => a.name.generation <= obj'.gen
               /\ Rendered(a, obj)' /\ Rendered(a, cachedObj)' /\ Rendered(a, cfnObj)'
    BY <1>1, <2>3, <2>8 DEF NamesTell, Live, Rendered
  <2>9. NamesTell'
    BY <2>6, <2>7, <2>8 DEF NamesTell
  <2>10. QED
    BY <1>2, <2>9
<1>5. QED
  BY <1>3, <1>4

\* The service and the client's other calls only advance and delete change sets.
LEMMA CallsKeepContents ==
  ASSUME TypeInv, NEW arn \in Arns \cup {NoArn}
  PROVE  /\ ExecuteChangeSetCall(arn) => NoNewContents
         /\ DeleteChangeSetCall(arn) => NoNewContents
         /\ DeleteStackCall => NoNewContents
         /\ ContinueRollbackCall => NoNewContents
         /\ UNCHANGED css => NoNewContents
<1>1. css \in [Arns -> Descriptions]
  BY Numbers
<1>2. ASSUME ExecuteChangeSetCall(arn) PROVE NoNewContents
  <2>1. SUFFICES ASSUME NEW a \in Arns, Live(a)'
                 PROVE  Live(a) /\ css'[a].content = css[a].content
    BY DEF NoNewContents
  <2>2. css'[a] = IF a = arn THEN [css[a] EXCEPT !.execution = "EXECUTE_IN_PROGRESS"]
                  ELSE Deleted
    BY <1>2 DEF ExecuteChangeSetCall
  <2>3. a = arn
    BY <2>1, <2>2 DEF Live, Deleted
  <2>4. QED
    BY <1>1, <2>1, <2>2, <2>3 DEF Live, Descriptions
<1>3. ASSUME DeleteChangeSetCall(arn) PROVE NoNewContents
  <2>1. SUFFICES ASSUME NEW a \in Arns, Live(a)'
                 PROVE  Live(a) /\ css'[a].content = css[a].content
    BY DEF NoNewContents
  <2>2. CASE a # arn
    BY <1>1, <1>3, <2>1, <2>2 DEF DeleteChangeSetCall, Live
  <2>3. CASE a = arn
    <3>1. css'[a] = [css[a] EXCEPT !.status = IF Live(a) THEN "DELETE_IN_PROGRESS" ELSE @]
      BY <1>1, <1>3, <2>3 DEF DeleteChangeSetCall
    <3>2. QED
      BY <1>1, <2>1, <3>1 DEF Live, Descriptions
  <2>4. QED
    BY <2>2, <2>3
<1>4. UNCHANGED css => NoNewContents
  BY DEF NoNewContents, Live
<1>5. QED
  BY <1>2, <1>3, <1>4 DEF DeleteStackCall, ContinueRollbackCall

LEMMA ServiceKeepsContents ==
  ASSUME TypeInv, Aws
  PROVE  NoNewContents
<1>1. css \in [Arns -> Descriptions]
  BY Numbers
<1>2. ASSUME NEW a \in Arns
      PROVE  \/ css'[a] = Deleted
             \/ css'[a].content = css[a].content /\ (Live(a)' => Live(a))
  <2>1. CASE ChangeSetCreated \/ ChangeSetCreationFails
    <3>1. PICK b \in Arns :
            /\ css[b].status = "CREATE_IN_PROGRESS"
            /\ \/ \E reason : css' = [css EXCEPT ![b].status = "FAILED", ![b].reason = reason]
               \/ css' = [css EXCEPT ![b].status = "CREATE_COMPLETE",
                                     ![b].execution = "AVAILABLE"]
      BY <2>1 DEF ChangeSetCreated, ChangeSetCreationFails
    <3>2. css[b] \in Descriptions
      BY <1>1
    <3>3. CASE a = b
      BY <1>1, <3>1, <3>2, <3>3 DEF Descriptions, Live
    <3>4. CASE a # b
      BY <1>1, <3>1, <3>4 DEF Live
    <3>5. QED
      BY <3>3, <3>4
  <2>2. CASE ChangeSetDeleted \/ ChangeSetDeletionFails
    BY <1>1, <2>2 DEF ChangeSetDeleted, ChangeSetDeletionFails, Descriptions, Live
  <2>3. CASE StackActionSucceeds \/ StackActionFails
    BY <1>1, <2>3 DEF StackActionSucceeds, StackActionFails, Executed, Descriptions, Live
  <2>4. CASE OutOfBandUpdate \/ OutOfBandDelete
    BY <1>1, <2>4 DEF OutOfBandUpdate, OutOfBandDelete, DeleteStackCall, Descriptions, Live
  <2>5. QED
    BY <2>1, <2>2, <2>3, <2>4 DEF Aws, AwsStep
<1>3. QED
  BY <1>2 DEF NoNewContents, Live, Deleted

-----------------------------------------------------------------------------
(* Every step keeps names and contents together.                            *)

WithArn == {"describeStack", "describeChangeSet", "deleteEmpty", "deleteFailed", "execute"}

\* Most steps leave the reconcile, or its part about change sets, alone.
LEMMA OthersKeepArns ==
  ASSUME ArnIsWanted, pc' \notin WithArn \/ UNCHANGED <<pc, cfnObj, clientStack>>
  PROVE  ArnIsWanted'
<1>1. CASE pc' \notin WithArn
  BY <1>1 DEF ArnIsWanted, WithArn
<1>2. CASE UNCHANGED <<pc, cfnObj, clientStack>>
  BY <1>2 DEF ArnIsWanted, DesiredName
<1>3. QED
  BY <1>1, <1>2

LEMMA ReconcileKeepsArns ==
  ASSUME TypeInv, ArnIsWanted, StartReconcile \/ ReconcileStep
  PROVE  ArnIsWanted'
<1>1. \A s, wait : Report(s, wait) => pc' \notin WithArn
  BY DEF Report, WithArn
<1>2. ApiCallFails => pc' \notin WithArn
  BY DEF ApiCallFails, Report, WithArn
<1>3. \A o \in Objects, s \in Statuses : AfterFinalizer(o, s) \notin WithArn
  BY FinalizerDecides DEF Outcomes, WithArn
<1>4. ReturnError \/ ReturnNothing \/ ReturnAfter(result) => pc' \notin WithArn
  BY DEF ReturnError, ReturnNothing, ReturnAfter, WithArn
<1>5. CASE StartReconcile \/ AddFinalizer
  <2>1. cachedObj \in Objects /\ cachedStatus \in Statuses
    BY DEF TypeInv, TypeOK, CacheTypeOK
  <2>2. [obj EXCEPT !.finalizer = TRUE] \in Objects /\ status \in Statuses
    BY DEF TypeInv, TypeOK, ServerTypeOK, Objects
  <2>3. CASE StartReconcile
    BY <1>3, <2>1, <2>3, OthersKeepArns DEF StartReconcile, WithArn
  <2>4. CASE AddFinalizer
    BY <1>3, <1>4, <2>2, <2>4, OthersKeepArns DEF AddFinalizer
  <2>5. QED
    BY <1>5, <2>3, <2>4
<1>6. CASE ObserveGeneration \/ PatchStatus
  BY <1>1, <1>4, <1>6, OthersKeepArns DEF ObserveGeneration, PatchStatus, PatchCall, WithArn
<1>7. CASE ReconcileSource
  <2>1. CASE BuildClientStack
    BY <2>1 DEF BuildClientStack, ArnIsWanted, DesiredName, HasName
  <2>2. CASE ~BuildClientStack
    BY <1>1, <1>7, <2>2, OthersKeepArns
       DEF ReconcileSource, SourceMissing, SourceFails, DependencyNotReady
  <2>3. QED
    BY <2>1, <2>2
<1>8. CASE DescribeStack
  <2>1. CASE pc' = "describeChangeSet"
    <3>1. /\ clientStack' = [clientStack EXCEPT
                               !.isCreate = (StackVerdict(stack.status) = "create")]
          /\ UNCHANGED cfnObj /\ pc = "describeStack"
      BY <1>8, <2>1 DEF DescribeStack, ApiCallFails, Report, Goto, At
    <3>2. clientStack'.arn = clientStack.arn /\ clientStack'.revision = clientStack.revision
      BY <3>1 DEF TypeInv, TypeOK, LocalTypeOK, ClientStacks
    <3>3. QED
      BY <2>1, <3>1, <3>2 DEF ArnIsWanted, DesiredName
  <2>2. CASE pc' # "describeChangeSet"
    <3>1. pc' \notin WithArn
      BY <1>1, <1>2, <1>8, <2>2 DEF DescribeStack, Goto, WithArn
    <3>2. QED
      BY <3>1, OthersKeepArns
  <2>3. QED
    BY <2>1, <2>2
<1>9. CASE DescribeChangeSet
  <2>1. CASE pc' \in {"deleteEmpty", "deleteFailed", "execute"}
    <3>1. PICK arn \in Described(clientStack.arn, DesiredName) :
            /\ clientStack' = [clientStack EXCEPT !.arn = arn]
            /\ UNCHANGED cfnObj /\ pc = "describeChangeSet"
      BY <1>9, <2>1 DEF DescribeChangeSet, ApiCallFails, Report, Goto, At
    <3>2. arn \in Arns /\ arn.name = DesiredName
      BY <3>1 DEF Described, ArnIsWanted
    <3>3. clientStack'.arn = arn /\ clientStack'.revision = clientStack.revision
      BY <3>1 DEF TypeInv, TypeOK, LocalTypeOK, ClientStacks
    <3>4. QED
      BY <2>1, <3>1, <3>2, <3>3 DEF ArnIsWanted, DesiredName
  <2>2. CASE pc' \notin {"deleteEmpty", "deleteFailed", "execute"}
    <3>1. pc' \notin WithArn
      BY <1>1, <1>2, <1>9, <2>2 DEF DescribeChangeSet, Goto, WithArn
    <3>2. QED
      BY <3>1, OthersKeepArns
  <2>3. QED
    BY <2>1, <2>2
<1>10. CASE ContinueRollback \/ CleanupStack \/ UploadTemplate \/ CreateChangeSet
  BY <1>1, <1>2, <1>10, OthersKeepArns
     DEF ContinueRollback, CleanupStack, UploadTemplate, CreateChangeSet, Call, Goto, WithArn
<1>11. CASE DeleteEmptyChangeSet \/ DeleteFailedChangeSet \/ ExecuteChangeSet
  BY <1>1, <1>2, <1>11, OthersKeepArns
     DEF DeleteEmptyChangeSet, DeleteFailedChangeSet, ExecuteChangeSet, Call
<1>12. CASE DescribeStackForDelete \/ DeleteStack
  BY <1>1, <1>2, <1>12, OthersKeepArns
     DEF DescribeStackForDelete, DeleteStack, Call, Goto, WithArn
<1>13. CASE RemoveFinalizer \/ RecoverPanic
  BY <1>4, <1>13, OthersKeepArns DEF RemoveFinalizer, RecoverPanic
<1>14. QED
  BY <1>5, <1>6, <1>7, <1>8, <1>9, <1>10, <1>11, <1>12, <1>13 DEF ReconcileStep

\* What a reconcile does with its copy of the object, and with the object.
LEMMA ReconcileKeepsNames ==
  ASSUME TypeInv, GenerationsTell, NamesTell, StartReconcile \/ ReconcileStep
  PROVE  GenerationsTell' /\ NamesTell'
<1>1. \A s, wait : Report(s, wait) => UNCHANGED cfnObj
  BY DEF Report
<1>2. ApiCallFails => UNCHANGED cfnObj
  BY DEF ApiCallFails, Report
<1>3. ReturnError \/ ReturnNothing \/ ReturnAfter(result) => cfnObj' = NoObject
  BY DEF ReturnError, ReturnNothing, ReturnAfter, ForgetLocals
<1>4. UNCHANGED service => NoNewContents
  BY DEF service, NoNewContents, Live
<1>5. CASE StartReconcile
  BY <1>4, <1>5, CopiesKeepNames DEF StartReconcile, ForgetLocals, server, cache
<1>6. CASE AddFinalizer
  <2>1. /\ obj'.gen = obj.gen /\ obj'.spec = obj.spec
        /\ UNCHANGED <<cachedObj, service>> /\ cfnObj' \in {cfnObj, obj', NoObject}
    BY <1>3, <1>6
       DEF AddFinalizer, CacheUnsynced, server, cache, ForgetLocals, TypeInv, TypeOK,
           ServerTypeOK, Objects
  <2>2. QED
    BY <1>4, <2>1, CopiesKeepNames
<1>7. CASE ObserveGeneration \/ PatchStatus
  <2>1. /\ UNCHANGED <<obj, cachedObj, service>> /\ cfnObj' \in {cfnObj, NoObject}
    BY <1>1, <1>3, <1>7
       DEF ObserveGeneration, PatchStatus, PatchCall, PatchEffect, CacheUnsynced, server, cache
  <2>2. QED
    BY <1>4, <2>1, CopiesKeepNames
<1>8. CASE RemoveFinalizer \/ RecoverPanic
  <2>1. /\ (UNCHANGED obj \/ obj' = NoObject)
        /\ UNCHANGED <<cachedObj, service>> /\ cfnObj' = NoObject
    BY <1>3, <1>8 DEF RemoveFinalizer, RecoverPanic, CacheUnsynced, server, cache
  <2>2. QED
    BY <1>4, <2>1, CopiesKeepNames
<1>9. CASE CreateChangeSet
  BY <1>9, CreationKeepsNames
<1>10. CASE \/ ReconcileSource \/ DescribeStack \/ DescribeChangeSet \/ UploadTemplate
            \/ DescribeStackForDelete
  <2>1. UNCHANGED <<obj, cachedObj, cfnObj, service>>
    BY <1>1, <1>2, <1>10
       DEF ReconcileSource, SourceMissing, SourceFails, DependencyNotReady, BuildClientStack,
           DescribeStack, DescribeChangeSet, UploadTemplate, DescribeStackForDelete, Goto,
           Outside, server, cache
  <2>2. QED
    BY <1>4, <2>1, CopiesKeepNames
<1>11. CASE \/ ContinueRollback \/ CleanupStack \/ DeleteEmptyChangeSet
            \/ DeleteFailedChangeSet \/ ExecuteChangeSet \/ DeleteStack
  <2>1. UNCHANGED <<obj, cachedObj, cfnObj>>
    BY <1>1, <1>2, <1>11
       DEF ContinueRollback, CleanupStack, DeleteEmptyChangeSet, DeleteFailedChangeSet,
           ExecuteChangeSet, DeleteStack, Call, Goto, Outside, server, cache
  <2>2. clientStack.arn \in Arns \cup {NoArn}
    BY DEF TypeInv, TypeOK, LocalTypeOK, ClientStacks
  <2>3. NoNewContents
    BY <1>4, <1>11, <2>2, CallsKeepContents
       DEF ContinueRollback, CleanupStack, DeleteEmptyChangeSet, DeleteFailedChangeSet,
           ExecuteChangeSet, DeleteStack, Call
  <2>4. QED
    BY <2>1, <2>3, CopiesKeepNames
<1>12. QED
  BY <1>5, <1>6, <1>7, <1>8, <1>9, <1>10, <1>11 DEF ReconcileStep

\* What happens around it.
LEMMA SurroundingsKeepNames ==
  ASSUME TypeInv, NameInv, "create" \notin UserActions,
         \/ TimerFires \/ CacheSync \/ Restart \/ Users \/ Aws \/ Crash \/ UNCHANGED vars
  PROVE  NameInv'
<1>1. GenerationsTell /\ NamesTell /\ ArnIsWanted
  BY DEF NameInv
<1>2. UNCHANGED service => NoNewContents
  BY DEF service, NoNewContents, Live
<1>3. CASE \/ TimerFires \/ CacheSync \/ SourceChanges \/ UNCHANGED vars
  <2>1. /\ UNCHANGED <<obj, cfnObj, pc, clientStack, service>>
        /\ cachedObj' \in {cachedObj, obj'}
    BY <1>3 DEF TimerFires, CacheSync, SourceChanges, vars, server, cache, local, service
  <2>2. QED
    BY <1>1, <1>2, <2>1, CopiesKeepNames, OthersKeepArns DEF NameInv
<1>4. CASE Restart \/ Crash
  <2>1. /\ UNCHANGED <<obj, service>> /\ cfnObj' = NoObject /\ pc' \notin WithArn
        /\ cachedObj' \in {obj', NoObject}
    BY <1>4 DEF Restart, Crash, ForgetLocals, server, WithArn
  <2>2. QED
    BY <1>1, <1>2, <2>1, CopiesKeepNames, OthersKeepArns DEF NameInv
<1>5. CASE EditSpec \/ DeleteObject
  <2>1. UNCHANGED <<pc, cfnObj, clientStack>>
    BY <1>5 DEF EditSpec, DeleteObject, Overtaken
  <2>2. QED
    BY <1>1, <1>5, <2>1, EditsKeepNames, OthersKeepArns DEF NameInv
<1>6. CASE Aws
  <2>1. UNCHANGED <<obj, cachedObj, cfnObj, pc, clientStack>>
    BY <1>6 DEF Aws, AwsStep, server, cache, local
  <2>2. QED
    BY <1>1, <1>6, <2>1, ServiceKeepsContents, CopiesKeepNames, OthersKeepArns DEF NameInv
<1>7. ~CreateObject
  BY DEF CreateObject
<1>8. QED
  BY <1>3, <1>4, <1>5, <1>6, <1>7 DEF Users

LEMMA NameInvInit == Init => NameInv
<1> SUFFICES ASSUME Init PROVE NameInv
  OBVIOUS
<1>1. NoObject.gen = 0 /\ cachedObj = NoObject /\ cfnObj = NoObject /\ obj.gen = 1
  BY NoObjectType DEF Init
<1>2. \A a \in Arns : ~Live(a)
  BY DEF Init, ServiceInit, Live, Deleted
<1>3. GenerationsTell
  BY <1>1 DEF GenerationsTell, SameSpec, Exists
<1>4. QED
  BY <1>2, <1>3 DEF NameInv, NamesTell, ArnIsWanted, Init

\* A generation has one spec in every copy, a change set holds what its name renders
\* to, and a reconcile works with one of the name it wants.
THEOREM NamesAreInvariant ==
  ASSUME "create" \notin UserActions
  PROVE  Spec => []NameInv
<1>1. Init => NameInv
  BY NameInvInit
<1>2. TypeInv /\ NameInv /\ [Next]_vars => NameInv'
  BY ReconcileKeepsArns, ReconcileKeepsNames, SurroundingsKeepNames
     DEF NameInv, Next, Controller
<1>3. Spec => []TypeInv
  BY TypeCorrectness DEF TypeInv
<1>4. QED
  BY <1>1, <1>2, <1>3, PTL DEF Spec

\* What the controller starts to deploy is what the spec and the revision it read
\* render to, unless objects of the same name follow one another.
THEOREM ExecutesOnlyWhatItRead ==
  ASSUME "create" \notin UserActions
  PROVE  Spec => ExecutesWhatItRead
<1>1. TypeInv /\ NameInv /\ [Next]_vars =>
        [ At("execute") /\ stack' # stack
            /\ stack'.status \in {"CREATE_IN_PROGRESS", "UPDATE_IN_PROGRESS"}
          => css[clientStack.arn].content
               = Render[<<cfnObj.spec.template, clientStack.revision>>] ]_vars
  <2> SUFFICES ASSUME TypeInv, NameInv, Next, pc = "execute", stack' # stack,
                      stack'.status \in {"CREATE_IN_PROGRESS", "UPDATE_IN_PROGRESS"}
               PROVE  css[clientStack.arn].content
                        = Render[<<cfnObj.spec.template, clientStack.revision>>]
    BY DEF At
  <2>1. stack \in Stacks
    BY DEF TypeInv, TypeOK, ServiceTypeOK
  <2>2. ~Aws
    BY <2>1
       DEF Aws, AwsStep, ChangeSetCreated, ChangeSetCreationFails, ChangeSetDeleted,
           ChangeSetDeletionFails, StackActionSucceeds, StackActionFails, FailsTo,
           OutOfBandUpdate, OutOfBandDelete, DeleteStackCall, Stacks
  <2>3. ExecuteChangeSet
    BY <2>2
       DEF Next, Controller, ReconcileStep, Users, At, service, StartReconcile, AddFinalizer,
           ObserveGeneration, ReconcileSource, DescribeStack, ContinueRollback, RecoverPanic,
           CleanupStack, DescribeChangeSet, UploadTemplate, CreateChangeSet,
           DeleteEmptyChangeSet, DeleteFailedChangeSet, DescribeStackForDelete, DeleteStack,
           RemoveFinalizer, PatchStatus, TimerFires, CacheSync, Restart, EditSpec,
           DeleteObject, CreateObject, SourceChanges, Crash
  <2>4. ReadyForExecution(css[clientStack.arn])
    BY <2>3 DEF ExecuteChangeSet, Call, ExecuteAccepted, service
  <2>5. clientStack.arn \in Arns /\ clientStack.arn.name = DesiredName
    BY DEF NameInv, ArnIsWanted
  <2>6. Live(clientStack.arn)
    BY <2>4 DEF ReadyForExecution, IsCreated, Live
  <2>7. Rendered(clientStack.arn, cfnObj)
    BY <2>5, <2>6 DEF NameInv, NamesTell
  <2>8. QED
    BY <2>5, <2>7 DEF Rendered, DesiredName, GetChangeSetName
<1>2. Spec => []TypeInv
  BY TypeCorrectness DEF TypeInv
<1>3. QED
  BY <1>1, <1>2, NamesAreInvariant, PTL DEF Spec, ExecutesWhatItRead

-----------------------------------------------------------------------------
(* What the service says of change sets is true of the stack.               *)

NobodyElse == FaultKinds \cap {"outOfBandUpdate", "outOfBandDelete"} = {}

Ran(a) == css[a].execution \in {"EXECUTE_IN_PROGRESS", "EXECUTE_COMPLETE"}

\* The stack holds what was executed last: whatever else had been is gone.
ExecutionsTell ==
  /\ \A a, b \in Arns : Ran(a) /\ Ran(b) => a = b
  /\ \A a \in Arns : css[a].execution = "EXECUTE_COMPLETE" => css[a].content = stack.content

\* A change set that was found empty still is: while the stack changes there is none.
EmptySetsTell ==
  /\ \A a \in Arns : css[a].reason \in {"noChanges", "noUpdates"} =>
       css[a].content = stack.content
  /\ \A a \in Arns : css[a].status \in {"CREATE_IN_PROGRESS", "CREATE_COMPLETE"} =>
       css[a].reason = "none"
  /\ stack.status \in {"CREATE_IN_PROGRESS", "UPDATE_IN_PROGRESS"} =>
       \A a \in Arns : css[a].reason = "none" /\ css[a].status # "CREATE_IN_PROGRESS"

ServiceInv == ExecutionsTell /\ EmptySetsTell

LEMMA SetsAreDescribed ==
  ASSUME TypeInv
  PROVE  /\ stack \in Stacks /\ css \in [Arns -> Descriptions]
         /\ clientStack.arn \in Arns \cup {NoArn}
BY DEF TypeInv, TypeOK, ServiceTypeOK, LocalTypeOK, ClientStacks

\* Sets may go, and what is left may lose its claims, while the stack keeps what it has.
LEMMA LessKeepsService ==
  ASSUME ServiceInv, stack'.content = stack.content,
         \/ UNCHANGED stack
         \/ stack'.status \notin {"CREATE_IN_PROGRESS", "UPDATE_IN_PROGRESS"},
         \A a \in Arns : \/ css'[a] = Deleted \/ css'[a] = css[a]
                         \/ /\ css'[a].content = css[a].content
                            /\ css'[a].reason = css[a].reason
                            /\ css'[a].execution = css[a].execution \/ ~Ran(a)'
                            /\ css'[a].status \notin {"CREATE_IN_PROGRESS", "CREATE_COMPLETE"}
                                 \/ css'[a].status = css[a].status
  PROVE  ServiceInv'
<1>1. \A a \in Arns : Ran(a)' => Ran(a) /\ css'[a].content = css[a].content
                                 /\ css'[a].execution = css[a].execution
  BY DEF Ran, Deleted
<1>2. ExecutionsTell'
  <2>1. \A a \in Arns : css'[a].execution = "EXECUTE_COMPLETE" => Ran(a)'
    BY DEF Ran
  <2>2. QED
    BY <1>1, <2>1 DEF ServiceInv, ExecutionsTell
<1>3. EmptySetsTell'
  BY DEF ServiceInv, EmptySetsTell, Deleted
<1>4. QED
  BY <1>2, <1>3 DEF ServiceInv

LEMMA CreationKeepsService ==
  ASSUME TypeInv, ServiceInv, NEW arn \in Arns, NEW content, NEW isCreate \in BOOLEAN,
         CreateAccepted(arn, isCreate), CreateChangeSetCall(arn, content, isCreate)
  PROVE  ServiceInv'
<1>1. css \in [Arns -> Descriptions] /\ stack \in Stacks
  BY SetsAreDescribed
<1>2. /\ css'[arn] = [content |-> content, status |-> "CREATE_IN_PROGRESS",
                      execution |-> "UNAVAILABLE", reason |-> "none"]
      /\ \A a \in Arns \ {arn} : css'[a] = css[a]
  BY <1>1 DEF CreateChangeSetCall
<1>3. stack'.content = stack.content
      /\ stack'.status \notin {"CREATE_IN_PROGRESS", "UPDATE_IN_PROGRESS"}
  BY <1>1
     DEF CreateChangeSetCall, CreateAccepted, Stacks, Updatable, StackIsSuccess,
         SuccessfulDeploymentStackStatuses, IsRecoverableFailure,
         RecoverableFailureStackStatuses
<1>4. ~Ran(arn)' /\ \A a \in Arns \ {arn} : Ran(a)' = Ran(a)
  BY <1>2 DEF Ran
<1>5. ExecutionsTell'
  BY <1>2, <1>3, <1>4 DEF ServiceInv, ExecutionsTell
<1>6. EmptySetsTell'
  BY <1>2, <1>3 DEF ServiceInv, EmptySetsTell
<1>7. QED
  BY <1>5, <1>6 DEF ServiceInv

LEMMA ExecutionKeepsService ==
  ASSUME TypeInv, ServiceInv, NEW arn \in Arns, ExecuteAccepted(arn), ExecuteChangeSetCall(arn)
  PROVE  ServiceInv'
<1>1. css \in [Arns -> Descriptions] /\ stack \in Stacks
  BY SetsAreDescribed
<1>2. /\ css'[arn] = [css[arn] EXCEPT !.execution = "EXECUTE_IN_PROGRESS"]
      /\ \A a \in Arns \ {arn} : css'[a] = Deleted
  BY DEF ExecuteChangeSetCall
<1>3. css[arn].status = "CREATE_COMPLETE" /\ css[arn].reason = "none"
  BY DEF ExecuteAccepted, ReadyForExecution, IsCreated, ServiceInv, EmptySetsTell
<1>4. /\ css'[arn].execution = "EXECUTE_IN_PROGRESS" /\ css'[arn].reason = "none"
      /\ css'[arn].status = "CREATE_COMPLETE"
  BY <1>1, <1>2, <1>3 DEF Descriptions
<1>5. \A a \in Arns \ {arn} : /\ css'[a].execution = "UNAVAILABLE" /\ css'[a].reason = "none"
                               /\ css'[a].status = "DELETE_COMPLETE"
  BY <1>2 DEF Deleted
<1>6. \A a \in Arns : Ran(a)' => a = arn
  BY <1>5 DEF Ran
<1>7. ExecutionsTell'
  BY <1>4, <1>5, <1>6 DEF ExecutionsTell
<1>8. \A a \in Arns : css'[a].reason = "none" /\ css'[a].status # "CREATE_IN_PROGRESS"
  BY <1>4, <1>5
<1>9. EmptySetsTell'
  BY <1>8 DEF EmptySetsTell
<1>10. QED
  BY <1>7, <1>9 DEF ServiceInv

LEMMA DeletionKeepsService ==
  ASSUME TypeInv, ServiceInv, NEW arn \in Arns,
         DeleteChangeSetCall(arn) \/ DeleteStackCall \/ ContinueRollbackCall
  PROVE  ServiceInv'
<1>1. css \in [Arns -> Descriptions] /\ stack \in Stacks
  BY SetsAreDescribed
<1>2. CASE DeleteChangeSetCall(arn)
  <2>1. /\ \A a \in Arns \ {arn} : css'[a] = css[a]
        /\ css'[arn] = [css[arn] EXCEPT !.status =
                          IF Live(arn) THEN "DELETE_IN_PROGRESS" ELSE @]
    BY <1>1, <1>2 DEF DeleteChangeSetCall
  <2>2. \A a \in Arns :
          \/ css'[a] = css[a]
          \/ /\ css'[a].content = css[a].content /\ css'[a].reason = css[a].reason
             /\ css'[a].execution = css[a].execution
             /\ css'[a].status \in {"DELETE_IN_PROGRESS", css[a].status}
    BY <1>1, <2>1 DEF Descriptions
  <2>3. UNCHANGED stack
    BY <1>2 DEF DeleteChangeSetCall
  <2>4. QED
    BY <2>2, <2>3, LessKeepsService
<1>3. CASE DeleteStackCall \/ ContinueRollbackCall
  <2>1. /\ UNCHANGED css /\ stack'.content = stack.content
        /\ stack'.status \in {"DELETE_COMPLETE", "DELETE_IN_PROGRESS",
                              "UPDATE_ROLLBACK_IN_PROGRESS"}
    BY <1>1, <1>3 DEF DeleteStackCall, ContinueRollbackCall, Stacks
  <2>2. QED
    BY <2>1, LessKeepsService
<1>4. QED
  BY <1>2, <1>3

LEMMA AwsKeepsService ==
  ASSUME TypeInv, ServiceInv, Aws, NobodyElse
  PROVE  ServiceInv'
<1>1. css \in [Arns -> Descriptions] /\ stack \in Stacks
  BY SetsAreDescribed
<1>2. CASE ChangeSetCreated \/ ChangeSetCreationFails
  <2>1. UNCHANGED stack
    BY <1>2 DEF ChangeSetCreated, ChangeSetCreationFails
  <2>2. PICK a \in Arns :
          /\ css[a].status = "CREATE_IN_PROGRESS"
          /\ \/ \E reason : /\ css' = [css EXCEPT ![a].status = "FAILED", ![a].reason = reason]
                            /\ css[a].content = stack.content \/ reason = "other"
             \/ css' = [css EXCEPT ![a].status = "CREATE_COMPLETE",
                                   ![a].execution = "AVAILABLE"]
    BY <1>2 DEF ChangeSetCreated, ChangeSetCreationFails
  <2>3. css[a].reason = "none"
        /\ stack.status \notin {"CREATE_IN_PROGRESS", "UPDATE_IN_PROGRESS"}
    BY <2>2 DEF ServiceInv, EmptySetsTell
  <2>4. /\ \A b \in Arns \ {a} : css'[b] = css[b]
        /\ css'[a].content = css[a].content
        /\ Ran(a)' => Ran(a) /\ css'[a].execution = css[a].execution
        /\ \/ css'[a].status = "FAILED"
              /\ (css[a].content = stack.content \/ css'[a].reason = "other")
           \/ css'[a].status = "CREATE_COMPLETE" /\ css'[a].reason = "none"
    BY <1>1, <2>2, <2>3 DEF Descriptions, Ran
  <2>5. \A b \in Arns : Ran(b)' => Ran(b) /\ css'[b].execution = css[b].execution
    BY <2>4 DEF Ran
  <2>6. \A b \in Arns : css'[b].execution = "EXECUTE_COMPLETE" => Ran(b)'
    BY DEF Ran
  <2>7. ExecutionsTell'
    BY <2>1, <2>4, <2>5, <2>6 DEF ServiceInv, ExecutionsTell
  <2>8. EmptySetsTell'
    BY <2>1, <2>3, <2>4 DEF ServiceInv, EmptySetsTell
  <2>9. QED
    BY <2>7, <2>8 DEF ServiceInv
<1>3. CASE ChangeSetDeleted \/ ChangeSetDeletionFails
  <2>1. UNCHANGED stack
    BY <1>3 DEF ChangeSetDeleted, ChangeSetDeletionFails
  <2>2. \A a \in Arns : \/ css'[a] = Deleted \/ css'[a] = css[a]
                        \/ /\ css'[a].content = css[a].content
                           /\ css'[a].reason = css[a].reason
                           /\ css'[a].execution = css[a].execution
                           /\ css'[a].status = "DELETE_FAILED"
    BY <1>1, <1>3 DEF ChangeSetDeleted, ChangeSetDeletionFails, Descriptions
  <2>3. QED
    BY <2>1, <2>2, LessKeepsService
<1>4. CASE StackActionFails
  <2>1. /\ stack'.content = stack.content
        /\ stack'.status \notin {"CREATE_IN_PROGRESS", "UPDATE_IN_PROGRESS"}
    BY <1>1, <1>4 DEF StackActionFails, FailsTo, Stacks
  <2>2. \A a \in Arns : \/ css'[a] = css[a]
                        \/ /\ css'[a].content = css[a].content
                           /\ css'[a].reason = css[a].reason
                           /\ ~Ran(a)'
                           /\ css'[a].status = css[a].status
    BY <1>1, <1>4 DEF StackActionFails, Executed, Descriptions, Ran
  <2>3. QED
    BY <2>1, <2>2, LessKeepsService
<1>5. CASE StackActionSucceeds
  <2>1. CASE stack.status \in {"CREATE_IN_PROGRESS", "UPDATE_IN_PROGRESS"}
    <3>1. PICK a \in Arns :
            /\ css[a].execution = "EXECUTE_IN_PROGRESS"
            /\ stack'.content = css[a].content
            /\ stack'.status \in {"CREATE_COMPLETE", "UPDATE_COMPLETE"}
      BY <1>5, <2>1 DEF StackActionSucceeds
    <3>2. css' = Executed("EXECUTE_COMPLETE")
      BY <1>5, <2>1 DEF StackActionSucceeds
    <3>3. \A b \in Arns : /\ css'[b].content = css[b].content
                          /\ css'[b].reason = css[b].reason
                          /\ css'[b].status = css[b].status
                          /\ Ran(b)' => Ran(b)
      BY <1>1, <3>2 DEF Executed, Descriptions, Ran
    <3>4. \A b \in Arns : Ran(b)' => b = a
      BY <3>1, <3>3 DEF ServiceInv, ExecutionsTell, Ran
    <3>5. ExecutionsTell'
      BY <3>1, <3>3, <3>4 DEF ExecutionsTell, Ran
    <3>6. \A b \in Arns : css'[b].reason = "none"
      BY <2>1, <3>3 DEF ServiceInv, EmptySetsTell
    <3>7. EmptySetsTell'
      BY <3>1, <3>6 DEF EmptySetsTell
    <3>8. QED
      BY <3>5, <3>7 DEF ServiceInv
  <2>2. CASE stack.status \in {"ROLLBACK_IN_PROGRESS", "UPDATE_ROLLBACK_IN_PROGRESS"}
    <3>1. /\ UNCHANGED css /\ stack'.content = stack.content
          /\ stack'.status \in {"ROLLBACK_COMPLETE", "UPDATE_ROLLBACK_COMPLETE"}
      BY <1>1, <1>5, <2>2 DEF StackActionSucceeds, Stacks
    <3>2. QED
      BY <3>1, LessKeepsService
  <2>3. CASE stack.status = "DELETE_IN_PROGRESS"
    <3>1. \A a \in Arns : css'[a] = Deleted
      BY <1>5, <2>3 DEF StackActionSucceeds
    <3>2. QED
      BY <3>1 DEF ServiceInv, ExecutionsTell, EmptySetsTell, Deleted, Ran
  <2>4. QED
    BY <1>5, <2>1, <2>2, <2>3 DEF StackActionSucceeds
<1>6. ~OutOfBandUpdate /\ ~OutOfBandDelete
  BY DEF OutOfBandUpdate, OutOfBandDelete, Fault, NobodyElse
<1>7. QED
  BY <1>2, <1>3, <1>4, <1>5, <1>6 DEF Aws, AwsStep

-----------------------------------------------------------------------------
(* Success.                                                                  *)

\* The stack's content can only change in these.
Moving == {"CREATE_IN_PROGRESS", "UPDATE_IN_PROGRESS", "DELETE_IN_PROGRESS"}

\* While a reconcile is about to decide that it succeeded, nothing happens to the stack.
NothingMoves ==
  /\ pc \in {"describeChangeSet", "deleteEmpty"} => stack.status \notin Moving
  /\ pc = "deleteEmpty" =>
       stack.content = Render[<<cfnObj.spec.template, clientStack.revision>>]

DeployedInv == ServiceInv /\ NothingMoves

LEMMA ReconcileKeepsService ==
  ASSUME TypeInv, ServiceInv, NameInv, StartReconcile \/ ReconcileStep
  PROVE  ServiceInv'
<1>1. UNCHANGED service => ServiceInv'
  BY DEF service, ServiceInv, ExecutionsTell, EmptySetsTell, Ran
<1>2. CASE CreateChangeSet
  <2>1. clientStack.isCreate \in BOOLEAN
    BY DEF TypeInv, TypeOK, LocalTypeOK, ClientStacks
  <2>2. \/ UNCHANGED service
        \/ \E arn \in Arns : \E content :
             /\ CreateAccepted(arn, clientStack.isCreate)
             /\ CreateChangeSetCall(arn, content, clientStack.isCreate)
    BY <1>2 DEF CreateChangeSet, Call, NewArns
  <2>3. QED
    BY <1>1, <2>1, <2>2, CreationKeepsService
<1>3. CASE ExecuteChangeSet
  <2>1. clientStack.arn \in Arns
    BY <1>3 DEF ExecuteChangeSet, At, NameInv, ArnIsWanted
  <2>2. \/ UNCHANGED service
        \/ ExecuteAccepted(clientStack.arn) /\ ExecuteChangeSetCall(clientStack.arn)
    BY <1>3 DEF ExecuteChangeSet, Call
  <2>3. QED
    BY <1>1, <2>1, <2>2, ExecutionKeepsService
<1>4. CASE DeleteEmptyChangeSet \/ DeleteFailedChangeSet
  <2>1. clientStack.arn \in Arns
    BY <1>4 DEF DeleteEmptyChangeSet, DeleteFailedChangeSet, At, NameInv, ArnIsWanted
  <2>2. UNCHANGED service \/ DeleteChangeSetCall(clientStack.arn)
    BY <1>4 DEF DeleteEmptyChangeSet, DeleteFailedChangeSet, Call
  <2>3. QED
    BY <1>1, <2>1, <2>2, DeletionKeepsService
<1>5. CASE CleanupStack \/ DeleteStack \/ ContinueRollback
  <2>1. UNCHANGED service \/ DeleteStackCall \/ ContinueRollbackCall
    BY <1>5 DEF CleanupStack, DeleteStack, ContinueRollback, Call
  <2>2. CASE UNCHANGED css /\ ~UNCHANGED service
    <3>1. stack \in Stacks
      BY SetsAreDescribed
    <3>2. /\ stack'.content = stack.content
          /\ stack'.status \in {"DELETE_COMPLETE", "DELETE_IN_PROGRESS",
                                "UPDATE_ROLLBACK_IN_PROGRESS"}
      BY <2>1, <2>2, <3>1 DEF DeleteStackCall, ContinueRollbackCall, Stacks
    <3>3. QED
      BY <2>2, <3>2, LessKeepsService
  <2>3. QED
    BY <1>1, <2>1, <2>2 DEF DeleteStackCall, ContinueRollbackCall
<1>6. CASE \/ StartReconcile \/ AddFinalizer \/ ObserveGeneration \/ ReconcileSource
           \/ DescribeStack \/ RecoverPanic \/ DescribeChangeSet \/ UploadTemplate
           \/ DescribeStackForDelete \/ RemoveFinalizer \/ PatchStatus
  BY <1>1, <1>6
     DEF StartReconcile, AddFinalizer, ObserveGeneration, ReconcileSource, DescribeStack,
         RecoverPanic, DescribeChangeSet, UploadTemplate, DescribeStackForDelete,
         RemoveFinalizer, PatchStatus
<1>7. QED
  BY <1>2, <1>3, <1>4, <1>5, <1>6 DEF ReconcileStep

\* A change set that is found has the wanted name and so the wanted content.
LEMMA FoundIsWanted ==
  ASSUME TypeInv, NameInv, pc = "describeChangeSet",
         NEW arn \in Described(clientStack.arn, DesiredName)
  PROVE  /\ arn \in Arns /\ Live(arn)
         /\ css[arn].content = Render[<<cfnObj.spec.template, clientStack.revision>>]
<1>1. arn \in Arns /\ Live(arn) /\ arn.name = DesiredName
  BY DEF Described, NameInv, ArnIsWanted
<1>2. Rendered(arn, cfnObj)
  BY <1>1 DEF NameInv, NamesTell
<1>3. QED
  BY <1>1, <1>2 DEF Rendered, DesiredName, GetChangeSetName

\* Where the two decisions are made.
LEMMA ReconcileComesFrom ==
  ASSUME TypeInv, StartReconcile \/ ReconcileStep
  PROVE  /\ pc' = "describeChangeSet" => DescribeStack
         /\ pc' = "deleteEmpty" => DescribeChangeSet
<1> DEFINE Here == {"describeChangeSet", "deleteEmpty"}
<1>1. \A s, wait : Report(s, wait) => pc' \notin Here
  BY DEF Report
<1>2. ApiCallFails => pc' \notin Here
  BY DEF ApiCallFails, Report
<1>3. ReturnError \/ ReturnNothing \/ ReturnAfter(result) => pc' \notin Here
  BY DEF ReturnError, ReturnNothing, ReturnAfter
<1>4. \A o \in Objects, s \in Statuses : AfterFinalizer(o, s) \notin Here
  BY FinalizerDecides DEF Outcomes
<1>5. cachedObj \in Objects /\ cachedStatus \in Statuses
  BY DEF TypeInv, TypeOK, CacheTypeOK
<1>6. [obj EXCEPT !.finalizer = TRUE] \in Objects /\ status \in Statuses
  BY DEF TypeInv, TypeOK, ServerTypeOK, Objects
<1>7. StartReconcile => pc' \notin Here
  BY <1>4, <1>5 DEF StartReconcile
<1>8. AddFinalizer => pc' \notin Here
  BY <1>3, <1>4, <1>6 DEF AddFinalizer
<1>9. ObserveGeneration \/ PatchStatus \/ RemoveFinalizer \/ RecoverPanic => pc' \notin Here
  BY <1>1, <1>3 DEF ObserveGeneration, PatchStatus, PatchCall, RemoveFinalizer, RecoverPanic
<1>10. ReconcileSource => pc' \notin Here
  BY <1>1 DEF ReconcileSource, SourceMissing, SourceFails, DependencyNotReady, BuildClientStack
<1>11. ContinueRollback \/ CleanupStack \/ UploadTemplate \/ CreateChangeSet
         \/ DeleteEmptyChangeSet \/ DeleteFailedChangeSet \/ ExecuteChangeSet
         \/ DescribeStackForDelete \/ DeleteStack => pc' \notin Here
  BY <1>1, <1>2
     DEF ContinueRollback, CleanupStack, UploadTemplate, CreateChangeSet,
         DeleteEmptyChangeSet, DeleteFailedChangeSet, ExecuteChangeSet,
         DescribeStackForDelete, DeleteStack, Call, Goto
<1>12. DescribeStack => pc' # "deleteEmpty"
  BY <1>1, <1>2 DEF DescribeStack, Goto
<1>13. DescribeChangeSet => pc' # "describeChangeSet"
  BY <1>1, <1>2 DEF DescribeChangeSet, Goto
<1>14. QED
  BY <1>7, <1>8, <1>9, <1>10, <1>11, <1>12, <1>13 DEF ReconcileStep

LEMMA ReconcileKeepsStill ==
  ASSUME TypeInv, ServiceInv, NameInv, NothingMoves, StartReconcile \/ ReconcileStep
  PROVE  NothingMoves'
<1>1. pc' \notin {"describeChangeSet", "deleteEmpty"} => NothingMoves'
  BY DEF NothingMoves
<1>2. CASE pc' = "describeChangeSet"
  <2>1. DescribeStack
    BY <1>2, ReconcileComesFrom
  <2>2. StackVerdict(stack.status) \in {"create", "update"} /\ UNCHANGED stack
    BY <1>2, <2>1 DEF DescribeStack, ApiCallFails, Report, Goto, service
  <2>3. stack.status \notin Moving
    BY <2>2
       DEF StackVerdict, Moving, StackNotFound, StackInProgress, InProgressStackStatuses
  <2>4. QED
    BY <1>2, <2>2, <2>3 DEF NothingMoves
<1>3. CASE pc' = "deleteEmpty"
  <2>1. DescribeChangeSet
    BY <1>3, ReconcileComesFrom
  <2>2. PICK arn \in Described(clientStack.arn, DesiredName) :
          /\ ChangeSetVerdict(css[arn]) = "deleteEmpty"
          /\ clientStack' = [clientStack EXCEPT !.arn = arn]
          /\ UNCHANGED <<cfnObj, stack>> /\ pc = "describeChangeSet"
    BY <1>3, <2>1 DEF DescribeChangeSet, ApiCallFails, Report, Goto, service, At
  <2>3. css[arn].reason = "noChanges"
    BY <2>2 DEF ChangeSetVerdict, IsEmpty
  <2>4. stack.content = Render[<<cfnObj.spec.template, clientStack.revision>>]
    BY <2>2, <2>3, FoundIsWanted DEF ServiceInv, EmptySetsTell
  <2>5. clientStack'.revision = clientStack.revision
    BY <2>2 DEF TypeInv, TypeOK, LocalTypeOK, ClientStacks
  <2>6. stack.status \notin Moving
    BY <2>2 DEF NothingMoves
  <2>7. QED
    BY <1>3, <2>2, <2>4, <2>5, <2>6 DEF NothingMoves
<1>4. QED
  BY <1>1, <1>2, <1>3

LEMMA SurroundingsKeepStill ==
  ASSUME TypeInv, ServiceInv, NothingMoves, NobodyElse,
         \/ TimerFires \/ CacheSync \/ Restart \/ Users \/ Aws \/ Crash \/ UNCHANGED vars
  PROVE  ServiceInv' /\ NothingMoves'
<1>1. CASE Aws
  <2>1. UNCHANGED <<pc, cfnObj, clientStack>>
    BY <1>1 DEF Aws, AwsStep, local
  <2>2. stack.status \notin Moving =>
          stack'.status \notin Moving /\ stack'.content = stack.content
    <3>1. stack \in Stacks
      BY SetsAreDescribed
    <3>2. ~OutOfBandUpdate /\ ~OutOfBandDelete
      BY DEF OutOfBandUpdate, OutOfBandDelete, Fault, NobodyElse
    <3>3. QED
      BY <1>1, <3>1, <3>2
         DEF Aws, AwsStep, ChangeSetCreated, ChangeSetCreationFails, ChangeSetDeleted,
             ChangeSetDeletionFails, StackActionSucceeds, StackActionFails, FailsTo, Stacks,
             Moving
  <2>3. NothingMoves'
    BY <2>1, <2>2 DEF NothingMoves
  <2>4. QED
    BY <1>1, <2>3, AwsKeepsService
<1>2. CASE ~Aws
  <2>1. UNCHANGED <<stack, css>>
        /\ (UNCHANGED <<pc, cfnObj, clientStack>> \/ pc' \in {"idle", "down"})
    BY <1>2
       DEF TimerFires, CacheSync, Restart, Users, EditSpec, DeleteObject, CreateObject,
           SourceChanges, Crash, Overtaken, local, service, vars
  <2>2. ServiceInv'
    BY <2>1 DEF ServiceInv, ExecutionsTell, EmptySetsTell, Ran
  <2>3. NothingMoves'
    BY <2>1 DEF NothingMoves
  <2>4. QED
    BY <2>2, <2>3
<1>3. QED
  BY <1>1, <1>2

\* The stack holds what was executed last, a change set found empty is still empty, and
\* nothing happens to the stack while a reconcile decides about it.
THEOREM DeployedIsInvariant ==
  ASSUME "create" \notin UserActions, NobodyElse
  PROVE  Spec => []DeployedInv
<1>1. Init => DeployedInv
  <2>1. Init => ServiceInv
    BY DEF Init, ServiceInit, ServiceInv, ExecutionsTell, EmptySetsTell, Ran, Deleted
  <2>2. Init => NothingMoves
    BY DEF Init, NothingMoves
  <2>3. QED
    BY <2>1, <2>2 DEF DeployedInv
<1>2. TypeInv /\ NameInv /\ DeployedInv /\ [Next]_vars => DeployedInv'
  BY ReconcileKeepsService, ReconcileKeepsStill, SurroundingsKeepStill
     DEF DeployedInv, Next, Controller
<1>3. Spec => []TypeInv
  BY TypeCorrectness DEF TypeInv
<1>4. Spec => []NameInv
  BY NamesAreInvariant
<1>5. QED
  BY <1>1, <1>2, <1>3, <1>4, PTL DEF Spec

\* Two steps decide that a reconcile succeeded, and both are right.
LEMMA SuccessIsRight ==
  ASSUME TypeInv, NameInv, DeployedInv, Next,
         pc \in {"describeChangeSet", "deleteEmpty"},
         cfnStatus'.ready = "True", pc' = "patchStatus"
  PROVE  /\ stack'.content = Render[<<cfnObj.spec.template, clientStack.revision>>]
         /\ \/ DeleteEmptyChangeSet
            \/ \E arn \in Described(clientStack.arn, DesiredName) :
                 css[arn].execution = "EXECUTE_COMPLETE" /\ UNCHANGED service
<1>1. DescribeChangeSet \/ DeleteEmptyChangeSet
  BY DEF Next, Controller, ReconcileStep, Users, At, StartReconcile, AddFinalizer,
         ObserveGeneration, ReconcileSource, DescribeStack, ContinueRollback, RecoverPanic,
         CleanupStack, UploadTemplate, CreateChangeSet, DeleteFailedChangeSet,
         ExecuteChangeSet, DescribeStackForDelete, DeleteStack, RemoveFinalizer,
         PatchStatus, TimerFires, CacheSync, Restart, EditSpec, DeleteObject, CreateObject,
         SourceChanges, Crash, Aws, AwsStep, local, Overtaken
<1>2. CASE DeleteEmptyChangeSet
  BY <1>2
     DEF DeleteEmptyChangeSet, Call, DeleteChangeSetCall, service, At, DeployedInv,
         NothingMoves
<1>3. CASE DescribeChangeSet
  <2>1. \A gen, revision, arn : /\ Progressing(cfnStatus, gen, revision, arn).ready = "Unknown"
                                /\ NotReady(cfnStatus, gen, revision, arn).ready = "False"
    BY DEF Progressing, NotReady, SetReadiness, TypeInv, TypeOK, LocalTypeOK, Statuses
  <2>2. PICK arn \in Described(clientStack.arn, DesiredName) :
          ChangeSetVerdict(css[arn]) = "ready"
    BY <1>3, <2>1 DEF DescribeChangeSet, ApiCallFails, Report, Goto
  <2>3. css[arn].execution = "EXECUTE_COMPLETE"
    BY <2>2 DEF ChangeSetVerdict, IsSuccess
  <2>4. pc = "describeChangeSet" /\ UNCHANGED service
    BY <1>3 DEF DescribeChangeSet, At
  <2>5. QED
    BY <2>3, <2>4, FoundIsWanted DEF DeployedInv, ServiceInv, ExecutionsTell, service
<1>4. QED
  BY <1>1, <1>2, <1>3

\* When a reconcile decides that it succeeded, the stack holds what it read, unless
\* objects of the same name follow one another or somebody else works on the stack.
THEOREM SuccessIsDeployed ==
  ASSUME "create" \notin UserActions, NobodyElse
  PROVE  Spec => ReadyMeansDeployed
<1>1. TypeInv /\ NameInv /\ DeployedInv /\ [Next]_vars =>
        [ (At("describeChangeSet") \/ At("deleteEmpty")) /\ cfnStatus'.ready = "True"
            /\ pc' = "patchStatus"
          => stack'.content = Render[<<cfnObj.spec.template, clientStack.revision>>] ]_vars
  <2> SUFFICES ASSUME TypeInv, NameInv, DeployedInv, Next,
                      pc \in {"describeChangeSet", "deleteEmpty"},
                      cfnStatus'.ready = "True", pc' = "patchStatus"
               PROVE  stack'.content = Render[<<cfnObj.spec.template, clientStack.revision>>]
    BY DEF At
  <2> QED
    BY SuccessIsRight
<1>2. Spec => []TypeInv
  BY TypeCorrectness DEF TypeInv
<1>3. QED
  BY <1>1, <1>2, NamesAreInvariant, DeployedIsInvariant, PTL DEF Spec, ReadyMeansDeployed

==============================================================================
