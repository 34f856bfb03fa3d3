--------------------------- MODULE AceWorkerProofs ---------------------------
(***************************************************************************)
(* Proofs about AceWorker: its types and its inductive invariant are kept  *)
(* by every step of the runtime, whoever is at the other end of the ports. *)
(***************************************************************************)
EXTENDS AceWorker, TLAPS

WorkerTyped == ChannelTypeOK /\ WorkerTypeOK

LEMMA MessageTypes ==
  ASSUME NEW id \in Nat
  PROVE  /\ \A type \in {"initialization-progress", "ready", "initialization-cancelled",
                         "diagnostic", "disposed", "error", "fatal-error"} :
              RequestMessage(type, id) \in WorkerMessage
         /\ \A type \in {"generation-progress", "diagnostic", "result", "cancelled",
                         "error", "fatal-error"} :
              JobMessage(type, id) \in WorkerMessage
BY DEF RequestMessage, JobMessage, WorkerMessage, NoId

\* Taking a message from the port leaves the rest, and the message is typed.
LEMMA IncomingTyped ==
  ASSUME ChannelTypeOK, NEW type, Receive(type)
  PROVE  /\ toWorker' \in Seq(ClientMessage)
         /\ Incoming.requestId \in Nat /\ Incoming.jobId \in Nat
<1>1. toWorker \in Seq(ClientMessage) /\ toWorker # <<>>
  BY DEF ChannelTypeOK, Receive
<1>2. Head(toWorker) \in ClientMessage /\ Tail(toWorker) \in Seq(ClientMessage)
  BY <1>1
<1>3. QED  BY <1>2 DEF Receive, Incoming, ClientMessage

LEMMA PostTyped ==
  ASSUME ChannelTypeOK, NEW m \in WorkerMessage, Post(m)
  PROVE  toClient' \in Seq(WorkerMessage)
BY DEF ChannelTypeOK, Post

LEMMA BackendCallsTyped ==
  ASSUME BackendTypeOK
  PROVE  /\ CallInitialize => BackendTypeOK'
         /\ CallGenerate => BackendTypeOK'
         /\ CallDispose => BackendTypeOK'
BY DEF BackendTypeOK, CallInitialize, CallGenerate, CallDispose, outputVars,
       AcceptsInitialize, AcceptsGenerate, AcceptsDispose

LEMMA BackendFinishesTyped ==
  ASSUME BackendTypeOK, NEW j \in Nat, NEW ok \in BOOLEAN, NEW next \in BOOLEAN
  PROVE  /\ FinishInitialize(ok, next) => BackendTypeOK'
         /\ FinishDispose(ok) => BackendTypeOK'
         /\ RetryInGenerate \/ OpenTransaction(j) => BackendTypeOK'
         /\ FinishGenerateOk(j) => BackendTypeOK'
         /\ FinishGenerateFailed(j) => BackendTypeOK'
         /\ FinishRelease(j, ok) => BackendTypeOK'
<1>1. FinishInitialize(ok, next) => BackendTypeOK'
  BY DEF BackendTypeOK, FinishInitialize, RetryPendingCleanup
<1>2. FinishDispose(ok) => BackendTypeOK'
  BY DEF BackendTypeOK, FinishDispose, RetryPendingCleanup
<1>3. RetryInGenerate \/ OpenTransaction(j) => BackendTypeOK'
  BY DEF BackendTypeOK, RetryInGenerate, RetryPendingCleanup, OpenTransaction
<1>4. FinishGenerateOk(j) => BackendTypeOK'
  BY DEF BackendTypeOK, FinishGenerateOk
<1>5. FinishGenerateFailed(j) => BackendTypeOK'
  BY DEF BackendTypeOK, FinishGenerateFailed, RetryPendingCleanup
<1>6. FinishRelease(j, ok) => BackendTypeOK'
  BY DEF BackendTypeOK, FinishRelease
<1>7. QED  BY <1>1, <1>2, <1>3, <1>4, <1>5, <1>6

LEMMA OperationTypes ==
  ASSUME NEW id \in Nat, NEW accepted \in BOOLEAN
  PROVE  /\ NoOperation \in Operation({"none", "running", "cleanup"})
         /\ NoOperation \in Operation({"none", "running", "releasing"})
         /\ StartOperation(id, accepted) \in Operation({"none", "running", "cleanup"})
         /\ StartOperation(id, accepted) \in Operation({"none", "running", "releasing"})
         /\ \A phases : \A op \in Operation(phases) :
              Aborted(op) \in Operation(phases) /\ Rejected(op) \in Operation(phases)
BY DEF Operation, NoOperation, StartOperation, Aborted, Rejected, NoId

LEMMA HandlersTyped ==
  ASSUME WorkerTyped, HandleMessage
  PROVE  WorkerTyped'
<1> USE DEF WorkerTyped
<1>1. CASE HandleInitialize
  <2>1. PICK r \in Nat : r = Incoming.requestId  BY <1>1, IncomingTyped DEF HandleInitialize
  <2>2. BackendTypeOK'
    BY <1>1, BackendCallsTyped DEF HandleInitialize, WorkerTypeOK, backendVars, BackendTypeOK
  <2>3. ChannelTypeOK'
    BY <1>1, <2>1, IncomingTyped, MessageTypes, PostTyped
    DEF HandleInitialize, ChannelTypeOK
  <2>4. initialization' \in Operation({"none", "running", "cleanup"})
    BY <1>1, <2>1, OperationTypes
    DEF HandleInitialize, WorkerTypeOK, AcceptsInitialize
  <2>5. QED
    BY <1>1, <2>2, <2>3, <2>4 DEF HandleInitialize, WorkerTypeOK, WorkerState
<1>2. CASE HandleCancelInitialization
  BY <1>2, IncomingTyped, OperationTypes
  DEF HandleCancelInitialization, WorkerTypeOK, ChannelTypeOK, backendVars, BackendTypeOK
<1>3. CASE HandleGenerate
  <2>1. PICK j \in Nat : j = Incoming.jobId  BY <1>3, IncomingTyped DEF HandleGenerate
  <2>2. BackendTypeOK'
    BY <1>3, BackendCallsTyped DEF HandleGenerate, WorkerTypeOK, backendVars, BackendTypeOK
  <2>3. ChannelTypeOK'
    BY <1>3, <2>1, IncomingTyped, MessageTypes, PostTyped
    DEF HandleGenerate, ChannelTypeOK
  <2>4. generation' \in Operation({"none", "running", "releasing"})
    BY <1>3, <2>1, OperationTypes
    DEF HandleGenerate, WorkerTypeOK, AcceptsGenerate, BackendTypeOK
  <2>5. QED
    BY <1>3, <2>2, <2>3, <2>4 DEF HandleGenerate, WorkerTypeOK, WorkerState
<1>4. CASE HandleCancel
  BY <1>4, IncomingTyped, OperationTypes
  DEF HandleCancel, WorkerTypeOK, ChannelTypeOK, backendVars, BackendTypeOK
<1>5. CASE HandleDispose
  <2>1. PICK r \in Nat : r = Incoming.requestId  BY <1>5, IncomingTyped DEF HandleDispose
  <2>2. ChannelTypeOK'
    BY <1>5, <2>1, IncomingTyped, MessageTypes, PostTyped
    DEF HandleDispose, ChannelTypeOK
  <2>3. BackendTypeOK'
    BY <1>5 DEF HandleDispose, WorkerTypeOK, backendVars, BackendTypeOK
  <2>4. /\ initialization' \in Operation({"none", "running", "cleanup"})
        /\ generation' \in Operation({"none", "running", "releasing"})
    BY <1>5, OperationTypes DEF HandleDispose, WorkerTypeOK
  <2>5. disposing' \in [requestId : Nat, phase : {"none", "waiting", "backend"},
                        accepted : BOOLEAN]
    <3>1. disposing' = disposing
          \/ disposing' = [requestId |-> r, phase |-> "waiting", accepted |-> TRUE]
      BY <1>5, <2>1 DEF HandleDispose
    <3>2. disposing \in [requestId : Nat, phase : {"none", "waiting", "backend"},
                        accepted : BOOLEAN]
      BY DEF WorkerTypeOK
    <3>3. [requestId |-> r, phase |-> "waiting", accepted |-> TRUE]
            \in [requestId : Nat, phase : {"none", "waiting", "backend"}, accepted : BOOLEAN]
      OBVIOUS
    <3>4. QED  BY <3>1, <3>2, <3>3
  <2>6. QED
    BY <1>5, <2>2, <2>3, <2>4, <2>5 DEF HandleDispose, WorkerTypeOK, WorkerState
<1>6. QED  BY <1>1, <1>2, <1>3, <1>4, <1>5 DEF HandleMessage

LEMMA BackendReturnsTyped ==
  ASSUME WorkerTyped, BackendReturns
  PROVE  WorkerTyped'
<1> USE DEF WorkerTyped
<1>a. initialization.id \in Nat /\ generation.id \in Nat /\ disposing.requestId \in Nat
  BY DEF WorkerTypeOK, Operation
<1>1. CASE BackendInitializeReturns
  <2>1. PICK ok \in BOOLEAN, matches \in BOOLEAN :
          LET outcome == InitializationOutcome(ok, matches)
              cleanUp == MustCleanUp(outcome)
          IN
          /\ IF initialization.accepted THEN FinishInitialize(ok, cleanUp)
             ELSE ~ok /\ (IF cleanUp THEN CallDispose ELSE UNCHANGED backendVars)
          /\ IF outcome = "ready" THEN PublishReady ELSE UNCHANGED <<state, toClient>>
          /\ initialization' =
               IF cleanUp
               THEN [initialization EXCEPT !.phase = "cleanup", !.aborted = TRUE,
                                           !.accepted = @ \/ AcceptsDispose,
                                           !.terminal = outcome]
               ELSE NoOperation
    BY <1>1 DEF BackendInitializeReturns
  <2> DEFINE outcome == InitializationOutcome(ok, matches)
             cleanUp == MustCleanUp(outcome)
  <2>2. outcome \in {"error", "cancelled", "ready", "none"} /\ cleanUp \in BOOLEAN
    BY DEF InitializationOutcome, MustCleanUp
  <2>3. BackendTypeOK'
    <3>1. CASE initialization.accepted
      BY <2>1, <2>2, <3>1, BackendFinishesTyped, <1>a DEF WorkerTypeOK
    <3>2. CASE ~initialization.accepted
      BY <2>1, <2>2, <3>2, BackendCallsTyped DEF WorkerTypeOK, backendVars, BackendTypeOK
    <3>3. QED  BY <3>1, <3>2
  <2>4. ChannelTypeOK'
    BY <1>1, <2>1, <1>a, MessageTypes, PostTyped
    DEF BackendInitializeReturns, PublishReady, ChannelTypeOK
  <2>5. initialization' \in Operation({"none", "running", "cleanup"})
    BY <2>1, <2>2, OperationTypes DEF WorkerTypeOK, MustCleanUp, Operation, AcceptsDispose
  <2>6. state' \in WorkerState
    BY <2>1 DEF PublishReady, WorkerState, WorkerTypeOK
  <2>7. QED
    BY <1>1, <2>3, <2>4, <2>5, <2>6 DEF BackendInitializeReturns, WorkerTypeOK
<1>2. CASE BackendCleanupReturns
  <2>1. BackendTypeOK'
    BY <1>2, BackendFinishesTyped, <1>a
    DEF BackendCleanupReturns, WorkerTypeOK, backendVars, BackendTypeOK
  <2>2. ChannelTypeOK'
    BY <1>2, <1>a, MessageTypes, PostTyped
    DEF BackendCleanupReturns, ErrorTypes, ChannelTypeOK
  <2>3. QED
    BY <1>2, <2>1, <2>2, OperationTypes DEF BackendCleanupReturns, WorkerTypeOK, WorkerState
<1>3. CASE BackendGenerateReturns
  <2>1. CASE GenerateFails
    <3>1. BackendTypeOK'
      BY <2>1, BackendFinishesTyped, <1>a DEF GenerateFails, WorkerTypeOK, backendVars, BackendTypeOK
    <3>2. ChannelTypeOK'
      BY <1>3, <2>1, <1>a, MessageTypes, PostTyped
      DEF BackendGenerateReturns, GenerateFails, PostIfGenerating, ErrorTypes, ChannelTypeOK
    <3>3. QED
      BY <1>3, <2>1, <3>1, <3>2, OperationTypes
      DEF BackendGenerateReturns, GenerateFails, EndGeneration, WorkerTypeOK, WorkerState
  <2>2. CASE GenerateSucceeds
    <3>1. BackendTypeOK'
      BY <2>2, BackendFinishesTyped, <1>a DEF GenerateSucceeds, WorkerTypeOK
    <3>2. ChannelTypeOK'
      BY <1>3, <2>2, <1>a, MessageTypes, PostTyped
      DEF BackendGenerateReturns, GenerateSucceeds, PostIfGenerating, PublishResult,
          ChannelTypeOK
    <3>3. /\ generation' \in Operation({"none", "running", "releasing"})
          /\ state' \in WorkerState
          /\ published' \in SUBSET Nat
      <4>1. PublishResult \/ \E rejected \in BOOLEAN : ReleaseUnpublished(rejected)
        BY <2>2 DEF GenerateSucceeds
      <4>2. CASE PublishResult
        BY <4>2, <1>a, OperationTypes DEF PublishResult, EndGeneration, WorkerTypeOK, WorkerState
      <4>3. ASSUME NEW rejected \in BOOLEAN, ReleaseUnpublished(rejected)
            PROVE  /\ generation' \in Operation({"none", "running", "releasing"})
                   /\ state' \in WorkerState
                   /\ published' \in SUBSET Nat
        BY <4>3 DEF ReleaseUnpublished, WorkerTypeOK, Operation
      <4>4. QED  BY <4>1, <4>2, <4>3
    <3>4. QED
      BY <1>3, <3>1, <3>2, <3>3 DEF BackendGenerateReturns, WorkerTypeOK
  <2>3. QED  BY <1>3, <2>1, <2>2 DEF BackendGenerateReturns
<1>4. CASE BackendReleaseReturns
  <2>1. BackendTypeOK'
    BY <1>4, BackendFinishesTyped, <1>a DEF BackendReleaseReturns, WorkerTypeOK
  <2>2. ChannelTypeOK'
    BY <1>4, <1>a, MessageTypes, PostTyped
    DEF BackendReleaseReturns, PostIfGenerating, ChannelTypeOK
  <2>3. QED
    BY <1>4, <2>1, <2>2, OperationTypes
    DEF BackendReleaseReturns, EndGeneration, WorkerTypeOK, WorkerState
<1>5. CASE DisposeBackend
  <2>1. BackendTypeOK'
    BY <1>5, BackendCallsTyped DEF DisposeBackend, WorkerTypeOK
  <2>2. QED
    BY <1>5, <2>1 DEF DisposeBackend, WorkerTypeOK, ChannelTypeOK, channelVars, AcceptsDispose
<1>6. CASE BackendDisposeReturns
  <2>1. BackendTypeOK'
    BY <1>6, BackendFinishesTyped, <1>a
    DEF BackendDisposeReturns, WorkerTypeOK, backendVars, BackendTypeOK
  <2>2. ChannelTypeOK'
    BY <1>6, <1>a, MessageTypes, PostTyped DEF BackendDisposeReturns, ChannelTypeOK
  <2>3. QED
    BY <1>6, <2>1, <2>2 DEF BackendDisposeReturns, WorkerTypeOK, WorkerState, NoDisposal, NoId
<1>7. QED  BY <1>1, <1>2, <1>3, <1>4, <1>5, <1>6 DEF BackendReturns

LEMMA OtherStepsTyped ==
  ASSUME WorkerTyped,
         \/ BackendRetriesCleanup \/ BackendOpensOutput
         \/ \E id \in OperationIds : InitializationCallback(id) \/ GenerationCallback(id)
  PROVE  WorkerTyped'
<1> USE DEF WorkerTyped
<1>1. CASE BackendRetriesCleanup \/ BackendOpensOutput
  <2>1. BackendTypeOK'
    BY <1>1, BackendFinishesTyped
    DEF BackendRetriesCleanup, BackendOpensOutput, WorkerTypeOK, Operation
  <2>2. QED
    BY <1>1, <2>1
    DEF BackendRetriesCleanup, BackendOpensOutput, WorkerTypeOK, ChannelTypeOK, channelVars,
        runtimeVars
<1>2. ASSUME NEW id \in OperationIds, InitializationCallback(id)
      PROVE  WorkerTyped'
  <2>1. id \in Nat  BY WorkerConstants
  <2>2. ChannelTypeOK'
    BY <1>2, <2>1, MessageTypes, PostTyped DEF InitializationCallback, ChannelTypeOK
  <2>3. QED
    BY <1>2, <2>2, OperationTypes
    DEF InitializationCallback, WorkerTypeOK, backendVars, BackendTypeOK
<1>3. ASSUME NEW id \in OperationIds, GenerationCallback(id)
      PROVE  WorkerTyped'
  <2>1. id \in Nat  BY WorkerConstants
  <2>2. ChannelTypeOK'
    BY <1>3, <2>1, MessageTypes, PostTyped DEF GenerationCallback, ChannelTypeOK
  <2>3. QED
    BY <1>3, <2>2, OperationTypes
    DEF GenerationCallback, WorkerTypeOK, backendVars, BackendTypeOK
<1>4. QED  BY <1>1, <1>2, <1>3

LEMMA WorkerStepTyped ==
  ASSUME WorkerTyped, WorkerNext
  PROVE  WorkerTyped'
BY HandlersTyped, BackendReturnsTyped, OtherStepsTyped DEF WorkerNext

-----------------------------------------------------------------------------
(* The inductive invariant RuntimeInv.                                      *)

LEMMA OperationFields ==
  ASSUME NEW phases, NEW op \in Operation(phases)
  PROVE  /\ Aborted(op).phase = op.phase /\ Aborted(op).accepted = op.accepted
         /\ Rejected(op).phase = op.phase /\ Rejected(op).accepted = op.accepted
         /\ Aborted(op).id = op.id /\ Rejected(op).id = op.id
BY DEF Operation, Aborted, Rejected

LEMMA FreshFields ==
  ASSUME NEW id, NEW accepted \in BOOLEAN
  PROVE  /\ NoOperation.phase = "none" /\ NoOperation.accepted
         /\ StartOperation(id, accepted).phase = "running"
         /\ StartOperation(id, accepted).accepted = accepted
         /\ StartOperation(id, accepted).id = id
BY DEF NoOperation, StartOperation

LEMMA HandlersKeepInv ==
  ASSUME WorkerTyped, RuntimeInv, HandleMessage
  PROVE  RuntimeInv'
<1> USE DEF WorkerTyped, WorkerTypeOK, WorkerState, RuntimeInv, PhasesMatchState,
            BackendMatchesRuntime, AwaitedCall, NoInitialization, NoGeneration,
            NoDisposalRuns, NothingOwed
<1>1. CASE HandleInitialize
  BY <1>1, FreshFields
  DEF HandleInitialize, CallInitialize, AcceptsInitialize, backendVars, outputVars
<1>2. CASE HandleCancelInitialization
  BY <1>2, OperationFields DEF HandleCancelInitialization, backendVars
<1>3. CASE HandleGenerate
  BY <1>3, FreshFields
  DEF HandleGenerate, CallGenerate, AcceptsGenerate, backendVars, outputVars
<1>4. CASE HandleCancel
  BY <1>4, OperationFields DEF HandleCancel, backendVars
<1>5. CASE HandleDispose
  BY <1>5, OperationFields DEF HandleDispose, backendVars
<1>6. QED  BY <1>1, <1>2, <1>3, <1>4, <1>5 DEF HandleMessage

LEMMA ReturnsKeepInv ==
  ASSUME WorkerTyped, RuntimeInv, BackendReturns
  PROVE  RuntimeInv'
<1> USE DEF WorkerTyped, WorkerTypeOK, WorkerState, RuntimeInv, PhasesMatchState,
            BackendMatchesRuntime, AwaitedCall, NoInitialization, NoGeneration,
            NoDisposalRuns, NothingOwed
<1>1. CASE BackendInitializeReturns
  <2>1. PICK ok \in BOOLEAN, matches \in BOOLEAN :
          LET outcome == InitializationOutcome(ok, matches)
              cleanUp == MustCleanUp(outcome)
          IN
          /\ IF initialization.accepted THEN FinishInitialize(ok, cleanUp)
             ELSE ~ok /\ (IF cleanUp THEN CallDispose ELSE UNCHANGED backendVars)
          /\ IF outcome = "ready" THEN PublishReady ELSE UNCHANGED <<state, toClient>>
          /\ initialization' =
               IF cleanUp
               THEN [initialization EXCEPT !.phase = "cleanup", !.aborted = TRUE,
                                           !.accepted = @ \/ AcceptsDispose,
                                           !.terminal = outcome]
               ELSE NoOperation
    BY <1>1 DEF BackendInitializeReturns
  <2> DEFINE outcome == InitializationOutcome(ok, matches)
             cleanUp == MustCleanUp(outcome)
  <2>2. FinishInitialize(ok, cleanUp)
    BY <2>1
  <2>3. UNCHANGED <<generation, disposing>> /\ NoGeneration
    BY <1>1 DEF BackendInitializeReturns
  <2>4. CASE cleanUp
    <3>1. initialization'.phase = "cleanup" /\ initialization'.accepted
      BY <2>1, <2>4 DEF Operation
    <3>2. operation' = "disposing" /\ ~deviceReady'
      BY <2>2, <2>4 DEF FinishInitialize
    <3>3. state' = state /\ state = "initializing"
      BY <1>1, <2>1, <2>4 DEF BackendInitializeReturns, MustCleanUp
    <3>4. QED  BY <2>3, <3>1, <3>2, <3>3
  <2>5. CASE ~cleanUp /\ outcome = "ready"
    <3>1. ok /\ state = "initializing"
      BY <2>5 DEF InitializationOutcome, CanPublishInitialization
    <3>2. initialization' = NoOperation /\ state' = "ready"
      BY <2>1, <2>5 DEF PublishReady
    <3>3. operation' = "idle" /\ deviceReady'
      BY <2>2, <2>5, <3>1 DEF FinishInitialize
    <3>4. QED  BY <2>3, <3>1, <3>2, <3>3, FreshFields
  <2>6. CASE ~cleanUp /\ outcome # "ready"
    <3>1. initialization' = NoOperation /\ state' = state
      BY <2>1, <2>6
    <3>2. operation' = "idle"
      BY <2>2, <2>6 DEF FinishInitialize
    <3>3. state = "disposing"
      <4>1. state \in {"initializing", "disposing"}
        BY <1>1 DEF BackendInitializeReturns
      <4>2. CASE state = "initializing"
        BY <1>1, <4>2, <2>6
        DEF MustCleanUp, InitializationOutcome, CanPublishInitialization,
            BackendInitializeReturns
      <4>3. QED  BY <4>1, <4>2
    <3>4. QED  BY <1>1, <2>3, <3>1, <3>2, <3>3, FreshFields DEF BackendInitializeReturns
  <2>7. QED  BY <2>4, <2>5, <2>6
<1>2. CASE BackendCleanupReturns
  <2>1. PICK ok \in BOOLEAN : 
          /\ FinishDispose(ok)
          /\ IF state # "initializing" THEN state' = state
             ELSE state' = IF ok THEN "new" ELSE "disposed"
    BY <1>2 DEF BackendCleanupReturns
  <2>2. operation' = "idle" /\ ~deviceReady' /\ (ok => NothingOwed')
    BY <1>2, <2>1 DEF BackendCleanupReturns, FinishDispose, CleanupComplete
  <2>3. QED  BY <1>2, <2>1, <2>2, FreshFields DEF BackendCleanupReturns
<1>3. CASE BackendGenerateReturns
  <2>1. /\ operation' = "idle" /\ UNCHANGED deviceReady
        /\ UNCHANGED <<initialization, disposing>>
        /\ state \in {"generating", "disposing"} /\ disposing.phase # "backend"
        /\ NoInitialization
    BY <1>3
    DEF BackendGenerateReturns, GenerateFails, GenerateSucceeds, FinishGenerateOk,
        FinishGenerateFailed
  <2>2. \/ generation' = NoOperation /\ state' = IF state = "generating" THEN "ready" ELSE state
        \/ \E rejected \in BOOLEAN : ReleaseUnpublished(rejected)
    BY <1>3
    DEF BackendGenerateReturns, GenerateFails, GenerateSucceeds, PublishResult, EndGeneration
  <2>3. CASE generation' = NoOperation /\ state' = IF state = "generating" THEN "ready" ELSE state
    BY <2>1, <2>3, FreshFields
  <2>4. CASE \E rejected \in BOOLEAN : ReleaseUnpublished(rejected)
    <3>1. generation'.phase = "releasing" /\ generation'.accepted /\ state' = state
      BY <2>4 DEF ReleaseUnpublished, Operation
    <3>2. QED  BY <2>1, <3>1
  <2>5. QED  BY <2>2, <2>3, <2>4
<1>4. CASE BackendReleaseReturns
  BY <1>4, FreshFields DEF BackendReleaseReturns, EndGeneration, FinishRelease
<1>5. CASE DisposeBackend
  BY <1>5 DEF DisposeBackend, CallDispose, AcceptsDispose
<1>6. CASE BackendDisposeReturns
  BY <1>6 DEF BackendDisposeReturns, FinishDispose, NoDisposal
<1>7. QED  BY <1>1, <1>2, <1>3, <1>4, <1>5, <1>6 DEF BackendReturns

LEMMA WorkerStepKeepsInv ==
  ASSUME WorkerTyped, RuntimeInv, WorkerNext
  PROVE  RuntimeInv'
<1> USE DEF RuntimeInv, PhasesMatchState, BackendMatchesRuntime, AwaitedCall,
            NoInitialization, NoGeneration, NoDisposalRuns, NothingOwed
<1>1. CASE HandleMessage  BY <1>1, HandlersKeepInv
<1>2. CASE BackendReturns  BY <1>2, ReturnsKeepInv
<1>3. CASE BackendRetriesCleanup \/ BackendOpensOutput
  BY <1>3
  DEF BackendRetriesCleanup, RetryInGenerate, RetryPendingCleanup, BackendOpensOutput,
      OpenTransaction, runtimeVars
<1>4. ASSUME NEW id \in OperationIds, InitializationCallback(id) \/ GenerationCallback(id)
      PROVE  RuntimeInv'
  BY <1>4, OperationFields
  DEF InitializationCallback, GenerationCallback, backendVars, WorkerTyped, WorkerTypeOK
<1>5. QED  BY <1>1, <1>2, <1>3, <1>4 DEF WorkerNext

LEMMA WorkerInitEstablishes ==
  ASSUME ChannelInit, WorkerInit
  PROVE  WorkerTyped /\ RuntimeInv
<1>1. WorkerTyped
  <2>1. ChannelTypeOK
    BY DEF ChannelInit, ChannelTypeOK
  <2>2. BackendTypeOK
    BY DEF WorkerInit, BackendInit, BackendTypeOK
  <2>3. /\ initialization \in Operation({"none", "running", "cleanup"})
        /\ generation \in Operation({"none", "running", "releasing"})
    BY DEF WorkerInit, NoOperation, Operation, NoId
  <2>4. disposing \in [requestId : Nat, phase : {"none", "waiting", "backend"},
                       accepted : BOOLEAN]
    BY DEF WorkerInit, NoDisposal, NoId
  <2>5. QED
    BY <2>1, <2>2, <2>3, <2>4 DEF WorkerInit, WorkerTyped, WorkerTypeOK, WorkerState
<1>2. RuntimeInv
  BY FreshFields
  DEF WorkerInit, BackendInit, RuntimeInv, PhasesMatchState, BackendMatchesRuntime,
      AwaitedCall, NoInitialization, NoGeneration, NoDisposalRuns, NothingOwed, NoDisposal
<1>3. QED  BY <1>1, <1>2
=============================================================================
