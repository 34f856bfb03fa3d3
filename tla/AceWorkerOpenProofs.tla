------------------------- MODULE AceWorkerOpenProofs -------------------------
(***************************************************************************)
(* The theorems about the runtime under any page, from the inductive       *)
(* invariant RuntimeInv and, for its audio outputs, OutputInv; and what it *)
(* says of a job, from ClosedInv.                                          *)
(***************************************************************************)
EXTENDS AceWorkerOpen, AceWorkerProofs

LEMMA OpenInitEstablishes == OpenInit => OpenTypeOK /\ RuntimeInv
BY WorkerInitEstablishes DEF OpenInit, OpenTypeOK, WorkerTyped

LEMMA PageStepTyped ==
  ASSUME OpenTypeOK, PageSends \/ PageReceives
  PROVE  OpenTypeOK' /\ UNCHANGED workerVars
<1>1. CASE PageSends
  <2>1. /\ \A r \in Nat : \A type \in {"initialize", "dispose", "cancel-initialization"} :
             RequestMessage(type, r) \in ClientMessage
        /\ \A j \in Nat : \A type \in {"generate", "cancel"} :
             JobMessage(type, j) \in ClientMessage
    BY DEF RequestMessage, JobMessage, ClientMessage, NoId
  <2>2. \E m \in ClientMessage : toWorker' = Append(toWorker, m)
    BY <1>1, <2>1
    DEF PageSends, PageSendsRequest, PageSendsGenerate, PageSendsCancel, OpenTypeOK
  <2>3. toWorker' \in Seq(ClientMessage)
    BY <2>2 DEF OpenTypeOK, ChannelTypeOK
  <2>4. requests' \in Nat /\ jobs' \in Nat
    BY <1>1 DEF PageSends, PageSendsRequest, PageSendsGenerate, PageSendsCancel, OpenTypeOK
  <2>5. QED
    BY <1>1, <2>3, <2>4
    DEF PageSends, OpenTypeOK, ChannelTypeOK, WorkerTypeOK, workerVars, runtimeVars,
        backendVars, BackendTypeOK
<1>2. CASE PageReceives
  <2>1. Head(toClient) \in WorkerMessage /\ toClient' \in Seq(WorkerMessage)
    BY <1>2 DEF PageReceives, OpenTypeOK, ChannelTypeOK
  <2>2. settled' \in SUBSET Nat
    BY <1>2, <2>1 DEF PageReceives, OpenTypeOK, WorkerMessage
  <2>3. QED
    BY <1>2, <2>1, <2>2
    DEF PageReceives, OpenTypeOK, ChannelTypeOK, WorkerTypeOK, workerVars, runtimeVars,
        backendVars, BackendTypeOK
<1>3. QED  BY <1>1, <1>2

LEMMA OpenStepKeepsInv ==
  OpenTypeOK /\ RuntimeInv /\ [OpenNext]_openVars => OpenTypeOK' /\ RuntimeInv'
<1> SUFFICES ASSUME OpenTypeOK, RuntimeInv, [OpenNext]_openVars
             PROVE  OpenTypeOK' /\ RuntimeInv'
  OBVIOUS
<1> USE DEF RuntimeInv, PhasesMatchState, BackendMatchesRuntime, AwaitedCall,
            NoInitialization, NoGeneration, NoDisposalRuns, NothingOwed
<1>1. CASE WorkerNext /\ UNCHANGED pageVars
  BY <1>1, WorkerStepTyped, WorkerStepKeepsInv DEF WorkerTyped, OpenTypeOK, pageVars
<1>2. CASE PageSends \/ PageReceives
  BY <1>2, PageStepTyped DEF workerVars, runtimeVars, backendVars
<1>3. CASE UNCHANGED openVars
  BY <1>3
  DEF openVars, channelVars, workerVars, runtimeVars, backendVars, pageVars, OpenTypeOK,
      ChannelTypeOK, WorkerTypeOK, BackendTypeOK
<1>4. QED  BY <1>1, <1>2, <1>3 DEF OpenNext

(* Every variable of the worker, its backend and its ports keeps its type.  *)
THEOREM OpenTyping == OpenSpec => []OpenTypeOK
BY OpenInitEstablishes, OpenStepKeepsInv, PTL DEF OpenSpec

(* RuntimeInv: the worker's phases fit its state, and the backend is doing  *)
(* exactly the call the runtime awaits.                                     *)
THEOREM RuntimeInvariant == OpenSpec => [](OpenTypeOK /\ RuntimeInv)
BY OpenInitEstablishes, OpenStepKeepsInv, PTL DEF OpenSpec

(* The runtime never calls a busy backend, so no InvalidStateError of       *)
(* AceWebGpuPipelineBackend is ever its own doing.                          *)
THEOREM BackendCallsAccepted == OpenSpec => []BackendAcceptsEveryCall
<1>1. RuntimeInv => BackendAcceptsEveryCall
  BY DEF RuntimeInv, BackendMatchesRuntime, BackendAcceptsEveryCall
<1>2. QED  BY <1>1, RuntimeInvariant, PTL

(* An initialization is a transaction: a device is behind "ready", and back *)
(* in "new" nothing of the attempt is left in the backend.                  *)
THEOREM InitializationIsTransaction == OpenSpec => []InitializationIsAtomic
<1> USE DEF RuntimeInv, BackendMatchesRuntime
<1>1. RuntimeInv => (state \in {"ready", "generating"} => deviceReady)
  OBVIOUS
<1>2. RuntimeInv => (state = "new" => /\ operation = "idle" /\ ~deviceReady
                                      /\ pendingRollback = {} /\ pendingRelease = {}
                                      /\ initialization.phase = "none")
  BY DEF PhasesMatchState, AwaitedCall, NoInitialization, NoGeneration, NoDisposalRuns, NothingOwed
<1>3. RuntimeInv => InitializationIsAtomic
  BY <1>1, <1>2 DEF InitializationIsAtomic
<1>4. QED  BY <1>3, RuntimeInvariant, PTL

(* disposed is never claimed while an operation runs or a device is held.   *)
THEOREM DisposedIsQuiet == OpenSpec => []DisposedMeansQuiet
<1>1. RuntimeInv => DisposedMeansQuiet
  BY DEF RuntimeInv, PhasesMatchState, BackendMatchesRuntime, DisposedMeansQuiet,
         AwaitedCall, NoInitialization, NoGeneration, NoDisposalRuns
<1>2. QED  BY <1>1, RuntimeInvariant, PTL

(* Disposal is final: no step of the page or of a call that returns late    *)
(* brings a disposing or disposed worker back.                              *)
THEOREM DisposalStaysFinal == OpenSpec => DisposalIsFinal
<1> DEFINE Final == /\ state = "disposed" => state' = "disposed"
                    /\ state = "disposing" => state' \in {"disposing", "disposed"}
<1>1. OpenTypeOK /\ RuntimeInv /\ [OpenNext]_openVars => [Final]_openVars
  <2> SUFFICES ASSUME OpenTypeOK, RuntimeInv, OpenNext, state \in {"disposing", "disposed"}
               PROVE  state' = state \/ state' = "disposed"
    OBVIOUS
  <2> USE DEF RuntimeInv, PhasesMatchState, NoInitialization, NoGeneration, NoDisposalRuns
  <2>1. CASE PageSends \/ PageReceives
    BY <2>1 DEF PageSends, PageReceives, workerVars, runtimeVars
  <2>2. CASE HandleMessage
    BY <2>2
    DEF HandleMessage, HandleInitialize, HandleCancelInitialization, HandleGenerate,
        HandleCancel, HandleDispose
  <2>3. CASE BackendInitializeReturns
    BY <2>3
    DEF BackendInitializeReturns, InitializationOutcome, CanPublishInitialization
  <2>4. CASE BackendCleanupReturns
    BY <2>4 DEF BackendCleanupReturns
  <2>5. CASE BackendGenerateReturns
    BY <2>5
    DEF BackendGenerateReturns, GenerateFails, GenerateSucceeds, PublishResult,
        EndGeneration, ReleaseUnpublished
  <2>6. CASE BackendReleaseReturns
    BY <2>6 DEF BackendReleaseReturns, EndGeneration
  <2>7. CASE DisposeBackend \/ BackendDisposeReturns
    BY <2>7 DEF DisposeBackend, BackendDisposeReturns
  <2>8. CASE BackendRetriesCleanup \/ BackendOpensOutput
    BY <2>8 DEF BackendRetriesCleanup, BackendOpensOutput, runtimeVars
  <2>9. CASE \E id \in OperationIds : InitializationCallback(id) \/ GenerationCallback(id)
    BY <2>9 DEF InitializationCallback, GenerationCallback
  <2>10. QED
    BY <2>1, <2>2, <2>3, <2>4, <2>5, <2>6, <2>7, <2>8, <2>9
    DEF OpenNext, WorkerNext, BackendReturns
<1>2. QED  BY <1>1, RuntimeInvariant, PTL DEF OpenSpec, DisposalIsFinal

-----------------------------------------------------------------------------
(* Who owns each output.  Its argument needs that a job id is used once:    *)
(* the ids still queued are new to the worker and in increasing order.      *)

GenerateAt(i) == toWorker[i].type = "generate"

UsedJobs ==
  published \cup stored \cup pendingRollback \cup pendingRelease
    \cup {j \in {generation.id} : ~NoGeneration}

JobsAreFresh ==
  /\ \A j \in UsedJobs : j <= jobs
  /\ \A i \in 1..Len(toWorker) : GenerateAt(i) =>
       /\ toWorker[i].jobId <= jobs
       /\ \A j \in UsedJobs : j < toWorker[i].jobId
       /\ \A k \in 1..Len(toWorker) :
            i < k /\ GenerateAt(k) => toWorker[i].jobId < toWorker[k].jobId

RunningOutputIsOwn ==
  ~NoGeneration =>
    generation.id \notin published \cup pendingRollback \cup pendingRelease

OutputInv ==
  /\ JobsAreFresh
  /\ RunningOutputIsOwn
  /\ UnpublishedOutputIsOwned
  /\ PublishedOutputSurvives

LEMMA FreshWhileQueueStays ==
  ASSUME JobsAreFresh, UNCHANGED <<toWorker, jobs>>, UsedJobs' \subseteq UsedJobs
  PROVE  JobsAreFresh'
BY DEF JobsAreFresh, GenerateAt

\* Receiving shifts the queue by one; only a generate makes its id used.
LEMMA FreshAfterReceive ==
  ASSUME OpenTypeOK, JobsAreFresh, NEW type, Receive(type), UNCHANGED jobs,
         UsedJobs' \subseteq UsedJobs \cup {j \in {Incoming.jobId} : type = "generate"}
  PROVE  JobsAreFresh'
<1>1. /\ toWorker \in Seq(ClientMessage) /\ toWorker # <<>>
      /\ toWorker' = Tail(toWorker)
  BY DEF OpenTypeOK, ChannelTypeOK, Receive
<1>2. /\ Len(toWorker) \in Nat /\ Len(toWorker) > 0
      /\ Len(toWorker') = Len(toWorker) - 1
      /\ \A i \in 1..Len(toWorker') : toWorker'[i] = toWorker[i + 1]
  BY <1>1
<1>3. Incoming = toWorker[1] /\ (type = "generate" => GenerateAt(1))
  BY <1>1 DEF Incoming, Receive, GenerateAt
<1>4. \A j \in UsedJobs' : j <= jobs'
  BY <1>2, <1>3 DEF JobsAreFresh, GenerateAt
<1>5. ASSUME NEW i \in 1..Len(toWorker'), GenerateAt(i)'
      PROVE  /\ toWorker'[i].jobId <= jobs'
             /\ \A j \in UsedJobs' : j < toWorker'[i].jobId
             /\ \A k \in 1..Len(toWorker') :
                  i < k /\ GenerateAt(k)' => toWorker'[i].jobId < toWorker'[k].jobId
  <2>1. i + 1 \in 1..Len(toWorker) /\ GenerateAt(i + 1) /\ toWorker'[i] = toWorker[i + 1]
    BY <1>2, <1>5 DEF GenerateAt
  <2>2. \A j \in UsedJobs' : j < toWorker'[i].jobId
    BY <1>2, <1>3, <2>1 DEF JobsAreFresh
  <2>3. ASSUME NEW k \in 1..Len(toWorker'), i < k, GenerateAt(k)'
        PROVE  toWorker'[i].jobId < toWorker'[k].jobId
    <3>1. k + 1 \in 1..Len(toWorker) /\ GenerateAt(k + 1) /\ toWorker'[k] = toWorker[k + 1]
      BY <1>2, <2>3 DEF GenerateAt
    <3>2. QED  BY <1>2, <2>1, <2>3, <3>1 DEF JobsAreFresh
  <2>4. QED  BY <2>1, <2>2, <2>3 DEF JobsAreFresh
<1>6. QED  BY <1>4, <1>5 DEF JobsAreFresh

LEMMA FreshAfterSend ==
  ASSUME OpenTypeOK, JobsAreFresh, PageSends
  PROVE  JobsAreFresh'
<1>1. UsedJobs' = UsedJobs
  BY DEF PageSends, workerVars, runtimeVars, backendVars, UsedJobs, NoGeneration
<1>2. PICK m : /\ toWorker' = Append(toWorker, m)
               /\ m.type = "generate" => m.jobId = jobs + 1 /\ jobs' = jobs + 1
               /\ m.type # "generate" => jobs' = jobs
  <2>1. CASE \E type \in {"initialize", "dispose"} : PageSendsRequest(type)
    <3>1. PICK type \in {"initialize", "dispose"} : PageSendsRequest(type)
      BY <2>1
    <3>2. RequestMessage(type, requests + 1).type # "generate"
      BY DEF RequestMessage
    <3>3. QED  BY <3>1, <3>2 DEF PageSendsRequest
  <2>2. CASE PageSendsGenerate
    BY <2>2 DEF PageSendsGenerate, JobMessage
  <2>3. CASE PageSendsCancel
    <3>1. /\ \A r : RequestMessage("cancel-initialization", r).type # "generate"
          /\ \A j : JobMessage("cancel", j).type # "generate"
      BY DEF RequestMessage, JobMessage
    <3>2. QED  BY <2>3, <3>1 DEF PageSendsCancel
  <2>4. QED  BY <2>1, <2>2, <2>3 DEF PageSends
<1>3. /\ jobs \in Nat /\ Len(toWorker) \in Nat
      /\ Len(toWorker') = Len(toWorker) + 1
      /\ toWorker'[Len(toWorker) + 1] = m
      /\ \A i \in 1..Len(toWorker) : toWorker'[i] = toWorker[i]
  BY <1>2 DEF OpenTypeOK, ChannelTypeOK
<1>4. jobs <= jobs' /\ jobs' \in Nat
  BY <1>2, <1>3
<1>5. /\ UsedJobs \subseteq Nat
      /\ \A i \in 1..Len(toWorker) : toWorker[i].jobId \in Nat
  <2>1. generation.id \in Nat
    BY DEF OpenTypeOK, WorkerTypeOK, Operation
  <2>2. UsedJobs \subseteq Nat
    BY <2>1 DEF OpenTypeOK, WorkerTypeOK, BackendTypeOK, UsedJobs
  <2>3. ASSUME NEW i \in 1..Len(toWorker)  PROVE  toWorker[i].jobId \in Nat
    <3>1. toWorker[i] \in ClientMessage
      BY DEF OpenTypeOK, ChannelTypeOK
    <3>2. QED  BY <3>1 DEF ClientMessage
  <2>4. QED  BY <2>2, <2>3
<1>6. ASSUME NEW j \in UsedJobs'  PROVE  j <= jobs'
  <2>1. j \in Nat /\ j <= jobs
    BY <1>1, <1>5 DEF JobsAreFresh
  <2>2. QED  BY <1>3, <1>4, <2>1
<1>7. ASSUME NEW i \in 1..Len(toWorker'), GenerateAt(i)'
      PROVE  /\ toWorker'[i].jobId <= jobs'
             /\ \A j \in UsedJobs' : j < toWorker'[i].jobId
             /\ \A k \in 1..Len(toWorker') :
                  i < k /\ GenerateAt(k)' => toWorker'[i].jobId < toWorker'[k].jobId
  <2>1. CASE i = Len(toWorker) + 1
    <3>1. toWorker'[i].jobId = jobs + 1 /\ jobs' = jobs + 1
      BY <1>2, <1>3, <1>7, <2>1 DEF GenerateAt
    <3>2. \A j \in UsedJobs' : j <= jobs /\ j \in Nat
      BY <1>1, <1>5 DEF JobsAreFresh
    <3>3. \A k \in 1..Len(toWorker') : ~(i < k)
      BY <1>3, <2>1
    <3>4. QED  BY <1>3, <3>1, <3>2, <3>3
  <2>2. CASE i # Len(toWorker) + 1
    <3>1. i \in 1..Len(toWorker) /\ GenerateAt(i) /\ toWorker'[i] = toWorker[i]
      BY <1>3, <1>7, <2>2 DEF GenerateAt
    <3>2. toWorker'[i].jobId <= jobs
      BY <3>1 DEF JobsAreFresh
    <3>3. ASSUME NEW k \in 1..Len(toWorker'), i < k, GenerateAt(k)'
          PROVE  toWorker'[i].jobId < toWorker'[k].jobId
      <4>1. CASE k = Len(toWorker) + 1
        BY <1>2, <1>3, <1>5, <3>1, <3>2, <3>3, <4>1 DEF GenerateAt
      <4>2. CASE k # Len(toWorker) + 1
        BY <1>3, <3>1, <3>3, <4>2 DEF GenerateAt, JobsAreFresh
      <4>3. QED  BY <4>1, <4>2
    <3>4. QED  BY <1>1, <1>3, <1>4, <1>5, <3>1, <3>2, <3>3 DEF JobsAreFresh
  <2>3. QED  BY <2>1, <2>2
<1>8. QED  BY <1>6, <1>7 DEF JobsAreFresh
OutputSafe == RunningOutputIsOwn /\ UnpublishedOutputIsOwned /\ PublishedOutputSurvives

\* What the outputs see of a step that leaves generation alone: cleanups end.
CleanupStep ==
  /\ UNCHANGED <<generation, published>>
  /\ \E rolled \in SUBSET pendingRollback, released \in SUBSET pendingRelease :
       RetryPendingCleanup(rolled, released)

LEMMA CleanupKeepsOutputs ==
  ASSUME OutputSafe, CleanupStep
  PROVE  OutputSafe' /\ UsedJobs' \subseteq UsedJobs
BY DEF CleanupStep, RetryPendingCleanup, OutputSafe, RunningOutputIsOwn,
       UnpublishedOutputIsOwned, PublishedOutputSurvives, UsedJobs, NoGeneration

LEMMA IdleKeepsOutputs ==
  ASSUME OutputSafe, UNCHANGED <<published, stored, pendingRollback, pendingRelease>>,
         generation'.id = generation.id,
         generation'.phase = "none" <=> generation.phase = "none"
  PROVE  OutputSafe' /\ UsedJobs' \subseteq UsedJobs
BY DEF OutputSafe, RunningOutputIsOwn, UnpublishedOutputIsOwned, PublishedOutputSurvives,
       UsedJobs, NoGeneration

\* The first message is the only one that can make a job used.
LEMMA HandlersKeepOutputs ==
  ASSUME OpenTypeOK, JobsAreFresh, RuntimeInv, OutputSafe, HandleMessage
  PROVE  /\ OutputSafe'
         /\ \E type : /\ Receive(type)
                      /\ UsedJobs' \subseteq
                           UsedJobs \cup {j \in {Incoming.jobId} : type = "generate"}
<1>1. CASE HandleInitialize \/ HandleCancelInitialization
  <2>1. UNCHANGED <<generation, published, stored, pendingRollback, pendingRelease>>
    BY <1>1 DEF HandleInitialize, HandleCancelInitialization, CallInitialize, backendVars,
                outputVars
  <2>2. \E type : Receive(type)
    BY <1>1 DEF HandleInitialize, HandleCancelInitialization
  <2>3. QED  BY <2>1, <2>2, IdleKeepsOutputs
<1>2. CASE HandleCancel \/ HandleDispose
  <2>1. UNCHANGED <<published, stored, pendingRollback, pendingRelease>>
    BY <1>2 DEF HandleCancel, HandleDispose, backendVars
  <2>2. generation \in Operation({"none", "running", "releasing"})
    BY DEF OpenTypeOK, WorkerTypeOK
  <2>3. generation'.id = generation.id /\ generation'.phase = generation.phase
    BY <1>2, <2>2, OperationFields DEF HandleCancel, HandleDispose
  <2>4. \E type : Receive(type)
    BY <1>2 DEF HandleCancel, HandleDispose
  <2>5. QED  BY <2>1, <2>3, <2>4, IdleKeepsOutputs
<1>3. CASE HandleGenerate
  <2>1. Receive("generate") /\ UNCHANGED <<published, stored, pendingRollback, pendingRelease>>
    BY <1>3 DEF HandleGenerate, CallGenerate, backendVars, outputVars
  <2>2. CASE state = "ready"
    <3>1. NoGeneration
      BY <2>2 DEF RuntimeInv, PhasesMatchState
    <3>2. generation' = StartOperation(Incoming.jobId, AcceptsGenerate)
      BY <1>3, <2>2 DEF HandleGenerate
    <3>3. generation'.id = Incoming.jobId /\ generation'.phase # "none"
      BY <3>2, FreshFields DEF AcceptsGenerate
    <3>4. toWorker \in Seq(ClientMessage) /\ toWorker # <<>>
      BY <2>1 DEF Receive, OpenTypeOK, ChannelTypeOK
    <3>5. 1 \in 1..Len(toWorker) /\ Incoming = toWorker[1]
      BY <3>4 DEF Incoming
    <3>6. \A j \in UsedJobs : j < Incoming.jobId
      BY <2>1, <3>5 DEF JobsAreFresh, GenerateAt, Receive
    <3>7. Incoming.jobId \in Nat
      BY <2>1, IncomingTyped DEF OpenTypeOK
    <3>8. Incoming.jobId \notin UsedJobs
      BY <3>6, <3>7
    <3>9. OutputSafe'
      BY <2>1, <3>1, <3>3, <3>8
      DEF OutputSafe, RunningOutputIsOwn, UnpublishedOutputIsOwned, PublishedOutputSurvives,
          UsedJobs, NoGeneration
    <3>10. UsedJobs' \subseteq UsedJobs \cup {j \in {Incoming.jobId} : "generate" = "generate"}
      BY <2>1, <3>1, <3>3 DEF UsedJobs, NoGeneration
    <3>11. QED  BY <2>1, <3>9, <3>10
  <2>3. CASE state # "ready"
    <3>1. generation' = generation
      BY <1>3, <2>3 DEF HandleGenerate
    <3>2. QED  BY <2>1, <3>1, IdleKeepsOutputs
  <2>4. QED  BY <2>2, <2>3
<1>4. QED  BY <1>1, <1>2, <1>3 DEF HandleMessage

\* A generation ends owning nothing: its output is published, gone, or owed.
LEMMA GenerationEndKeepsOutputs ==
  ASSUME OpenTypeOK, RuntimeInv, OutputSafe,
         BackendGenerateReturns \/ BackendReleaseReturns
  PROVE  OutputSafe' /\ UsedJobs' \subseteq UsedJobs
<1> USE DEF OutputSafe, RunningOutputIsOwn, UnpublishedOutputIsOwned,
            PublishedOutputSurvives, UsedJobs, NoGeneration
<1>1. generation.accepted
  BY DEF RuntimeInv, BackendMatchesRuntime
<1>2. NoOperation.phase = "none"
  BY FreshFields
<1>3. CASE BackendGenerateReturns /\ GenerateFails
  <2>1. /\ FinishGenerateFailed(generation.id) /\ UNCHANGED published
        /\ generation' = NoOperation /\ generation.phase # "none"
    BY <1>1, <1>3 DEF BackendGenerateReturns, GenerateFails, EndGeneration
  <2>2. QED  BY <1>2, <2>1 DEF FinishGenerateFailed, RetryPendingCleanup
<1>4. CASE BackendGenerateReturns /\ GenerateSucceeds
  <2>1. FinishGenerateOk(generation.id) /\ generation.phase # "none"
    BY <1>4 DEF BackendGenerateReturns, GenerateSucceeds
  <2>2. PublishResult \/ \E rejected \in BOOLEAN : ReleaseUnpublished(rejected)
    BY <1>4 DEF GenerateSucceeds
  <2>3. CASE PublishResult
    BY <1>2, <2>1, <2>3 DEF PublishResult, EndGeneration, FinishGenerateOk
  <2>4. CASE \E rejected \in BOOLEAN : ReleaseUnpublished(rejected)
    <3>1. generation \in Operation({"none", "running", "releasing"})
      BY DEF OpenTypeOK, WorkerTypeOK
    <3>2. generation'.id = generation.id /\ generation'.phase # "none"
      BY <2>4, <3>1 DEF ReleaseUnpublished, Operation
    <3>3. UNCHANGED <<published, stored, pendingRollback, pendingRelease>>
      BY <2>1, <2>4 DEF FinishGenerateOk, ReleaseUnpublished
    <3>4. QED  BY <2>1, <3>2, <3>3, IdleKeepsOutputs
  <2>5. QED  BY <2>2, <2>3, <2>4
<1>5. CASE BackendReleaseReturns
  <2>1. PICK ok \in BOOLEAN : FinishRelease(generation.id, ok)
    BY <1>5 DEF BackendReleaseReturns
  <2>2. UNCHANGED published /\ generation' = NoOperation /\ generation.phase # "none"
    BY <1>5 DEF BackendReleaseReturns, EndGeneration
  <2>3. QED  BY <1>2, <2>1, <2>2 DEF FinishRelease
<1>6. QED  BY <1>3, <1>4, <1>5 DEF BackendGenerateReturns

LEMMA OtherReturnsKeepOutputs ==
  ASSUME RuntimeInv, OutputSafe, BackendReturns,
         ~(BackendGenerateReturns \/ BackendReleaseReturns)
  PROVE  OutputSafe' /\ UsedJobs' \subseteq UsedJobs
<1>1. initialization.accepted /\ disposing.accepted
  BY DEF RuntimeInv, BackendMatchesRuntime
<1>2. CASE BackendInitializeReturns
  <2>1. \E ok, cleanUp \in BOOLEAN : FinishInitialize(ok, cleanUp)
    BY <1>1, <1>2 DEF BackendInitializeReturns, MustCleanUp
  <2>2. UNCHANGED <<generation, published>>
    BY <1>2 DEF BackendInitializeReturns
  <2>3. QED  BY <2>1, <2>2, CleanupKeepsOutputs DEF FinishInitialize, CleanupStep
<1>3. CASE BackendCleanupReturns \/ BackendDisposeReturns
  <2>1. \E ok \in BOOLEAN : FinishDispose(ok)
    BY <1>1, <1>3 DEF BackendCleanupReturns, BackendDisposeReturns
  <2>2. UNCHANGED <<generation, published>>
    BY <1>3 DEF BackendCleanupReturns, BackendDisposeReturns
  <2>3. QED  BY <2>1, <2>2, CleanupKeepsOutputs DEF FinishDispose, CleanupStep
<1>4. CASE DisposeBackend
  BY <1>4, IdleKeepsOutputs DEF DisposeBackend, CallDispose, outputVars
<1>5. QED  BY <1>2, <1>3, <1>4 DEF BackendReturns

LEMMA OtherStepsKeepOutputs ==
  ASSUME OpenTypeOK, RuntimeInv, OutputSafe,
         \/ BackendRetriesCleanup \/ BackendOpensOutput
         \/ \E id \in OperationIds : InitializationCallback(id) \/ GenerationCallback(id)
  PROVE  OutputSafe' /\ UsedJobs' \subseteq UsedJobs
<1>1. CASE BackendRetriesCleanup \/ BackendOpensOutput
  <2>1. CASE BackendRetriesCleanup
    <3>1. CleanupStep
      BY <2>1
      DEF BackendRetriesCleanup, RetryInGenerate, CleanupStep, runtimeVars
    <3>2. QED  BY <3>1, CleanupKeepsOutputs
  <2>2. CASE BackendOpensOutput
    BY <2>2
    DEF BackendOpensOutput, OpenTransaction, runtimeVars, OutputSafe, RunningOutputIsOwn,
        UnpublishedOutputIsOwned, PublishedOutputSurvives, UsedJobs, NoGeneration
  <2>3. QED  BY <1>1, <2>1, <2>2
<1>2. ASSUME NEW id \in OperationIds, InitializationCallback(id) \/ GenerationCallback(id)
      PROVE  OutputSafe' /\ UsedJobs' \subseteq UsedJobs
  <2>1. UNCHANGED <<published, stored, pendingRollback, pendingRelease>>
    BY <1>2 DEF InitializationCallback, GenerationCallback, backendVars
  <2>2. generation \in Operation({"none", "running", "releasing"})
    BY DEF OpenTypeOK, WorkerTypeOK
  <2>3. generation'.id = generation.id /\ generation'.phase = generation.phase
    BY <1>2, <2>2, OperationFields DEF InitializationCallback, GenerationCallback
  <2>4. QED  BY <2>1, <2>3, IdleKeepsOutputs
<1>3. QED  BY <1>1, <1>2

LEMMA OpenStepKeepsOutputs ==
  ASSUME OpenTypeOK, RuntimeInv, OutputInv, [OpenNext]_openVars
  PROVE  OutputInv'
<1> USE DEF OutputInv, OutputSafe
<1>1. CASE PageSends
  <2>1. UNCHANGED <<generation, published, stored, pendingRollback, pendingRelease>>
    BY <1>1 DEF PageSends, workerVars, runtimeVars, backendVars
  <2>2. QED  BY <1>1, <2>1, FreshAfterSend, IdleKeepsOutputs
<1>2. CASE PageReceives \/ UNCHANGED openVars
  <2>1. UNCHANGED <<toWorker, jobs, generation, published, stored, pendingRollback,
                    pendingRelease>>
    BY <1>2 DEF PageReceives, openVars, pageVars, channelVars, workerVars, runtimeVars,
                backendVars
  <2>2. QED  BY <2>1, FreshWhileQueueStays, IdleKeepsOutputs
<1>3. CASE WorkerNext /\ UNCHANGED pageVars
  <2>1. UNCHANGED jobs
    BY <1>3 DEF pageVars
  <2>2. CASE HandleMessage
    BY <2>1, <2>2, HandlersKeepOutputs, FreshAfterReceive
  <2>3. CASE ~HandleMessage
    <3>1. UNCHANGED toWorker
      BY <1>3, <2>3
      DEF WorkerNext, BackendReturns, BackendInitializeReturns, BackendCleanupReturns,
          BackendGenerateReturns, BackendReleaseReturns, DisposeBackend,
          BackendDisposeReturns, BackendRetriesCleanup, BackendOpensOutput,
          InitializationCallback, GenerationCallback, channelVars
    <3>2. OutputSafe' /\ UsedJobs' \subseteq UsedJobs
      BY <1>3, <2>3, GenerationEndKeepsOutputs, OtherReturnsKeepOutputs,
         OtherStepsKeepOutputs
      DEF WorkerNext
    <3>3. QED  BY <2>1, <3>1, <3>2, FreshWhileQueueStays
  <2>4. QED  BY <2>2, <2>3
<1>4. QED  BY <1>1, <1>2, <1>3 DEF OpenNext

LEMMA OutputInvariant == OpenSpec => []OutputInv
<1>1. OpenInit => OutputInv
  BY DEF OpenInit, ChannelInit, WorkerInit, BackendInit, OutputInv, JobsAreFresh, UsedJobs,
         NoGeneration, NoOperation, RunningOutputIsOwn, UnpublishedOutputIsOwned,
         PublishedOutputSurvives
<1>2. QED  BY <1>1, OpenStepKeepsOutputs, RuntimeInvariant, PTL DEF OpenSpec

(* Every output file in OPFS is published, owned by the running generation, *)
(* or owed a cleanup by the backend (runGeneration's finally block and      *)
(* releaseResult, webgpu-pipeline.ts 2762-2782).                            *)
THEOREM OutputsAreOwned == OpenSpec => []UnpublishedOutputIsOwned
BY OutputInvariant, PTL DEF OutputInv

(* An output whose result was posted stays on disk and out of every cleanup *)
(* the backend still owes.                                                  *)
THEOREM PublishedOutputsSurvive == OpenSpec => []PublishedOutputSurvives
BY OutputInvariant, PTL DEF OutputInv

-----------------------------------------------------------------------------
(* The last word on a job.  The page takes each message as it is posted, so *)
(* a job is closed when its last word has been posted; the argument is that *)
(* a closed job is older than every queued one and no longer the one that   *)
(* runs, unless as a cancelled job whose result is being released.          *)

LastTypes == {"result", "cancelled"}

Closed == settled \cup {j \in {Head(toClient).jobId} :
                          toClient # <<>> /\ Head(toClient).type \in LastTypes}

Queued == {toWorker[i].jobId : i \in {k \in 1..Len(toWorker) : GenerateAt(k)}}

Silenced(op) == op.phase = "none" \/ (op.phase = "releasing" /\ op.aborted)

ClosedInv ==
  /\ \A j \in Closed : j \in 1..jobs
  /\ \A j \in Closed, q \in Queued : j < q
  /\ \A q \in Queued : q \in 1..jobs
  /\ ~NoGeneration => generation.id \in 1..jobs
  /\ generation.id \in Closed => Silenced(generation)
  /\ Len(toClient) <= 1
  /\ toClient # <<>> => Head(toClient).jobId \notin settled

\* What is queued, as a message is taken from the port or put into it.
LEMMA QueuedAfterReceive ==
  ASSUME OpenTypeOK, NEW type, Receive(type)
  PROVE  Queued' \subseteq Queued /\ (type = "generate" => Incoming.jobId \in Queued)
<1>1. /\ toWorker \in Seq(ClientMessage) /\ toWorker # <<>>
      /\ toWorker' = Tail(toWorker)
  BY DEF OpenTypeOK, ChannelTypeOK, Receive
<1>2. /\ Len(toWorker) \in Nat /\ Len(toWorker) > 0
      /\ Len(toWorker') = Len(toWorker) - 1
      /\ \A i \in 1..Len(toWorker') : toWorker'[i] = toWorker[i + 1]
      /\ Incoming = toWorker[1]
  BY <1>1 DEF Incoming
<1>3. ASSUME NEW q \in Queued'  PROVE  q \in Queued
  <2>1. PICK i \in 1..Len(toWorker') : GenerateAt(i)' /\ q = toWorker'[i].jobId
    BY <1>3 DEF Queued
  <2>2. i + 1 \in 1..Len(toWorker) /\ GenerateAt(i + 1) /\ q = toWorker[i + 1].jobId
    BY <1>2, <2>1 DEF GenerateAt
  <2>3. QED  BY <2>2 DEF Queued
<1>4. ASSUME type = "generate"  PROVE  Incoming.jobId \in Queued
  <2>1. 1 \in 1..Len(toWorker) /\ GenerateAt(1)
    BY <1>2, <1>4 DEF GenerateAt, Receive
  <2>2. QED  BY <1>2, <2>1 DEF Queued
<1>5. QED  BY <1>3, <1>4

LEMMA QueuedAfterSend ==
  ASSUME OpenTypeOK, PageSends
  PROVE  /\ jobs \in Nat /\ jobs' \in {jobs, jobs + 1}
         /\ \A q \in Queued' : q \in Queued \/ (q = jobs + 1 /\ jobs' = jobs + 1)
<1>1. PICK m : /\ toWorker' = Append(toWorker, m)
               /\ m.type = "generate" => m.jobId = jobs + 1 /\ jobs' = jobs + 1
               /\ jobs' \in {jobs, jobs + 1}
  <2>1. CASE PageSendsRequest("initialize") \/ PageSendsRequest("dispose")
    BY <2>1 DEF PageSendsRequest, RequestMessage
  <2>2. CASE PageSendsGenerate
    BY <2>2 DEF PageSendsGenerate, JobMessage
  <2>3. CASE PageSendsCancel
    BY <2>3 DEF PageSendsCancel, RequestMessage, JobMessage
  <2>4. QED  BY <2>1, <2>2, <2>3 DEF PageSends
<1>2. /\ Len(toWorker) \in Nat /\ Len(toWorker') = Len(toWorker) + 1
      /\ toWorker'[Len(toWorker) + 1] = m
      /\ \A i \in 1..Len(toWorker) : toWorker'[i] = toWorker[i]
  BY <1>1 DEF OpenTypeOK, ChannelTypeOK
<1>3. ASSUME NEW q \in Queued'
      PROVE  q \in Queued \/ (q = jobs + 1 /\ jobs' = jobs + 1)
  <2>1. PICK i \in 1..Len(toWorker') : GenerateAt(i)' /\ q = toWorker'[i].jobId
    BY <1>3 DEF Queued
  <2>2. CASE i = Len(toWorker) + 1
    BY <1>1, <1>2, <2>1, <2>2 DEF GenerateAt
  <2>3. CASE i # Len(toWorker) + 1
    <3>1. i \in 1..Len(toWorker) /\ GenerateAt(i) /\ q = toWorker[i].jobId
      BY <1>2, <2>1, <2>3 DEF GenerateAt
    <3>2. QED  BY <3>1 DEF Queued
  <2>4. QED  BY <2>2, <2>3
<1>4. QED  BY <1>1, <1>3 DEF OpenTypeOK

\* The job of the worker's generation goes on, ends, or is one from the queue;
\* and a cancelled one whose result is being released stays that.
GenerationStep ==
  \/ generation'.phase = "none"
  \/ /\ generation'.id = generation.id /\ ~NoGeneration
     /\ Silenced(generation) => Silenced(generation')
  \/ generation'.id \in Queued

\* A step posts nothing, or what ends no job, or speaks of the job that runs.
PostStep ==
  \/ UNCHANGED toClient
  \/ \E m : /\ Post(m) /\ m.type \notin LastTypes
            /\ m.jobId = NoId \/ m.jobId \in Queued
  \/ \E m : /\ Post(m) /\ m.jobId = generation.id /\ ~Silenced(generation)
            /\ m.type \in LastTypes => Silenced(generation')

LEMMA RequestsSpeakOfNoJob ==
  ASSUME NEW id, NEW type \in {"initialization-progress", "ready",
           "initialization-cancelled", "diagnostic", "disposed", "error", "fatal-error"},
         Post(RequestMessage(type, id))
  PROVE  PostStep
BY DEF PostStep, RequestMessage, LastTypes

LEMMA RunningJobSpeaks ==
  ASSUME NEW type, Post(JobMessage(type, generation.id)), ~Silenced(generation),
         type \in LastTypes => Silenced(generation')
  PROVE  PostStep
BY DEF PostStep, JobMessage

LEMMA HandlersSpeak ==
  ASSUME OpenTypeOK, RuntimeInv, HandleMessage
  PROVE  PostStep /\ GenerationStep /\ Queued' \subseteq Queued
<1>1. generation \in Operation({"none", "running", "releasing"})
  BY DEF OpenTypeOK, WorkerTypeOK
<1>2. UNCHANGED generation => GenerationStep
  BY <1>1 DEF GenerationStep, NoGeneration
<1>3. generation' = Aborted(generation) => GenerationStep
  <2>1. /\ Aborted(generation).id = generation.id
        /\ Aborted(generation).phase = generation.phase
        /\ Aborted(generation).aborted = (generation.phase # "none")
    BY <1>1 DEF Aborted, Operation
  <2>2. QED  BY <2>1 DEF GenerationStep, Silenced, NoGeneration
<1>4. CASE HandleInitialize
  <2>1. Receive("initialize") /\ UNCHANGED generation
    BY <1>4 DEF HandleInitialize
  <2>2. PostStep
    BY <1>4, RequestsSpeakOfNoJob DEF HandleInitialize, PostStep
  <2>3. QED  BY <1>2, <2>1, <2>2, QueuedAfterReceive
<1>5. CASE HandleCancelInitialization
  BY <1>2, <1>5, QueuedAfterReceive DEF HandleCancelInitialization, PostStep
<1>6. CASE HandleGenerate
  <2>1. Queued' \subseteq Queued /\ Incoming.jobId \in Queued
    BY <1>6, QueuedAfterReceive DEF HandleGenerate
  <2>2. CASE state = "ready"
    <3>1. generation'.id = Incoming.jobId /\ UNCHANGED toClient
      BY <1>6, <2>2 DEF HandleGenerate, StartOperation, NoOperation
    <3>2. QED  BY <2>1, <3>1 DEF GenerationStep, PostStep
  <2>3. CASE state # "ready"
    <3>1. Post(JobMessage("error", Incoming.jobId)) /\ UNCHANGED generation
      BY <1>6, <2>3 DEF HandleGenerate
    <3>2. PostStep
      BY <2>1, <3>1 DEF PostStep, JobMessage, LastTypes
    <3>3. QED  BY <1>2, <2>1, <3>1, <3>2
  <2>4. QED  BY <2>2, <2>3
<1>7. CASE HandleCancel
  <2>1. Receive("cancel") /\ UNCHANGED toClient
    BY <1>7 DEF HandleCancel
  <2>2. GenerationStep
    BY <1>2, <1>3, <1>7 DEF HandleCancel
  <2>3. QED  BY <2>1, <2>2, QueuedAfterReceive DEF PostStep
<1>8. CASE HandleDispose
  <2>1. Receive("dispose")
    BY <1>8 DEF HandleDispose
  <2>2. GenerationStep
    BY <1>2, <1>3, <1>8 DEF HandleDispose
  <2>3. PostStep
    BY <1>8, RequestsSpeakOfNoJob DEF HandleDispose, PostStep
  <2>4. QED  BY <2>1, <2>2, <2>3, QueuedAfterReceive
<1>9. QED  BY <1>4, <1>5, <1>6, <1>7, <1>8 DEF HandleMessage

LEMMA GenerationEndSpeaks ==
  ASSUME OpenTypeOK, RuntimeInv, BackendGenerateReturns \/ BackendReleaseReturns
  PROVE  PostStep /\ GenerationStep /\ UNCHANGED toWorker
<1>1. generation \in Operation({"none", "running", "releasing"})
  BY DEF OpenTypeOK, WorkerTypeOK
<1>2. generation' = NoOperation => GenerationStep /\ Silenced(generation')
  BY DEF GenerationStep, NoOperation, Silenced
<1>3. ASSUME NEW rejected, ReleaseUnpublished(rejected), generation.phase = "running"
      PROVE  /\ GenerationStep
             /\ generation.aborted => Silenced(generation')
  <2>1. /\ generation'.id = generation.id /\ generation'.phase = "releasing"
        /\ generation'.aborted = (generation.aborted \/ rejected)
    BY <1>1, <1>3 DEF ReleaseUnpublished, Operation
  <2>2. QED  BY <1>3, <2>1 DEF GenerationStep, Silenced, NoGeneration
<1>4. CASE BackendGenerateReturns
  <2>1. ~Silenced(generation) /\ generation.phase = "running" /\ UNCHANGED toWorker
    BY <1>4 DEF BackendGenerateReturns, Silenced
  <2>2. CASE GenerateFails
    <3>1. generation' = NoOperation
      BY <2>2 DEF GenerateFails, EndGeneration
    <3>2. QED  BY <1>2, <2>1, <2>2, <3>1, RunningJobSpeaks
               DEF GenerateFails, PostIfGenerating, PostStep
  <2>3. CASE GenerateSucceeds
    <3>1. PICK matches \in BOOLEAN :
            \/ /\ PostIfGenerating(JobMessage("error", generation.id))
               /\ \E rejected \in BOOLEAN : ReleaseUnpublished(rejected)
            \/ /\ generation.aborted
               /\ PostIfGenerating(JobMessage("cancelled", generation.id))
               /\ ReleaseUnpublished(FALSE)
            \/ PublishResult
            \/ Post(JobMessage("error", generation.id)) /\ ReleaseUnpublished(FALSE)
      BY <1>1, <2>3 DEF GenerateSucceeds, Operation
    <3>2. CASE PublishResult
      BY <1>2, <2>1, <3>2, RunningJobSpeaks DEF PublishResult, EndGeneration
    <3>3. CASE ~PublishResult
      <4>1. PICK rejected : ReleaseUnpublished(rejected)
        BY <3>1, <3>3
      <4>2. PostStep
        BY <1>3, <2>1, <3>1, <3>3, RunningJobSpeaks
        DEF PostIfGenerating, PostStep, LastTypes
      <4>3. QED  BY <1>3, <2>1, <4>1, <4>2
    <3>4. QED  BY <2>1, <3>2, <3>3
  <2>4. QED  BY <1>4, <2>2, <2>3 DEF BackendGenerateReturns
<1>5. CASE BackendReleaseReturns
  <2>1. generation' = NoOperation /\ generation.phase = "releasing" /\ UNCHANGED toWorker
    BY <1>5 DEF BackendReleaseReturns, EndGeneration
  <2>2. \/ UNCHANGED toClient
        \/ ~generation.aborted /\ Post(JobMessage("error", generation.id))
    BY <1>5 DEF BackendReleaseReturns, PostIfGenerating
  <2>3. PostStep
    BY <2>1, <2>2, RunningJobSpeaks DEF PostStep, Silenced, LastTypes
  <2>4. QED  BY <1>2, <2>1, <2>3
<1>6. QED  BY <1>4, <1>5

LEMMA OtherStepsSpeak ==
  ASSUME OpenTypeOK, RuntimeInv, WorkerNext,
         ~(HandleMessage \/ BackendGenerateReturns \/ BackendReleaseReturns)
  PROVE  PostStep /\ GenerationStep /\ UNCHANGED toWorker
<1>1. generation \in Operation({"none", "running", "releasing"})
  BY DEF OpenTypeOK, WorkerTypeOK
<1>2. UNCHANGED generation => GenerationStep
  BY <1>1 DEF GenerationStep, NoGeneration
<1>3. CASE BackendInitializeReturns
  <2>1. UNCHANGED <<generation, toWorker>>
    BY <1>3 DEF BackendInitializeReturns
  <2>2. UNCHANGED toClient \/ PublishReady
    BY <1>3 DEF BackendInitializeReturns
  <2>3. QED  BY <1>2, <2>1, <2>2, RequestsSpeakOfNoJob DEF PublishReady, PostStep
<1>4. CASE BackendCleanupReturns
  <2>1. UNCHANGED <<generation, toWorker>>
    BY <1>4 DEF BackendCleanupReturns
  <2>2. PostStep
    BY <1>4, RequestsSpeakOfNoJob DEF BackendCleanupReturns, PostStep, ErrorTypes
  <2>3. QED  BY <1>2, <2>1, <2>2
<1>5. CASE DisposeBackend \/ BackendRetriesCleanup \/ BackendOpensOutput
  <2>1. UNCHANGED <<generation, toWorker, toClient>>
    BY <1>5
    DEF DisposeBackend, BackendRetriesCleanup, BackendOpensOutput, channelVars, runtimeVars
  <2>2. QED  BY <1>2, <2>1 DEF PostStep
<1>6. CASE BackendDisposeReturns
  <2>1. UNCHANGED <<generation, toWorker>>
    BY <1>6 DEF BackendDisposeReturns
  <2>2. PostStep
    BY <1>6, RequestsSpeakOfNoJob DEF BackendDisposeReturns
  <2>3. QED  BY <1>2, <2>1, <2>2
<1>7. ASSUME NEW id \in OperationIds, InitializationCallback(id)
      PROVE  PostStep /\ GenerationStep /\ UNCHANGED toWorker
  <2>1. UNCHANGED <<generation, toWorker>>
    BY <1>7 DEF InitializationCallback
  <2>2. PostStep
    BY <1>7, RequestsSpeakOfNoJob DEF InitializationCallback, PostStep
  <2>3. QED  BY <1>2, <2>1, <2>2
<1>8. ASSUME NEW id \in OperationIds, GenerationCallback(id)
      PROVE  PostStep /\ GenerationStep /\ UNCHANGED toWorker
  <2>1. ~Silenced(generation) /\ id = generation.id /\ UNCHANGED toWorker
    BY <1>8 DEF GenerationCallback, CanPublishGeneration, Silenced
  <2>2. CASE UNCHANGED generation
    <3>1. \/ UNCHANGED toClient
          \/ \E type \in {"generation-progress", "diagnostic"} :
               Post(JobMessage(type, generation.id))
      BY <1>8, <2>1 DEF GenerationCallback
    <3>2. PostStep
      BY <2>1, <3>1, RunningJobSpeaks DEF PostStep, LastTypes
    <3>3. QED  BY <1>2, <2>1, <2>2, <3>2
  <2>3. CASE ~UNCHANGED generation
    <3>1. generation' = Rejected(generation) /\ UNCHANGED toClient
      BY <1>8, <2>3 DEF GenerationCallback
    <3>2. generation'.id = generation.id
      BY <1>1, <3>1, OperationFields
    <3>3. QED  BY <2>1, <3>1, <3>2 DEF PostStep, GenerationStep, Silenced, NoGeneration
  <2>4. QED  BY <2>2, <2>3
<1>9. QED
  BY <1>3, <1>4, <1>5, <1>6, <1>7, <1>8 DEF WorkerNext, BackendReturns

\* With nothing in the port, what is closed is what is settled.
LEMMA WorkerStepKeepsClosed ==
  ASSUME OpenTypeOK, RuntimeInv, JobsAreFresh, ClosedInv, toClient = <<>>,
         WorkerNext, UNCHANGED pageVars
  PROVE  ClosedInv'
<1>1. PostStep /\ GenerationStep /\ Queued' \subseteq Queued
  <2>1. UNCHANGED toWorker => Queued' = Queued
    BY DEF Queued, GenerateAt
  <2>2. QED  BY <2>1, HandlersSpeak, GenerationEndSpeaks, OtherStepsSpeak
<1>2. settled' = settled /\ jobs' = jobs /\ jobs \in Nat /\ Closed = settled
  BY DEF pageVars, Closed, OpenTypeOK
<1>3. ~NoGeneration => generation.id \in 1..jobs
  BY DEF ClosedInv
<1>4. \A q \in Queued : ~NoGeneration => generation.id < q
  BY DEF JobsAreFresh, UsedJobs, Queued
<1>5. /\ \A j \in settled : j \in 1..jobs
      /\ \A j \in settled, q \in Queued : j < q
      /\ \A q \in Queued : q \in 1..jobs
      /\ generation.id \in settled => Silenced(generation)
  BY <1>2 DEF ClosedInv
<1>6. /\ ~NoGeneration' => generation'.id \in 1..jobs
      /\ generation'.id \in settled => Silenced(generation')
  <2>1. CASE generation'.phase = "none"
    BY <2>1 DEF NoGeneration, Silenced
  <2>2. CASE generation'.id \in Queued
    BY <1>2, <1>5, <2>2
  <2>3. CASE /\ generation'.id = generation.id /\ ~NoGeneration
             /\ Silenced(generation) => Silenced(generation')
    BY <1>3, <1>5, <2>3
  <2>4. QED  BY <1>1, <2>1, <2>2, <2>3 DEF GenerationStep
<1>7. CASE UNCHANGED toClient
  <2>1. Closed' = settled /\ toClient' = <<>> /\ Len(toClient') <= 1
    BY <1>2, <1>7 DEF Closed
  <2>2. QED  BY <1>1, <1>2, <1>5, <1>6, <2>1 DEF ClosedInv
<1>8. ASSUME NEW m, Post(m), m.type \notin LastTypes, m.jobId = NoId \/ m.jobId \in Queued
      PROVE  ClosedInv'
  <2>1. toClient' = <<m>>
    BY <1>8 DEF Post
  <2>2. Closed' = settled /\ Len(toClient') <= 1 /\ Head(toClient') = m
    BY <1>2, <1>8, <2>1 DEF Closed
  <2>3. m.jobId \notin settled
    BY <1>2, <1>5, <1>8 DEF NoId
  <2>4. QED  BY <1>1, <1>2, <1>5, <1>6, <2>2, <2>3 DEF ClosedInv
<1>9. ASSUME NEW m, Post(m), m.jobId = generation.id, ~Silenced(generation),
             m.type \in LastTypes => Silenced(generation')
      PROVE  ClosedInv'
  <2>1. toClient' = <<m>> /\ ~NoGeneration
    BY <1>9 DEF Post, Silenced, NoGeneration
  <2>2. /\ Closed' = settled \cup {j \in {generation.id} : m.type \in LastTypes}
        /\ Len(toClient') <= 1 /\ Head(toClient') = m
    BY <1>2, <1>9, <2>1 DEF Closed
  <2>3. generation'.id \in Closed' => Silenced(generation')
    BY <1>6, <1>9, <2>2
  <2>4. m.jobId \notin settled
    BY <1>5, <1>9
  <2>5. QED  BY <1>1, <1>2, <1>3, <1>4, <1>5, <1>6, <2>1, <2>2, <2>3, <2>4 DEF ClosedInv
<1>10. QED  BY <1>1, <1>7, <1>8, <1>9 DEF PostStep

LEMMA PageStepKeepsClosed ==
  ASSUME OpenTypeOK, ClosedInv,
         \/ toClient = <<>> /\ PageSends
         \/ PageReceives \/ UNCHANGED openVars
  PROVE  ClosedInv'
<1>1. CASE toClient = <<>> /\ PageSends
  <2>1. UNCHANGED <<generation, toClient, settled>> /\ Closed = settled
    BY <1>1 DEF PageSends, workerVars, runtimeVars, Closed
  <2>2. Closed' = settled
    BY <1>1, <2>1 DEF Closed
  <2>3. \A j \in settled, q \in Queued' : j < q
    BY <1>1, <2>1, QueuedAfterSend DEF ClosedInv
  <2>4. 1..jobs \subseteq 1..jobs' /\ \A q \in Queued' : q \in 1..jobs'
    BY <1>1, QueuedAfterSend DEF ClosedInv
  <2>5. QED  BY <2>1, <2>2, <2>3, <2>4 DEF ClosedInv, NoGeneration
<1>2. CASE PageReceives
  <2>1. /\ Len(toClient) <= 1 /\ toClient # <<>> /\ toClient' = Tail(toClient)
        /\ toClient \in Seq(WorkerMessage)
    BY <1>2 DEF PageReceives, ClosedInv, OpenTypeOK, ChannelTypeOK
  <2>2. toClient' = <<>> /\ Len(toClient') <= 1
    BY <2>1
  <2>3. settled' = Closed /\ UNCHANGED <<toWorker, jobs, generation>>
    BY <1>2 DEF PageReceives, Closed, LastTypes, workerVars, runtimeVars
  <2>4. Closed' = Closed /\ Queued' = Queued
    BY <2>2, <2>3 DEF Closed, Queued, GenerateAt
  <2>5. QED  BY <2>2, <2>3, <2>4 DEF ClosedInv, NoGeneration
<1>3. CASE UNCHANGED openVars
  BY <1>3
  DEF openVars, pageVars, channelVars, workerVars, runtimeVars, ClosedInv, Closed, Queued,
      GenerateAt, NoGeneration
<1>4. QED  BY <1>1, <1>2, <1>3

LEMMA ClosedInvariant == OpenSpec => []ClosedInv
<1>1. OpenInit => ClosedInv
  BY DEF OpenInit, ChannelInit, WorkerInit, ClosedInv, Closed, Queued, GenerateAt,
         NoGeneration, NoOperation, Silenced
<1>2. /\ OpenTypeOK /\ RuntimeInv /\ OutputInv /\ ClosedInv /\ [OpenNext]_openVars
      => ClosedInv'
  BY WorkerStepKeepsClosed, PageStepKeepsClosed DEF OpenNext, OutputInv
<1>3. QED  BY <1>1, <1>2, RuntimeInvariant, OutputInvariant, PTL DEF OpenSpec

(* No message names a job whose result or cancellation the page has already *)
(* received: a late callback, a failed release and a refused generate are   *)
(* all kept from reopening it (canPublishGeneration, runGeneration).        *)
THEOREM LastWordIsLast == OpenSpec => []LastWord
<1>1. OpenTypeOK /\ ClosedInv => LastWord
  <2> SUFFICES ASSUME OpenTypeOK, ClosedInv, NEW i \in 1..Len(toClient)
               PROVE  toClient[i].jobId \notin settled
    BY DEF LastWord
  <2>1. Len(toClient) \in Nat /\ Len(toClient) <= 1
    BY DEF ClosedInv, OpenTypeOK, ChannelTypeOK
  <2>2. i = 1 /\ toClient # <<>> /\ Head(toClient) = toClient[1]
    BY <2>1 DEF OpenTypeOK, ChannelTypeOK
  <2>3. QED  BY <2>2 DEF ClosedInv
<1>2. QED  BY <1>1, RuntimeInvariant, ClosedInvariant, PTL
=============================================================================
