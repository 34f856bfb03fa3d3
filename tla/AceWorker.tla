------------------------------ MODULE AceWorker ------------------------------
(***************************************************************************)
(* AceWorkerRuntime (runtime/worker.ts): the message shell of the          *)
(* inference worker.  handleMessage is not awaited by its listener, so a   *)
(* cancel or a dispose is handled while an earlier initialize or generate  *)
(* still awaits the backend.  Each action is one run of synchronous code:  *)
(* a message handler up to its first await, or the code that follows one.  *)
(*                                                                         *)
(* The page is left open: WorkerNext consumes toWorker and appends to      *)
(* toClient, and AceWorkerEnv or AceSession supplies the other side.       *)
(***************************************************************************)
EXTENDS AceChannel, AceBackend

CONSTANTS OperationIds,  \* ids a backend callback context may carry
          MaxQueue       \* bound: callbacks post only while toClient is shorter

ASSUME WorkerConstants == OperationIds \subseteq Nat /\ MaxQueue \in Nat

VARIABLES
  state,           \* _state
  initialization,  \* the ActiveOperation of runInitialization
  generation,      \* the ActiveOperation of runGeneration
  disposing,       \* the run of dispose(requestId)
  published        \* outputs whose result was handed to postMessage

runtimeVars == <<state, initialization, generation, disposing, published>>
workerVars == <<runtimeVars, backendVars>>

WorkerState == {"new", "initializing", "ready", "generating", "disposing", "disposed"}

\* phase: what the operation awaits.  accepted: the backend took its last call.
\* terminal: the outcome runInitialization will announce after its cleanup.
Operation(phases) ==
  [id : Nat, phase : phases, accepted : BOOLEAN, aborted : BOOLEAN,
   callbackError : BOOLEAN, terminal : {"none", "cancelled", "error"}]

NoOperation ==
  [id |-> NoId, phase |-> "none", accepted |-> TRUE, aborted |-> FALSE,
   callbackError |-> FALSE, terminal |-> "none"]

StartOperation(id, accepted) ==
  [NoOperation EXCEPT !.id = id, !.phase = "running", !.accepted = accepted]

Aborted(op) == [op EXCEPT !.aborted = (op.phase # "none")]

NoDisposal == [requestId |-> NoId, phase |-> "none", accepted |-> TRUE]

WorkerTypeOK ==
  /\ BackendTypeOK
  /\ state \in WorkerState
  /\ initialization \in Operation({"none", "running", "cleanup"})
  /\ generation \in Operation({"none", "running", "releasing"})
  /\ disposing \in [requestId : Nat, phase : {"none", "waiting", "backend"},
                    accepted : BOOLEAN]
  /\ published \in SUBSET Nat

WorkerInit ==
  /\ BackendInit
  /\ state = "new"
  /\ initialization = NoOperation
  /\ generation = NoOperation
  /\ disposing = NoDisposal
  /\ published = {}

-----------------------------------------------------------------------------
(* Handlers of the five client messages.                                    *)

Incoming == Head(toWorker)

Receive(type) ==
  /\ toWorker # <<>>
  /\ Incoming.type = type
  /\ toWorker' = Tail(toWorker)

HandleInitialize ==
  /\ Receive("initialize")
  /\ IF state = "new"
     THEN /\ state' = "initializing"
          /\ initialization' = StartOperation(Incoming.requestId, AcceptsInitialize)
          /\ CallInitialize
          /\ UNCHANGED toClient
     ELSE /\ Post(RequestMessage("error", Incoming.requestId))
          /\ UNCHANGED <<state, initialization, backendVars>>
  /\ UNCHANGED <<generation, disposing, published>>

HandleCancelInitialization ==
  /\ Receive("cancel-initialization")
  /\ initialization' = IF initialization.id = Incoming.requestId
                       THEN Aborted(initialization) ELSE initialization
  /\ UNCHANGED <<toClient, state, generation, disposing, published, backendVars>>

HandleGenerate ==
  /\ Receive("generate")
  /\ IF state = "ready"
     THEN /\ state' = "generating"
          /\ generation' = StartOperation(Incoming.jobId, AcceptsGenerate)
          /\ CallGenerate
          /\ UNCHANGED toClient
     ELSE /\ Post(JobMessage("error", Incoming.jobId))
          /\ UNCHANGED <<state, generation, backendVars>>
  /\ UNCHANGED <<initialization, disposing, published>>

HandleCancel ==
  /\ Receive("cancel")
  /\ generation' = IF generation.id = Incoming.jobId
                   THEN Aborted(generation) ELSE generation
  /\ UNCHANGED <<toClient, state, initialization, disposing, published, backendVars>>

HandleDispose ==
  /\ Receive("dispose")
  /\ IF state \in {"disposing", "disposed"}
     THEN /\ Post(RequestMessage(IF state = "disposed" THEN "disposed" ELSE "error",
                                 Incoming.requestId))
          /\ UNCHANGED <<state, initialization, generation, disposing>>
     ELSE /\ state' = "disposing"
          /\ initialization' = Aborted(initialization)
          /\ generation' = Aborted(generation)
          /\ disposing' = [requestId |-> Incoming.requestId, phase |-> "waiting",
                           accepted |-> TRUE]
          /\ UNCHANGED toClient
  /\ UNCHANGED <<published, backendVars>>

HandleMessage ==
  \/ HandleInitialize \/ HandleCancelInitialization
  \/ HandleGenerate \/ HandleCancel \/ HandleDispose

-----------------------------------------------------------------------------
(* runInitialization after its await of backend.initialize.  matches: the   *)
(* returned diagnostics meet the initialization contract.                   *)

CanPublishInitialization(r) ==
  /\ initialization.phase # "none"
  /\ initialization.id = r
  /\ state = "initializing"
  /\ ~initialization.aborted

InitializationOutcome(ok, matches) ==
  IF initialization.callbackError \/ (ok /\ ~matches) THEN "error"
  ELSE IF initialization.aborted THEN "cancelled"
  ELSE IF ~ok THEN "error"
  ELSE IF CanPublishInitialization(initialization.id) THEN "ready" ELSE "none"

PublishReady ==
  /\ state' = "ready"
  /\ Post(RequestMessage("ready", initialization.id))

\* An initialization that stopped is undone before it is announced, unless
\* a dispose has taken over.
MustCleanUp(outcome) ==
  outcome \in {"error", "cancelled"} /\ state \notin {"disposing", "disposed"}

BackendInitializeReturns ==
  /\ initialization.phase = "running"
  /\ \E ok, matches \in BOOLEAN :
       LET outcome == InitializationOutcome(ok, matches)
           cleanUp == MustCleanUp(outcome)
       IN
       /\ IF initialization.accepted THEN FinishInitialize(ok, cleanUp)
          ELSE ~ok /\ (IF cleanUp THEN CallDispose ELSE UNCHANGED backendVars)
       /\ IF outcome = "ready" THEN PublishReady ELSE UNCHANGED <<state, toClient>>
       /\ initialization' =
            IF cleanUp
            THEN [initialization EXCEPT !.phase = "cleanup", !.aborted = TRUE,
                                        !.accepted = @ \/ AcceptsDispose,
                                        !.terminal = outcome]
            ELSE NoOperation
  /\ UNCHANGED <<toWorker, generation, disposing, published>>

\* ... and after its await of the cleaning backend.dispose().
BackendCleanupReturns ==
  /\ initialization.phase = "cleanup"
  /\ \E ok \in BOOLEAN, error \in ErrorTypes :
       /\ IF initialization.accepted THEN FinishDispose(ok)
                                     ELSE ~ok /\ UNCHANGED backendVars
       /\ IF state # "initializing" THEN UNCHANGED <<state, toClient>>
          ELSE /\ state' = IF ok THEN "new" ELSE "disposed"
               /\ Post(RequestMessage(IF ok /\ initialization.terminal = "cancelled"
                                      THEN "initialization-cancelled" ELSE error,
                                      initialization.id))
  /\ initialization' = NoOperation
  /\ UNCHANGED <<toWorker, generation, disposing, published>>

-----------------------------------------------------------------------------
(* runGeneration after its await of backend.generate.                       *)

\* Mutant: an aborted generation may still publish.
CanPublishAborted(j) ==
  /\ generation.phase # "none"
  /\ generation.id = j
  /\ state = "generating"

CanPublishGeneration(j) ==
  /\ generation.phase # "none"
  /\ generation.id = j
  /\ state = "generating"
  /\ ~generation.aborted

PostIfGenerating(message) ==
  IF state = "generating" THEN Post(message) ELSE UNCHANGED toClient

\* The finally block: the operation ends and the worker is ready again.
EndGeneration ==
  /\ generation' = NoOperation
  /\ state' = IF state = "generating" THEN "ready" ELSE state

\* The finally block when a result was produced and not published: it first
\* awaits backend.releaseResult, still holding the operation and the state.
\* rejected: the result does not match the request, so rejectBackendCallback
\* has aborted the operation.
ReleaseUnpublished(rejected) ==
  /\ generation' = [generation EXCEPT !.phase = "releasing",
                                      !.aborted = @ \/ rejected,
                                      !.callbackError = @ \/ rejected]
  /\ UNCHANGED <<state, published>>

\* Mutant: the published flag is not set, so the finally block releases.
PublishResultThenRelease ==
  /\ Post(JobMessage("result", generation.id))
  /\ published' = published \cup {generation.id}
  /\ generation' = [generation EXCEPT !.phase = "releasing"]
  /\ UNCHANGED state

PublishResult ==
  /\ Post(JobMessage("result", generation.id))
  /\ published' = published \cup {generation.id}
  /\ EndGeneration

\* A refused call leaves the backend as it is and rejects.
GenerateFails ==
  /\ IF generation.accepted THEN FinishGenerateFailed(generation.id)
                            ELSE UNCHANGED backendVars
  /\ \E error \in ErrorTypes :
       PostIfGenerating(JobMessage(
         IF generation.aborted /\ ~generation.callbackError THEN "cancelled" ELSE error,
         generation.id))
  /\ EndGeneration
  /\ UNCHANGED published

\* postMessage of the result may throw, which is reported as an error.
GenerateSucceeds ==
  /\ generation.accepted
  /\ FinishGenerateOk(generation.id)
  /\ \E matches \in BOOLEAN :
       LET j == generation.id
           rejected == ~matches /\ ~generation.callbackError
       IN
       \/ /\ generation.callbackError \/ rejected
          /\ PostIfGenerating(JobMessage("error", j))
          /\ ReleaseUnpublished(rejected)
       \/ /\ matches /\ ~generation.callbackError /\ generation.aborted
          /\ PostIfGenerating(JobMessage("cancelled", j))
          /\ ReleaseUnpublished(FALSE)
       \/ /\ matches /\ ~generation.callbackError /\ CanPublishGeneration(j)
          /\ \/ PublishResult
             \/ Post(JobMessage("error", j)) /\ ReleaseUnpublished(FALSE)

BackendGenerateReturns ==
  /\ generation.phase = "running"
  /\ GenerateFails \/ GenerateSucceeds
  /\ UNCHANGED <<toWorker, initialization, disposing>>

\* Mutant: the finally block returns early under a dispose.
BackendReleaseReturnsEarly ==
  /\ generation.phase = "releasing"
  /\ \E ok \in BOOLEAN :
       /\ FinishRelease(generation.id, ok)
       /\ IF state = "generating" THEN EndGeneration ELSE UNCHANGED <<generation, state>>
  /\ UNCHANGED <<channelVars, initialization, disposing, published>>

BackendReleaseReturns ==
  /\ generation.phase = "releasing"
  /\ \E ok \in BOOLEAN :
       /\ FinishRelease(generation.id, ok)
       /\ IF ~ok /\ ~generation.aborted
          THEN PostIfGenerating(JobMessage("error", generation.id))
          ELSE UNCHANGED toClient
  /\ EndGeneration
  /\ UNCHANGED <<toWorker, initialization, disposing, published>>

-----------------------------------------------------------------------------
(* onProgress and onDiagnostic.  The backend may retain the context of an   *)
(* operation and call back late, so r and j need not be current: what is    *)
(* published is decided by CanPublish... alone.  A malformed or regressing  *)
(* callback rejects the operation.                                          *)

Rejected(op) == [op EXCEPT !.callbackError = TRUE, !.aborted = TRUE]

InitializationCallback(r) ==
  /\ CanPublishInitialization(r)
  /\ \/ /\ \E type \in {"initialization-progress", "diagnostic"} :
             Len(toClient) < MaxQueue /\ Post(RequestMessage(type, r))
        /\ UNCHANGED initialization
     \/ /\ initialization' = Rejected(initialization)
        /\ UNCHANGED toClient
  /\ UNCHANGED <<toWorker, state, generation, disposing, published, backendVars>>

GenerationCallback(j) ==
  /\ CanPublishGeneration(j)
  /\ \/ /\ \E type \in {"generation-progress", "diagnostic"} :
             Len(toClient) < MaxQueue /\ Post(JobMessage(type, j))
        /\ UNCHANGED generation
     \/ /\ generation' = Rejected(generation)
        /\ UNCHANGED toClient
  /\ UNCHANGED <<toWorker, state, initialization, disposing, published, backendVars>>

BackendRetriesCleanup ==
  /\ generation.phase = "running" /\ generation.accepted
  /\ RetryInGenerate
  /\ UNCHANGED <<channelVars, runtimeVars>>

BackendOpensOutput ==
  /\ generation.phase = "running" /\ generation.accepted
  /\ OpenTransaction(generation.id)
  /\ UNCHANGED <<channelVars, runtimeVars>>

-----------------------------------------------------------------------------
(* dispose after its await of the active operations, and after its await of *)
(* backend.dispose().                                                       *)

\* Mutant: dispose does not wait for the active operations.
DisposeBackendAtOnce ==
  /\ disposing.phase = "waiting"
  /\ disposing' = [disposing EXCEPT !.phase = "backend", !.accepted = AcceptsDispose]
  /\ CallDispose
  /\ UNCHANGED <<channelVars, state, initialization, generation, published>>

DisposeBackend ==
  /\ disposing.phase = "waiting"
  /\ initialization.phase = "none" /\ generation.phase = "none"
  /\ disposing' = [disposing EXCEPT !.phase = "backend", !.accepted = AcceptsDispose]
  /\ CallDispose
  /\ UNCHANGED <<channelVars, state, initialization, generation, published>>

BackendDisposeReturns ==
  /\ disposing.phase = "backend"
  /\ \E ok \in BOOLEAN :
       /\ IF disposing.accepted THEN FinishDispose(ok) ELSE ~ok /\ UNCHANGED backendVars
       /\ Post(RequestMessage(IF ok THEN "disposed" ELSE "error", disposing.requestId))
  /\ state' = "disposed"
  /\ disposing' = NoDisposal
  /\ UNCHANGED <<toWorker, initialization, generation, published>>

BackendReturns ==
  \/ BackendInitializeReturns \/ BackendCleanupReturns
  \/ BackendGenerateReturns \/ BackendReleaseReturns
  \/ DisposeBackend \/ BackendDisposeReturns

WorkerNext ==
  \/ HandleMessage
  \/ BackendReturns
  \/ BackendRetriesCleanup \/ BackendOpensOutput
  \/ \E id \in OperationIds : InitializationCallback(id) \/ GenerationCallback(id)

-----------------------------------------------------------------------------
(* The inductive invariant: which phases the state allows, and that the     *)
(* backend is doing exactly what the runtime awaits.                        *)

AwaitedCall ==
  CASE initialization.phase = "running" -> "initializing"
    [] initialization.phase = "cleanup" -> "disposing"
    [] generation.phase = "running" -> "generating"
    [] disposing.phase = "backend" -> "disposing"
    [] OTHER -> "idle"

NoInitialization == initialization.phase = "none"
NoGeneration == generation.phase = "none"
NoDisposalRuns == disposing.phase = "none"

PhasesMatchState ==
  /\ NoInitialization \/ NoGeneration
  /\ state = "new" => NoInitialization /\ NoGeneration /\ NoDisposalRuns
  /\ state = "initializing" => ~NoInitialization /\ NoDisposalRuns
  /\ state = "ready" => NoInitialization /\ NoGeneration /\ NoDisposalRuns
  /\ state = "generating" => ~NoGeneration /\ NoDisposalRuns
  /\ state = "disposing" => ~NoDisposalRuns
  /\ state = "disposed" => NoInitialization /\ NoGeneration /\ NoDisposalRuns
  /\ disposing.phase = "backend" => NoInitialization /\ NoGeneration

BackendMatchesRuntime ==
  /\ initialization.accepted /\ generation.accepted /\ disposing.accepted
  /\ operation = AwaitedCall
  /\ ~NoInitialization \/ disposing.phase = "backend" => ~deviceReady
  /\ state = "new" => ~deviceReady /\ NothingOwed
  /\ state \in {"ready", "generating"} => deviceReady
  /\ state = "disposed" => ~deviceReady

RuntimeInv == PhasesMatchState /\ BackendMatchesRuntime

=============================================================================
