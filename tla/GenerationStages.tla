-------------------------- MODULE GenerationStages --------------------------
(***************************************************************************)
(* generate() of AceWebGpuPipelineBackend (runtime/webgpu-pipeline.ts) and *)
(* the executors of its four stages (webgpu/planner-executor.ts,           *)
(* conditioning-executor.ts, dit-backend.ts with dit-graph.ts, and         *)
(* vae-fp16-backend.ts).  A stage uploads its weights (model/gpu-          *)
(* tensors.ts) and hands them to an executor, which alone destroys them    *)
(* again: at the end of its work, when the pipeline asks, or at once and   *)
(* on its own when the signal aborts or the device is lost, while the work *)
(* it belongs to is still awaited.                                         *)
(*                                                                         *)
(* A pass is what an executor submits and drains in one go: an invocation  *)
(* of the planner, the quanta of one conditioning phase, the DiT graph, a  *)
(* window of the VAE, a copy to a readback buffer.  The executor's graph   *)
(* lease (GraphOwner) and the drain (GpuScheduler) have modules of their   *)
(* own.  An output is named by the number of its generation.               *)
(***************************************************************************)
EXTENDS Naturals, Sequences

CONSTANTS MaxJobs,      \* bound: generations
          Invocations,  \* bound: invocations of the planner in a generation
          Windows       \* bound: windows of the VAE in a generation

ASSUME MaxJobsAssumption == MaxJobs \in Nat

VARIABLES
  job,        \* generations begun
  planned,    \* request.planner.mode is "enabled"
  place,      \* the await generate() is at
  stage,      \* the stage it is in
  loading,    \* the weights being uploaded
  resident,   \* weights with buffers on the GPU
  executor,   \* the stage's executor: "none", "live", "destroying", "destroyed"
  lease,      \* the executor's graph lease is held
  submitted,  \* a pass is on the device, its fence not settled
  passes,     \* passes of the stage that are done
  signalAborted,  \* context.signal.aborted
  failure,    \* gpuError and deviceLoss
  audio,      \* the audio transaction: "none", "open", "committed"
  outputs     \* committedAudioIds, pending cleanups and OPFS, as in AceBackend

runVars == <<planned, place, stage, loading, resident, executor, lease, submitted, passes>>
generationVars == <<job, runVars, signalAborted, failure, audio, outputs>>

Jobs == 1..MaxJobs

\* The weights of a stage, in the order of their lifetimes.
Lifetimes(s) ==
  CASE s = "planner" -> <<"planner">>
    [] s = "conditioning" -> IF planned THEN <<"text", "semantic", "conditioner">>
                                        ELSE <<"text", "conditioner">>
    [] s = "dit" -> <<"dit", "dense">>
    [] s = "vae" -> <<"vae">>

WeightsOf(s) == {Lifetimes(s)[i] : i \in DOMAIN Lifetimes(s)}

Passes ==
  CASE stage = "planner" -> Invocations
    [] stage = "conditioning" -> Len(Lifetimes(stage)) + 1
    [] stage = "dit" -> 2
    [] stage = "vae" -> Windows

\* The weights the next pass reads: a conditioning phase has its own, and
\* the copies after conditioning and after the DiT graph read none.
Reads ==
  CASE stage = "conditioning" -> {Lifetimes(stage)[i] : i \in {passes + 1} \cap DOMAIN Lifetimes(stage)}
    [] stage = "dit" -> IF passes = 0 THEN WeightsOf(stage) ELSE {}
    [] OTHER -> WeightsOf(stage)

NeedsLease == stage = "dit" => passes = 0

Stopped == signalAborted \/ failure # "none"

GenerationTypeOK ==
  /\ job \in 0..MaxJobs /\ planned \in BOOLEAN
  /\ place \in {"idle", "retry", "load", "create", "run", "write", "destroy", "fetch", "begin",
                "commit", "settle", "rollback", "release"}
  /\ stage \in {"planner", "conditioning", "dit", "vae"}
  /\ {loading} \cup resident \subseteq
       {"none", "planner", "text", "semantic", "conditioner", "dit", "dense", "vae"}
  /\ executor \in {"none", "live", "destroying", "destroyed"}
  /\ lease \in BOOLEAN /\ submitted \in BOOLEAN /\ passes \in Nat
  /\ signalAborted \in BOOLEAN /\ failure \in {"none", "error", "lost"}
  /\ audio \in {"none", "open", "committed"}
  /\ outputs \in [committed : SUBSET Jobs, rollback : SUBSET Jobs,
                  release : SUBSET Jobs, stored : SUBSET Jobs]

GenerationInit ==
  /\ job = 0 /\ planned = FALSE /\ place = "idle" /\ stage = "planner" /\ loading = "none"
  /\ resident = {} /\ executor = "none" /\ lease = FALSE /\ submitted = FALSE /\ passes = 0
  /\ signalAborted = FALSE /\ failure = "none" /\ audio = "none"
  /\ outputs = [committed |-> {}, rollback |-> {}, release |-> {}, stored |-> {}]

-----------------------------------------------------------------------------
(* Moves of generate().                                                     *)

\* The catch block: every executor is told to go, and weights that were not
\* handed to one are destroyed at once.
Settle ==
  /\ place' = "settle"
  /\ executor' = IF executor = "live" THEN "destroying" ELSE executor
  /\ resident' = IF executor = "none" THEN resident \ WeightsOf(stage) ELSE resident
  /\ UNCHANGED <<planned, stage, loading, lease, submitted, passes>>

\* loadPackagePhase: its prologue, and the buffers of the upload.
Load(s, weights) ==
  /\ place' = "load" /\ stage' = s /\ loading' = weights
  /\ resident' = resident \cup {weights}
  /\ UNCHANGED <<planned, submitted>>

Enter(s, weights) ==
  \/ Stopped /\ Settle
  \/ /\ ~Stopped
     /\ Load(s, weights)
     /\ executor' = "none" /\ passes' = 0 /\ UNCHANGED lease

Continue(p) ==
  /\ place' = p
  /\ UNCHANGED <<planned, stage, loading, resident, executor, lease, submitted, passes>>

Generate ==
  /\ place = "idle" /\ job < MaxJobs /\ failure = "none"
  /\ job' = job + 1 /\ place' = "retry" /\ signalAborted' = FALSE
  /\ planned' \in BOOLEAN
  /\ stage' = "planner" /\ loading' = "none" /\ executor' = "none" /\ passes' = 0
  /\ UNCHANGED <<resident, lease, submitted, failure, audio, outputs>>

\* retryPendingCleanup: what was owed is rolled back and released, or the
\* generation fails with what is left.
RetryReturns ==
  /\ place = "retry"
  /\ \E rolled \in SUBSET outputs.rollback, released \in SUBSET outputs.release :
       /\ outputs' = [committed |-> outputs.committed \ released,
                      rollback |-> outputs.rollback \ rolled,
                      release |-> outputs.release \ released,
                      stored |-> outputs.stored \ (rolled \cup released)]
       /\ IF rolled = outputs.rollback /\ released = outputs.release
          THEN IF planned THEN Enter("planner", "planner") ELSE Enter("conditioning", "text")
          ELSE Continue("idle")
  /\ UNCHANGED <<job, signalAborted, failure, audio>>

\* Mutant: an executor keeps its lease when its run throws.
RunThrowsWithLease ==
  /\ place' = "settle"
  /\ executor' = IF executor = "live" THEN "destroying" ELSE executor
  /\ UNCHANGED <<planned, stage, loading, resident, lease, passes>>

(* run() of an executor throws.  The conditioning executor and the DiT      *)
(* graph let go of their weights before the lease, the others leave it to   *)
(* their destruction.                                                       *)
RunThrows ==
  /\ place' = "settle"
  /\ lease' = FALSE
  /\ executor' = IF lease /\ stage = "conditioning" THEN "destroyed"
                 ELSE IF executor = "live" THEN "destroying" ELSE executor
  /\ resident' = IF lease /\ stage \in {"conditioning", "dit"}
                 THEN resident \ WeightsOf(stage) ELSE resident
  /\ UNCHANGED <<planned, stage, loading, passes>>

(* An upload ends.  The conditioning executor loads its later phases itself *)
(* and under its lease; the DiT takes two packages.                         *)
LoadReturns ==
  /\ place = "load"
  /\ \/ /\ ~signalAborted
        /\ CASE lease -> Continue("run")
             [] stage = "dit" /\ loading = "dit" ->
                  \/ Stopped /\ Settle
                  \/ ~Stopped /\ Load("dit", "dense") /\ UNCHANGED <<executor, lease, passes>>
             [] stage = "vae" \/ loading = "dense" -> Continue("create")
             [] OTHER -> /\ place' = "run" /\ executor' = "live"
                         /\ UNCHANGED <<planned, stage, loading, resident, lease, submitted, passes>>
     \/ IF lease THEN RunThrows /\ UNCHANGED submitted ELSE Settle
  /\ UNCHANGED <<job, signalAborted, failure, audio, outputs>>

\* createDit and createVae compile their graphs; a failure destroys the weights.
CreateReturns ==
  /\ place = "create"
  /\ \/ /\ ~signalAborted
        /\ place' = "run" /\ executor' = "live"
        /\ UNCHANGED <<planned, stage, loading, resident, lease, submitted, passes>>
     \/ Settle
  /\ UNCHANGED <<job, signalAborted, failure, audio, outputs>>

-----------------------------------------------------------------------------
(* Executors.                                                               *)

AcquireLease ==
  /\ place = "run" /\ NeedsLease /\ ~lease
  /\ IF executor = "live"
     THEN lease' = TRUE
          /\ UNCHANGED <<planned, place, stage, loading, resident, executor, passes>>
     ELSE RunThrows
  /\ UNCHANGED <<job, submitted, signalAborted, failure, audio, outputs>>

\* Encoding may throw too.
Submit ==
  /\ place = "run" /\ (lease \/ ~NeedsLease) /\ ~submitted
  /\ \/ /\ executor = "live" /\ submitted' = TRUE
        /\ UNCHANGED <<planned, place, stage, loading, resident, executor, lease, passes>>
     \/ RunThrows /\ UNCHANGED submitted
  /\ UNCHANGED <<job, signalAborted, failure, audio, outputs>>

LastPass == passes + 1 = Passes

\* The run goes on with the next pass, under the lease or without.
NextPass(held) ==
  /\ place' = "run" /\ lease' = held
  /\ passes' = passes + 1
  /\ UNCHANGED <<planned, stage, loading, executor>>

\* The run is over, and the executor is told to go.
RunEnds(executorThen) ==
  /\ place' = "destroy" /\ lease' = FALSE
  /\ passes' = passes + 1
  /\ executor' = executorThen
  /\ UNCHANGED <<planned, stage, loading>>

PlannerPassDone ==
  /\ IF LastPass THEN RunEnds("destroying") ELSE NextPass(FALSE)
  /\ UNCHANGED resident

(* The weights of a phase end with it, and the next are loaded under the    *)
(* same lease; the executor completes by itself.                            *)
ConditioningPassDone ==
  IF LastPass THEN RunEnds("destroyed") /\ UNCHANGED resident
  ELSE IF passes + 1 = Len(Lifetimes(stage)) THEN NextPass(TRUE) /\ resident' = resident \ Reads
  ELSE LET weights == Lifetimes(stage)[passes + 2] IN
       \/ Stopped /\ RunThrows
       \/ /\ ~Stopped
          /\ place' = "load" /\ loading' = weights
          /\ resident' = (resident \ Reads) \cup {weights}
          /\ passes' = passes + 1
          /\ UNCHANGED <<planned, stage, executor, lease>>

\* The DiT graph destroys its weights; a copy follows it.
DitPassDone ==
  /\ IF LastPass THEN RunEnds("destroying") ELSE NextPass(FALSE)
  /\ resident' = resident \ Reads

\* streamAceVaeRawChunks writes each window to the transaction's raw file.
VaePassDone ==
  /\ place' = "write" /\ lease' = FALSE
  /\ passes' = passes + 1
  /\ UNCHANGED <<planned, stage, loading, resident, executor>>

\* A fence that settles means here that the pass is done, which GpuScheduler doubts.
FenceSettles ==
  /\ submitted /\ submitted' = FALSE
  /\ \/ /\ executor = "live"
        /\ CASE stage = "planner" -> PlannerPassDone
             [] stage = "conditioning" -> ConditioningPassDone
             [] stage = "dit" -> DitPassDone
             [] stage = "vae" -> VaePassDone
     \/ RunThrows
  /\ UNCHANGED <<job, signalAborted, failure, audio, outputs>>

WriteReturns ==
  /\ place = "write"
  /\ \/ /\ signalAborted => passes = Passes
        /\ IF passes < Passes THEN place' = "run" /\ UNCHANGED executor
           ELSE /\ place' = "destroy"
                /\ executor' = IF executor = "live" THEN "destroying" ELSE executor
        /\ UNCHANGED <<planned, stage, loading, resident, lease, submitted, passes>>
     \/ Settle
  /\ UNCHANGED <<job, signalAborted, failure, audio, outputs>>

Gone ==
  /\ executor' = "destroyed"
  /\ resident' = resident \ WeightsOf(stage)
  /\ UNCHANGED <<job, planned, place, stage, loading, lease, submitted, passes, signalAborted, failure,
                 audio, outputs>>

\* Mutant: an executor that is told to go does not wait for its run.
DestroyedAtOnce == executor = "destroying" /\ Gone

\* beginDestroy disposes of the graph owner, which waits for the lease, and
\* then destroys all the executor owns.
Destroyed == executor = "destroying" /\ ~lease /\ Gone

-----------------------------------------------------------------------------
(* The rest of generate().                                                  *)

DestroyReturns ==
  /\ place = "destroy" /\ executor = "destroyed"
  /\ CASE stage = "planner" -> Enter("conditioning", "text")
       [] stage = "conditioning" -> Enter("dit", "dit")
       [] stage = "dit" ->
            \/ failure # "none" /\ Settle
            \/ /\ failure = "none"
               /\ place' = "fetch" /\ stage' = "vae" /\ executor' = "none" /\ passes' = 0
               /\ UNCHANGED <<planned, loading, resident, lease, submitted>>
       [] stage = "vae" -> IF Stopped THEN Settle ELSE Continue("commit")
  /\ UNCHANGED <<job, signalAborted, failure, audio, outputs>>

\* acquireModel of the VAE package, from the cache or the network.
FetchReturns ==
  /\ place = "fetch"
  /\ Continue("begin") \/ Settle
  /\ UNCHANGED <<job, signalAborted, failure, audio, outputs>>

\* beginAudio takes no signal.
BeginReturns ==
  /\ place = "begin"
  /\ \/ /\ audio' = "open"
        /\ outputs' = [outputs EXCEPT !.stored = @ \cup {job}]
        /\ Enter("vae", "vae")
     \/ Settle /\ UNCHANGED <<audio, outputs>>
  /\ UNCHANGED <<job, signalAborted, failure>>

\* The WAV is durable once commit() returns, whatever becomes of the generation.
CommitReturns ==
  /\ place = "commit"
  /\ \/ Settle /\ UNCHANGED <<audio, outputs>>
     \/ Settle /\ audio' = "committed" /\ UNCHANGED outputs
     \/ /\ outputs' = [outputs EXCEPT !.committed = @ \cup {job}]
        /\ IF Stopped THEN Settle /\ audio' = "committed"
           ELSE Continue("idle") /\ audio' = "none"
  /\ UNCHANGED <<job, signalAborted, failure>>

\* Mutant: the catch block knows of the transaction only.
SettleReturnsForgetsOutput ==
  /\ place = "settle" /\ executor \in {"none", "destroyed"}
  /\ Continue(IF audio = "open" THEN "rollback" ELSE "idle")
  /\ UNCHANGED <<job, signalAborted, failure, audio, outputs>>

\* The executors are gone, and what the generation did in OPFS is undone.
SettleReturns ==
  /\ place = "settle" /\ executor \in {"none", "destroyed"}
  /\ Continue(CASE audio = "open" -> "rollback"
                [] audio = "committed" -> "release"
                [] audio = "none" -> "idle")
  /\ UNCHANGED <<job, signalAborted, failure, audio, outputs>>

RollbackReturns ==
  /\ place = "rollback" /\ Continue("idle") /\ audio' = "none"
  /\ outputs' \in {[outputs EXCEPT !.stored = @ \ {job}],
                   [outputs EXCEPT !.rollback = @ \cup {job}]}
  /\ UNCHANGED <<job, signalAborted, failure>>

ReleaseReturns ==
  /\ place = "release" /\ Continue("idle") /\ audio' = "none"
  /\ outputs' \in {[outputs EXCEPT !.stored = @ \ {job}, !.committed = @ \ {job}],
                   [outputs EXCEPT !.release = @ \cup {job}]}
  /\ UNCHANGED <<job, signalAborted, failure>>

(* What the listeners of the signal and of device.lost do, at any await.    *)
Interrupted ==
  /\ executor' = IF executor = "live" THEN "destroying" ELSE executor
  /\ UNCHANGED <<job, planned, place, stage, loading, resident, lease, submitted, passes, audio,
                 outputs>>

AbortGeneration ==
  /\ place # "idle" /\ ~signalAborted
  /\ signalAborted' = TRUE /\ Interrupted /\ UNCHANGED failure

\* An uncaptured error stops the generation at its next check.
GpuFails ==
  /\ failure = "none" /\ failure' \in {"error", "lost"}
  /\ UNCHANGED <<job, runVars, signalAborted, audio, outputs>>

LossNoticed ==
  /\ executor = "live" /\ failure = "lost"
  /\ Interrupted /\ UNCHANGED <<signalAborted, failure>>

\* What goes on by itself once a generation has begun.
GenerationProgress ==
  \/ RetryReturns \/ LoadReturns \/ CreateReturns
  \/ AcquireLease \/ Submit \/ FenceSettles \/ WriteReturns \/ Destroyed \/ DestroyReturns
  \/ BeginReturns \/ CommitReturns \/ SettleReturns \/ RollbackReturns \/ ReleaseReturns

GenerationNext == Generate \/ GenerationProgress \/ FetchReturns \/ AbortGeneration \/ GpuFails \/ LossNoticed

(* Uploads, submitted work and OPFS return; the network need not, but its   *)
(* request is aborted with the generation.                                  *)
GenerationFairness ==
  /\ WF_generationVars(GenerationProgress)
  /\ WF_generationVars(signalAborted /\ FetchReturns)

GenerationSpec == GenerationInit /\ [][GenerationNext]_generationVars /\ GenerationFairness

-----------------------------------------------------------------------------
(* Only one lifetime of weights is on the GPU, its stage's or, inside the   *)
(* conditioning stage, its phase's ("Physical GPU owner for one package     *)
(* tensor lifetime", model/gpu-tensors.ts); what a submitted pass reads is  *)
(* there until its fence settles, whoever tells the executor to go; and a   *)
(* generation leaves nothing behind.                                        *)
LifetimesDoNotOverlap ==
  /\ resident \subseteq WeightsOf(stage)
  /\ stage = "conditioning" => \A a, b \in resident : a = b
  /\ submitted => Reads \subseteq resident
  /\ place = "idle" => resident = {} /\ ~lease /\ ~submitted

Backend == INSTANCE AceBackend WITH
  operation <- IF place = "idle" THEN "idle" ELSE "generating",
  deviceReady <- TRUE,
  committed <- outputs.committed \ (IF place \in {"settle", "release"} THEN {job} ELSE {}),
  pendingRollback <- outputs.rollback,
  pendingRelease <- outputs.release,
  stored <- outputs.stored

(* A generation, wherever it stops, does to OPFS and to the books the       *)
(* backend keeps of it what AceBackend, which knows of no stages, says.     *)
ImplementsBackend == [][\E j \in Jobs : Backend!GenerateNext(j)]_(Backend!backendVars)

\* A generation that is aborted, at whatever await, returns.
AbortedGenerationEnds == signalAborted ~> place = "idle"
=============================================================================
