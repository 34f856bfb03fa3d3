# fluidaudio-web: specifications

fluidaudio-web runs speech and music models in the browser, on WebGPU and in workers, with no
server. Most of its code is numeric. What is hard to test is the rest: a music generator that lives in
a dedicated worker and can be cancelled, disposed or terminated at any moment; a scheduler that
lets graphs share GPU storage; a cache of gigabytes of weights in the origin private file system
(OPFS) that several tabs, possibly of several releases, write to; the songs themselves, which no tab may lose or
leave behind; a music page whose buttons, messages and continuations share one set of variables; and
engines that share decoder workers, buffer pools and decoder state between calls. These modules specify that rest in TLA+. TLC checks them on
small instances, and TLAPS proves the safety properties that matter most for every value of the
constants.

Paths below are relative to the repository. Every definition names its lines in `PROJECT.json`
(`map`); `mutants` lists, for each property, a bug in the modelled code that breaks it.

## 1. The system

### Music generation (ACE-Step)

| part | source | state | operations | hard because |
|---|---|---|---|---|
| page client | `src/engines/musicgen-acestep/index.ts`, `worker-disposal.ts`, `cache-lease.ts` | the worker, whether it is ready, the active promise with its request and job, the acquisition in progress, the lease of the cache lock, the disposal in progress | load, generate, cancel, dispose, terminate; the worker's messages and errors; a 30 s timer | each call can supersede another that is awaited; a terminated worker's messages and a lease that arrives late must not reach its successor |
| worker runtime | `packages/acestep/src/runtime/worker.ts` | state (new ... disposed), the initialization, the generation and the disposal in progress with their abort controllers | initialize, generate, cancel, cancel-initialization, dispose | five message handlers run between any two awaits of each other |
| backend lifecycle | `.../runtime/webgpu-pipeline.ts` | busy flag, device, outputs committed or owed a rollback or release | initialize, generate, releaseUnpublishedResult, dispose | every stage may fail after the output file exists; cleanups may fail too |
| generation executors | `.../runtime/webgpu-pipeline.ts` (`generate`), `planner-coordinator.ts`, `.../webgpu/planner-executor.ts`, `conditioning-executor.ts`, `dit-backend.ts`, `dit-graph.ts`, `vae-fp16-backend.ts`, `vae-chunks.ts`, `.../model/gpu-tensors.ts` | the await of the generation, its stage, the weights on the GPU, the executor and its graph lease, the audio transaction | upload, create, run, drain, destroy; listeners of abort and device loss | an executor may be told to go by its own listener while the generation awaits it; the weights of one stage leave no room for the next |
| GPU graph owner | `.../runtime/scheduler.ts` 150-221 | the holder, the queue, the disposal waiters | acquire, abort while queued, release, dispose | lost wakeups, order |
| GPU submission | `.../runtime/scheduler.ts` 255-805 | the window of fences, the epoch, the failure drain | run, runLazy, runLazyDepth2Epoch4 | fences settle in any order or reject, or cannot be taken; the device may be lost |
| model cache | `.../model/cache.ts`, `acquire.ts`, `package.ts` | payload and marker in OPFS; reserved digests and open writers in memory | lookup, begin, hash, write, commit, rollback, remove; resumable download with retries | the disk is shared by all tabs, the reservations are private to a worker, and a worker may be terminated between any two awaits |
| cache lifecycle | `src/engines/musicgen-acestep/model-cache-migration.ts`, `cache-lease.ts` | Web Lock, generation marker | lease, migrate, delete | several tabs of several releases; crash between deletion and marker |
| audio output | `.../runtime/audio-output.ts` | partial and committed WAV, commit marker | begin, close, commit, rollback, release, recover stale | crash between two steps; recovery by age |
| pending outputs | `src/engines/musicgen-acestep/pending-output-registry.ts` | records in localStorage, Web Locks per output | claim, record, forget, reclaim | several tabs; the lock is not held where the records are read |
| music page | `src/music.ts` | busy, pending request, acquisition, initialization, job, disposal, the worker and its variant | Generate, Cancel, Delete model, messages, errors, continuations | any of them runs while another is awaited |
| planner constraint | `.../runtime/planner-metadata-fsm.ts`, `planner-coordinator.ts` | position in the metadata grammar | allowedTokens, acceptToken | a long alternation with many branches |

The page calls the client. The client takes the cache lock (shared), makes sure the model files are
there (the cache lifecycle and the model cache), creates the worker and sends it `initialize`; from
then on the two exchange messages through two ordered ports. The runtime drives the backend, one call at
a time; the backend takes a generation through its stages (planner, conditioning, DiT, VAE), each with weights and an executor
of its own, runs their graphs through the scheduler and writes its song through the audio output. The
page registers the song as a pending output until the user saves or drops it.

### The other engines

| part | source | hard because |
|---|---|---|
| resource session (owner of the playground's engine) | `src/core/resource-session.ts` | close during a load; dispose that rejects |
| DiCoSe stem splitter | `packages/dicose/src/api.ts`, `worker.ts` | request/reply worker with a serial queue and a memoised initialize |
| Parakeet transcription | `src/engines/asr-parakeet/` (`decode-pool.js`, `decode-sink.js`, `stitcher.js`, `windowing.js`) | windows decoded by several workers, stitched in order; dead workers |
| end-of-utterance engine | `src/engines/eou-parakeet/index.ts` | pushes are serialised, `reset()` and `dispose()` are not |
| shared GPU compute layer | `src/gpu/scheduler.js`, `buffer-pool.js` | arenas that close out of order, uniform ring |
| microphone, live captions | `src/core/mic.ts`, `src/live.ts` | start/stop races |
| kernels, tokenizers, samplers, pages | `src/gpu/kernels`, `packages/acestep/src/webgpu`, ... | numeric; parity with reference outputs, not behaviour over time |

### What makes each part correct

* Worker runtime: it never makes a call its backend refuses; an initialization is a transaction;
  `disposed` means that nothing runs and no device is held, and is final; every output file is
  published or owed a cleanup, and a published one survives; `result` and `cancelled` are the last
  word on a job; dispose and cancel come to an end.
* Page client: a live worker has the cache lease behind it and no lease is leaked; `cancel()` always
  finds what it should cancel, and that promise settles; a promise resolves only with its own job's
  result; the client never sends what the runtime would refuse; `dispose()` settles even if the
  worker hangs.
* Generation executors: the weights of one lifetime at a time are on the GPU, and stay until the work that reads them has drained; a
  generation that stops, wherever, leaves no weights, no lease and no output behind that is not owed a cleanup; an aborted one returns.
* Scheduler: the storage lease is passed on in order of arrival and only when the device is done with
  the holder's work; no wakeup is lost; at most two command buffers are in flight; success means
  that every buffer is done.
* Model cache: what is handed to the GPU has the manifest's bytes; a cache hit is authentic and
  stays as it is; the reservation of a digest has one owner and is never left behind; every
  acquisition ends.
* Cache lifecycle: the cache is never deleted under a live worker, and never holds files of one
  release under the marker of another.
* Audio output and pending outputs: a song on show stays on disk whatever other tabs do, and the record of an
  unsaved song goes only when the song has gone.
* Resource session, DiCoSe, decode pool, end-of-utterance: what was loaded is disposed once; every call settles, with its own
  answer (findings 4 and 5 are where it does not); windows are stitched once, in order; a stream's text is the audio that was pushed to it.
* Music page: it comes out of busy; what was cancelled is never posted to a worker.
* Buffer pool: no buffer is handed out while another arena or a recorded batch uses it.

## 2. The modules

| module | models | composed from |
|---|---|---|
| `AceChannel` | the two message ports and the message types | |
| `AceBackend` | the backend's busy flag, device and outputs; each method is a synchronous prologue (`Call...`) and a completion (`Finish...`) | |
| `AceWorker` | the worker runtime | `AceChannel`, `AceBackend` |
| `GenerationStages` | the stages of `generate()`: uploads, executors, listeners, commit and what the catch block undoes; implements `AceBackend` | `AceBackend` |
| `AceWorkerOpen` | the runtime under a page that sends any message of the protocol in any order | `AceWorker` |
| `AceClient` | the page client | `AceChannel` |
| `AceSession` | client and runtime joined by the ports | `AceClient`, `AceWorker` |
| `MusicService` | what a page may rely on: the abstract specification `AceSession` implements | |
| `GraphOwner` | the FIFO owner of the aliased graph storage | |
| `EpochPlan` | the planner that cuts phases into epochs of four | |
| `EpochTiling` | what the scheduler requires of its plans, over the phases of one graph | `EpochPlan` |
| `GpuScheduler` (`MCGpuScheduler`) | submission loops and failure drain over a device | `GraphOwner` |
| `ModelCache` (`MCModelCache`) | one cache identity and its acquisition, by callers in one or several workers | |
| `CacheLifecycle` | migration, lease and deletion of the cache by tabs of several releases | |
| `SongStorage` | the life of songs: transactions of the workers, registry, page, reclamation and recovery by other tabs | |
| `MusicPage` | the controls of the music page over a worker | |
| `ResourceSession` | the owner of one disposable resource | |
| `DicoseSession` | the stem splitter's client and its worker | |
| `Transcription` (`MCTranscription`) | transcriptions over a shared pool of decoder workers | |
| `BufferPool` | the GPU buffer pool, as operators on its state | |
| `StreamingEou` | the end-of-utterance engine: its chain of calls, `reset`, its encoder streams | `BufferPool` |
| `MCRuntime` | for TLC: the worker runtime under an open page and the GPU scheduler, side by side | `AceWorkerOpen`, `MCGpuScheduler` |
| `MCMusicPage` | for TLC: the model cache of one worker and the controls of the page, side by side | `MCModelCache`, `MusicPage` |
| `MCMusicDemo` | for TLC: cache lifecycle, generation stages, epoch plans and stem splitter, side by side | `CacheLifecycle`, `GenerationStages`, `EpochTiling`, `DicoseSession` |
| `Playground` (`MCPlayground`) | resource session, transcription, streaming engine and songs, side by side | `SongStorage`, `ResourceSession`, `Transcription`, `StreamingEou` |
| `AceWorkerProofs`, `AceWorkerOpenProofs`, `AceSessionProofs` | proofs about runtime and session | |
| `GpuSchedulerProofs` | proofs about the graph owner, the scheduler and its plans | `GpuScheduler`, `EpochTiling` |
| `GenerationStagesProofs` | proofs about the stages of a generation | |
| `ModelCacheProofs`, `CacheLifecycleProofs` | proofs about the model cache and its life across releases | |
| `PlaygroundProofs` | proofs about songs, resource session, transcription and streaming engine, and about their composition | `Playground` |

How state and actions correspond to the code:

* **AceWorker.** `state`, `initialization`, `generation` and `disposing` are the runtime's fields of the same
  purpose; an operation's record holds its id, whether its signal is aborted, whether a callback threw, and
  `phase`, the await it stands at. `HandleMessage` is `handleMessage`, one disjunct per message type up to the
  first await; `BackendInitializeReturns`, `BackendCleanupReturns`, `BackendGenerateReturns`,
  `BackendReleaseReturns` and `BackendDisposeReturns` are what runs from each await to the next, `finally`
  blocks included. Posting a `result` may throw (line 497), the post of `ready` is taken not to. `BackendRetriesCleanup` is the backend's own step
  inside an awaited `generate`: it first pays the cleanups an earlier generation owes.
* **GenerationStages.** `place` is the await `generate()` stands at, `stage` the stage, `resident` the weights on the GPU; `executor`,
  `lease` and `submitted` are the stage's executor, its graph lease and the work it has on the device. An executor works in passes
  (an invocation of the planner, the quanta of a conditioning phase, the DiT graph, a VAE window, a copy) and reads the weights `Reads`
  names. `AbortGeneration` and `LossNoticed` are the executor's listeners, `RunThrows` what its `run()` does on the way out, `Destroyed` the end of
  `beginDestroy`; `Settle` to `ReleaseReturns` are the catch block. `Backend` maps it onto `AceBackend`: a generation is its `CallGenerate`, its retry, its
  transaction and one of its two ends.
* **AceClient.** `worker` is the number of the live worker (0: none); `active` the promise in progress with its
  request and job; `leases` and `acquiring` the locks held and the acquisitions awaited;
  `disposePromise` where disposal stands. One action per public method, one per message type, one per
  continuation after an await. `terminate` drops both ports with their messages; an `error` event already
  queued is still delivered, as in a browser.
* **AceSession.** `ClientStep` and `WorkerStep` interleave the two. A client step that replaces the worker
  resets the runtime to its initial state and leaves OPFS as it was.
* **GraphOwner / GpuScheduler.** `waiting` is the queue, `holder` the lease; `run` is the submission loop of the
  holder at one of its awaits. `gpu` is the device's queue of command buffers by graph, executed in order. A fence
  records how many buffers it covers. The encoder, the progress callbacks, the clock and `queue.submit` throw at
  any point where the code calls them.
* **EpochPlan.** The planner's loop over the phases is a recursive function: the plan after each number of phases (`PlansAfter`), which each phase
  extends by its epochs and by the number its successor begins with (`Planned`).
* **ModelCache.** `pc` is the await a caller stands at, each of which may also reject; `goal` tells why it is
  there (the same `openCandidate` serves inspection, `begin()` and the confirmation after a commit). `payload`,
  `marker` and `directory` are the disk. `swap` is what `createWritable` buffers, `hashed` what the incremental
  SHA-256 has seen. `reserved` is `activeDigests`, one set per worker.
* **CacheLifecycle.** A call is one run of `acquireAceDemoModelCache` or `deleteAceDemoModelCache`; `pc` is the await
  it stands at. What it holds of the Web Lock follows from `pc` (`SharedPlaces`, `ExclusivePlaces`), and `queue` are the
  requests not granted yet, in order. `files` are the generations with files in the directory, `marker` the generation
  file, which a crash or a failed write can leave torn. `awaiting` is what a deletion took from `localReleases`.
* **SongStorage.** `dir` is what an output's directory holds (files open, closed, without or with the commit marker),
  `step` where the worker or the page that is busy with it stands, `records` the registry (for each recorded output how many were recorded after it,
  which is all its order is for), `owned` the ownership locks. The passing of a day
  (`Age`) and of an hour (`Expire`) make outputs and records old. Another tab's reclamation (`Visit` to `ReclaimEnds`) and recovery
  (`Recover` to `RecoverEnds`) look in one step and delete in a later one.
* **MusicPage.** `page` holds the variables of `music.ts` under their names, and where each click's continuations stand. A
  function that several handlers call (`failOperation`, `resetWorker`, `startPendingGeneration`) is an operator from page to page. The
  worker is the runtime of `AceWorker` reduced to what the page sees of it. `Settled` are promises whose continuation runs before
  the next task (`Idle`).
* **ResourceSession.** `op` is the pending operation at its await, `close` where `close()` stands; `made` is a resource the factory has returned
  and no one has installed.
* **DicoseSession.** Requests are numbered as in `api.ts`; `request` keeps their promises, `initialized` is the memoised `initialize()`. `events` and
  `inbox` are the port, `separator` the worker's. `script` says whether the worker's script has run (`Listen`), or could not be loaded: the two kinds of
  `error` event that `handleWorkerError` receives (`HandleWorkerError`) tell the page the same, but after the second kind nobody takes from the inbox.
* **Transcription.** `call` is a transcription's place in the group loop and its sink, `jobs` the pool's requests with their promises, `waiting` its map of
  pending ones. Workers answer in their own order; `WorkerError` is `failAll`.
* **BufferPool, StreamingEou.** A pool is a record (free list, open arenas). `calls` is the promise chain: a call's turn comes when its
  predecessors are over. `enc` are the encoder streams with what they own of the pool, `ids` the passes decoded into each. A tensor that a
  stream has freed keeps its number, so a use after free shows as a second owner.

## 3. What the runs check

| run | instance | states | shows |
|---|---|---|---|
| `runtime` | runtime: three initialize/dispose requests, two jobs, cancels at will, two messages in the inbox; scheduler: two depth-2 graphs (five buffers in one phase; one and two in two phases), two failing fences, a device that may not let itself be destroyed | 173,060 | the runtime survives every page that keeps to the message types; the storage lease outlives the device's work whatever fails |
| `session` | `AceSession`: two generations, one disposal, one worker error, cancels and terminations at will | 246,677 | client over runtime: leases, protocol, promises; cancel and dispose end; implements `MusicService` |
| `gpu_mixed` | a depth-2 graph of two phases and two cooperative ones, two failing fences, a device that can be destroyed | 614,912 | order, no lost wakeup, every acquire and dispose settles, whatever becomes of the fences |
| `music_page` | model cache: two callers in one worker, sync access handles, two attempts; page: three clicks on Generate for two model variants, Cancel and Delete model at will, two faults | 130,418 | hits are authentic and immutable, a reservation has one owner, every acquisition ends; the page comes out of busy, what was cancelled is not posted |
| `cache_tabs` | model cache: two tabs, `createWritable`, one attempt, a disk that may rot | 1,536,197 | what is acquired is authentic all the same |
| `music_demo` | cache lifecycle: three calls in two tabs of an older and a newer release; generation: two of them, a planner asked twice, two VAE windows, one GPU failure; plans: every graph of up to three phases of up to nine buffers; splitter: two separations, one dispose, three faults, of which one may be that the script does not load | 50,990 | a leased cache is of its holder's release and loses no file; weights do not overlap nor go under work, a generation does to its output what `AceBackend` says; epochs tile the phases; acquisitions, aborted generations and calls end |
| `playground` | session: three resources; transcription: two of four windows in three groups, one of them silent, two workers, two failures, dispose; streaming engine: three calls of up to two passes, one failing readback, reset; songs: two outputs, two tabs, one record | 2,906,960 | close leaves nothing alive and nothing is disposed in use; transcripts are complete and in order; no buffer has two owners and the text is the audio; songs on show stay, records outlive their songs |
| `gpu_rejected_fence` | a cooperative graph, one failing fence | | finding 1 |
| `cache_tabs_immutable` | model cache, two tabs | | finding 2 |
| `songs_unrecorded` | one output | | finding 3 |
| `transcribe_hung` | one recording of one group, dispose | | finding 4 |
| `stems_unloaded` | splitter: one separation, one fault, dispose | | finding 5 |

`runtime`, `music_page`, `music_demo` and `playground` put parts side by side that share nothing their models tell apart. A behaviour exercises one of them, chosen
in the initial state (`part`), and leaves the others as they began; so the run has the sum of their states, not the product, and each part behaves
exactly as its own module says. A part that stays as it began has none of its fair actions enabled (the splitter's script has run by then, where the splitter is not the part that is exercised), so the fairness of the parts does not interfere.

**Why the bounds are enough.** The runtime keeps one operation of each kind, so a second request meets every
state of the first and a third one every state of a second that was refused or had to wait; two jobs are what it
takes to confuse one with another. The client keeps one promise, so two generations show every way one is
superseded; one error can hit either, or arrive from a worker that is gone. The depth-2 window looks at two fences and one epoch
boundary: five buffers in one phase are a full epoch and its rest, one and two buffers a boundary between phases. Two failing fences
are those of the window, and the recovery fence makes a third, reached when the first two are. A third graph
is needed only for order and wakeups, which `gpu_mixed` has. A payload of two units is a
prefix and a suffix that different writers may have written, and two attempts are a download and a retry over what it
left. The planner's boundaries are at multiples of four; nine is two epochs and a rest.
In a generation's stages two is one that goes on and one that does not, for the planner's invocations and the VAE's windows; a second generation finds
what the first owes, and the device, once failed, stays so.
Of three calls of the cache's life one holds a lease, one migrates and one deletes or waits in line, and two releases are what it takes to
disagree about the marker; the marker is written by the throwaway worker, whose behaviours include those of `createWritable`. Of two songs one may be on show while the other is reclaimed, and one
record is the bound that the second song hits. Two transcriptions share two workers so that each worker has jobs of both. Three calls of the streaming engine are a push
of several passes, a batch that takes the decoder away, and a push or a finish after it; resets come between any two. Three clicks are an operation, one that
disposes of its worker for another variant and one that arrives in between.

A run does not repeat a type invariant where a proof module proves it (`OpenTyping`, `SessionTyping`, `SchedulerTyping`,
`CacheTyping`, `LifecycleInvariant`, `SessionInvariant`); the types of the other modules are stated in their `TypeOK`.

**Deadlock** is not checked: with bounded requests, finished graphs or callers the systems may stop.

**Fairness.**

* The page and worker event loops run: messages are handled. A backend call settles once its signal is aborted
  (every stage checks it), and cleanups, releases and disposals settle; a backend call that nobody aborted
  may take for ever, as a generation may.
* Of the page, only what it awaits itself: its messages, its 30 s timer, the turns of `dispose`, an acquisition
  once its signal is aborted (a lock request rejects on abort). An acquisition that was not aborted may wait
  for another tab for ever. Nothing is asked of a backend call that is
  not aborted or of the backend's `dispose`, so `StopsEnd` covers a worker that hangs there; `HungWorkerSpec`, which asks nothing of the worker at all, is what the
  theorems assume.
* The GPU finishes what it is given and settles fences (`WF(Device)`); the code after a settled await runs
  (`WF(Submission)`).
* Generation stages: uploads, submitted work, destructions and OPFS return (`WF(Progress)`); the network need not, but the fetch of the VAE's package returns
  once the generation's signal is aborted.
* Model cache: each await settles, with a value or an error.
* Cache lifecycle: what a call awaits of the browser settles (`WF` of `Progress`, per call: a granted request, a read, a write), but
  no call is obliged to abort, to delete or to give its lease back. `AcquisitionEnds` therefore excepts a call that waits while another has a lease. It speaks of the tabs of one
  release once the others are no longer acquiring, in whatever state they left the cache: two releases can migrate against each other for ever.
* Transcription: submitted groups land, workers answer, the page takes its turns. DiCoSe: the
  worker's script runs or its failure is reported, and a worker that runs ends what it handles; one whose script has failed is obliged to nothing, and neither is the page to
  dispose of it. `CallsSettle` therefore speaks of what is waiting when the script fails or while it has not; what is asked of the client after the failure may wait for
  ever, which is finding 5. Music page: awaited calls
  settle, messages arrive, the worker works (`Continue`, `Hear`, `Receive`, `Run`); no click, failure or error is promised.

**Refinements.** `ImplementsMusicService`: `AceSession` under the mapping of
`Service` satisfies `MusicService!ServiceSpec` (calls one at a time, each settles once, an AbortError only
if the page asked, the lock is held while a worker lives). `ImplementsBackend`: what `GenerationStages` does to
outputs, under the mapping of `Backend`, are steps of `AceBackend` that `AceWorker` allows a generation.

## 4. What is proved

All proofs are by an inductive invariant. A theorem that names a property of a run proves it for every value of the constants.

**Runtime** (`AceWorkerProofs`, `AceWorkerOpenProofs`; no assumption but that ids are naturals). `RuntimeInv` has two parts:
`PhasesMatchState`, which awaits are possible in which state, and `BackendMatchesRuntime`, that the backend is busy with
exactly the call the runtime awaits, holds no device while nothing is ready, and owes no cleanup in `new`. The
properties alone are not inductive: that no call is refused depends on the busy flag, which depends on what
is awaited. From it: `OpenTyping`, `RuntimeInvariant`, `BackendCallsAccepted`, `InitializationIsTransaction`, `DisposedIsQuiet`,
`DisposalStaysFinal`. `OutputInv` adds that jobs which have not started yet have fresh ids and no file; from it `OutputsAreOwned`,
`PublishedOutputsSurvive`. `ClosedInv` says when a job is closed (its `result` or `cancelled` has been posted, received or not): it is older than every
queued `generate`, and if it is still the worker's generation, then as a cancelled one whose result is being released; `PostStep`
and `GenerationStep` are what a step may post and do to the generation, proved handler by handler. From it `LastWordIsLast`.

**Session** (`AceSessionProofs`, for `HungWorkerSpec`, so for any worker, hung or not). `SessionInv` joins the types, `RuntimeInv` and
`ClientInv`: which of acquisition, request and job the active operation has, who owns each lease, what a pending disposal
implies. From it `SessionTyping`, `LeaseIsHeld` and `LeaseIsNotLeaked` (together `LeaseGoesWithWorker`), `CancelAlwaysHasTarget`, `DisposeDropsWorker`. `RuntimeInv` is
reused as it is: it does not depend on who sends the messages.

What passes through the ports needs invariants over their contents. `PortsInv` says what may be queued given what both ends know: an initialize
only first and for a new worker, a dispose only last and while the client disposes, a ready only once the worker left `initializing`. From it
`ClientNeverOutruns`. `ResultsInv` says that a queued result is published and that the active job is its operation's: `ResolvesWithOwnJob`.
`StopsInv` follows a request to stop to the worker, into the operation it aborts and back: whatever names the active request or job on that
way was asked for by the page, and since job ids are never reused (`< nextJobId`) an answer that comes late names nobody. With it every step maps to
a step of `MusicService` or a stutter: `SessionImplementsService`. `WorkerEffect` and `ClientEffect` sum up what each side does to the ports, so
that each invariant is proved once per effect and not once per action.

**Scheduler** (`GpuSchedulerProofs`). `OwnerServesInOrder` and `OwnerLosesNoWakeup` need no assumption. The others
(`SchedulerTyping`, `LeaseOutlivesWork`, `DepthIsTwo`, `IdleAfterTrueDrain` and `DisposedOwnerIsIdle`, together `ReportsAreTruthful`, and `SuccessIsComplete`) hold for any
graphs and any plan under `FencesSuffice`: no cooperative graph, or no failing fence. Finding 1 shows that the
assumption is needed. The invariant is `Inv` (types, the owner's `OwnerInv`, `RunInPlan`: the loop is inside its plan) and `DrainInv`,
which says how many of the device's buffers each pending fence covers and that nothing else is there;
a fence's answer then tells how much of the queue is left, which is what every property is about.

**Plans** (`GpuSchedulerProofs`, for any number of phases of any length but zero). `EpochsTile` states `EpochsTilePhases`. `Tiled` says of the plan after each number of
phases that its epochs follow one another (`Follow`), lie in their phases and are cut short only there (`FitsPhase`), and that the next phase begins where they end; `Planned` keeps it. `PhasesStartInTurn`
relates the planner's running number to the count of the buffers before a phase, which is how the property says where a phase begins. `PlannedIsPlan` closes
the gap between the two modules: what the planner plans is what `SchedulerConstants` assumes of `EpochsOf`, so the theorems about the scheduler hold for the planner's
output. Induction over the phases, and likewise over the groups of a recording, goes by the least counterexample (`LeastNumber`, from
the library's `WFMin`), and that a recursive function exists at all is proved the same way.

**Model cache** (`ModelCacheProofs`, for any callers, workers, payload length and number of attempts, with either kind of
writable). `CacheInv` joins the types to what a caller holds at each await (`RecordOK`): a file before it is
authenticated, a hash before it is compared, the right file once it is acquired. From it `CacheTyping` and `AcquisitionIsAuthentic`,
with no assumption on the disk or on other tabs. `OwnsInv` adds that a reservation and its owner come and go together, also
through throws and terminations: `ReservationsAreOwned`. The last two, `HitsAreAuthentic` and `HitsAreImmutable`, are proved under
`OneWorkerKeptBytes`: all callers in one worker, and a disk that keeps its bytes. Finding 2 shows that the first half is
needed, `Corrupt` that the second is. `HitInv` says what the owner of the reservation knows (`OwnerKnows`): no marker while its
writable is open, the writable starting with exactly what was hashed, the payload correct from the close to the marker.
Whoever takes a step on the disk is the one owner, so the others have nothing to lose.

**Cache lifecycle** (`CacheLifecycleProofs`, for any calls, pages and releases and either way of writing the marker). That a leased cache is
current is not inductive. `LifecycleInv` joins the types to `Exclusion` (who is at an exclusive place is alone among the holders),
`Knowledge` (a lease stands over a marker of its own generation, the directory is empty when the marker is written) and
`MarkerVouchesForFiles` (a marker that names a generation stands over files of that generation only). The last is what survives a
crash: a migration deletes the files before it touches the marker, so what a crash leaves is the old marker over no files of another release, or a marker that names nothing. From it `LeaseIsCurrent` and the action property `LeaseProtectsFiles`. `MoveKeeps` is the lemma
for the many steps that only move one call.

**Songs** (`PlaygroundProofs`, for any tabs and outputs). `SongInv` is inductive; the two properties alone are not, since neither says what a
reclaimer or a recovery is about to delete. `ReclaimInv`: what has a record, and so what a reclaimer tries or holds, has been recorded, and what a reclaimer
holds nobody owns. `RecoverInv`: nothing a worker still writes is old, for a recovery that read the clock earlier either, so what recovery has looked
at before its commit is young when it judges it. `BooksInv`: what is about to leave the registry is gone from the disk. From it `SongsAreKept`, if no worker
sleeps for longer than the margin (`~MaySuspend`: without it `RecoverInv` fails), and `RecordsOutliveSongs`, which needs no such assumption.

**Resource session** (`PlaygroundProofs`, for any resources). `SessionInv` says what each operation holds at each of its awaits
(`Ownership`) and what `close()` may rely on once the pending operation is over (`Closing`): `CloseEmptiesSession` (`ClosedIsEmpty`) and
`DisposedOutOfUse` (the action property `NotDisposedInUse`).

**Transcription** (`PlaygroundProofs`, for any calls, groups, workers and failures, dispose included; no assumption on the order of the answers). That what has been
stitched is in order is not inductive: a call resumes at an await with promises it took from the pool earlier. `TranscriptInv` follows every window of a call from
the queue to the transcript. `OwnJobs` says that the requests of a call, stitched or not, are its own; `InPlace` that the call is at the first window of its group
and that the windows it has stitched, followed by those it still has queued (`Heard`), enumerate in order exactly what is spoken before that (`Enumerates`); and a promise resolves with
the result of its own request. An answer only settles a promise, so the order of answers has no say. `OtherCallsStay` is the
lemma that calls share the pool and nothing else. The windows of a group are an interval by the function `Before`, computed from the groups' sizes:
`BeforeIsSum` shows that it exists and adds up. From it `TranscriptsAreInOrder` (`TranscriptIsInOrder`).

**Streaming engine** (`PlaygroundProofs`, for any number of calls, passes and buffers). First the pool, function by function: `createBuffer` returns nobody's
buffer (`NewIsUnused`), an arena tracks what is allocated
under it (`AllocIsTracked`), a pass keeps its new tensors and pools the rest once (`PassTakes`), `trimPool` only takes (`TrimTakes`), and disposing of a stream pools its tensors (`DisposePools`).
Then two invariants.

* `StreamingInv`: the promise chain has one call under way, those before it are over and those after it wait (`InTurn`); that call and the stream agree on
  what is encoded, flushed and decoded, and the decoder has followed the stream from its start (`Hears`), or the stream is not the live one any more. `Acting` is the lemma that
  gives every action the quiet of all the other calls. From it `LiveTextIsWhatWasSaid` (`StreamHearsItsAudio`), for resets at any time: after
  one there is no live stream until the call under way is over.
* `OwnInv`: the free list holds a buffer once; the tensors of the live stream, of a batch call's own stream and the download of a call are not in it and not one another (`Owns`); and
  a call from under which the stream was reset runs no further pass (`Winding`), because that pass would read tensors the reset has freed. From it `TensorsHaveOneOwner`
  (`BuffersHaveOneOwner`) under `Patient`: pages do not reset under a push with a further pass to run. Section 5 says what happens without, so the assumption is
  needed; the pages of the repository keep to it, since they await their pushes.

**Composition** (`PartsRunAsThemselves`). A behaviour of `PlaygroundSpec` satisfies the specification of each of its four parts, so what is proved of a part
holds of what the run `playground` checks.

**Generation stages** (`GenerationStagesProofs`, for any number of generations, planner invocations and VAE windows; the one assumption is that
the number of generations is a natural). Neither property is inductive. `WeightsInv` says for each await whether an executor exists, who holds a
lease, and which weights are on the GPU: exactly those the next pass reads (`Reads`) while an executor lives or holds its lease, none once it is
destroyed. `ReadsAre` computes `Reads` for every stage and pass; there is one lemma per action, and `PassKeeps` is what the passes of all stages
share. From it `WeightsHaveOneLifetime`. `OutputsInv` says at which awaits a transaction can be open or committed and what OPFS and the books then hold;
`StagesStepInside` shows that the executors do not touch it. From it `GenerationImplementsBackend`: every step is a
`GenerateNext` of `AceBackend`, with the number of the generation as the witness, or leaves the mapped state alone.

**Only model-checked.** Liveness, which TLAPS cannot prove here: `StoppedThingsEnd`, `StopsEnd`, `OwnerSettles`,
`AcquisitionSettles`, `AcquisitionEnds`, `AbortedGenerationEnds`, `CallsSettle`, `ClickIsAnswered`. Every invariant and every action property of a passing run
is stated by a theorem; what the stem splitter and the music page promise is liveness only, so those two modules have no proofs.

## 5. Findings

1. **A rejected fence releases the lease of a cooperative graph at once** (`scheduler.ts:275`, run
   `gpu_rejected_fence`). `dit-graph.ts` 1641 says that the lease is released only after drain, and the depth-2
   path goes to great lengths for it; the cooperative one does not.
2. **A verified identity can lose its marker to another tab** (`cache.ts:112`, run `cache_tabs_immutable`). `begin()` removes the
   marker on the word of a check that is three awaits old; across tabs nothing is reserved. The comment at line 94
   calls verified identities immutable. Within one worker it holds (`music_page`), and no wrong bytes are
   ever handed on (`cache_tabs`); the cost is a second download.
3. **A song that can neither be claimed nor deleted is forgotten** (`music.ts:742`, run `songs_unrecorded`). The comment at line 745 counts on a pending record, but the
   record is written only after the claim; recovery keeps committed outputs, so nothing ever deletes it.
4. **Disposing of the Parakeet engine hangs its transcriptions** (`decode-pool.js:41`, run `transcribe_hung`). `terminate()` does not reject the pending
   decodes, although the header says that a hung `transcribe()` is never the failure mode.
5. **Disposing of a stem splitter whose worker did not load hangs** (`packages/dicose/src/api.ts:139`, run `stems_unloaded`). The `error` event rejects what is pending and leaves
   the worker; `dispose()` then posts a request that nobody takes and awaits the answer without a timeout, so it does not come to `terminate()`, although line 134 says that it
   terminates the thread. `stem-dicose/index.ts:76` awaits it when `initialize()` has failed, so `load()` hangs where it should report that the worker did not load.
   The comment at lines 16 to 21 expects such failures. What is pending when the error arrives does settle (`CallsSettle`); ACE's disposal of the same kind has a timeout
   (`worker-disposal.ts`).

The models show four more behaviours with other constants than those of the runs; nothing in the sources says otherwise, or the pages avoid them, so no run states them.

* A deletion can blame another tab for a release of its own page (`model-cache-migration.ts:118`): only the release of a returned
  lease is tracked; an acquisition that goes on to migrate, or that fails, gives its lease back untracked. A visitor who
  cancels the preparation and deletes the model at once can be told that it is in use in another tab, which line 126 sets out to avoid.
* An error of a job that is over can fail the next one (`musicgen-acestep/index.ts:309`): results and cancellations are matched by job, errors are not. When a result cannot be
  posted the job fails, and if the release of its output fails too, a second error follows (`worker.ts:519`), which by then finds the next promise. A job may fail at
  any time for `MusicService`, so no property is broken; `ResolvedWithOwnJob` says that a result never goes astray in this way.
* `reset()` under a push frees buffers twice (`eou-parakeet/index.ts:348`; `StreamingEou` with `Patient` FALSE breaks `BuffersHaveOneOwner`). A push with another
  pass to run goes on with tensors that are in the pool. The pages await their pushes before they reset, and a push of theirs needs at most one pass.
* An error of an idle worker lets a second click in (`music.ts:901`; `MusicPage` with `Overlap` TRUE breaks `ClickIsAnswered`). While a click waits for the previous
  song's release, the error frees the page, the next click is accepted and the two overwrite each other's request: the first
  click's job can be posted while Delete model waits for the disposal, and the page stays busy with a job no worker has.

## 6. What is left out, and why

* Messages the protocol's validators refuse, progress payloads, statistics, texts of errors. "Fatal" is one
  bit of an error.
* What the pipeline computes. In `AceBackend` a generation is one step that succeeds, fails or is aborted, around its transaction; `GenerationStages` has the stages. There,
  working buffers, command buffers, plans, profiles and the diagnostic modes are left out; an abort during the DiT's last copy destroys the copy's own buffers under it, which
  WebGPU allows and which are not weights. The planner is off in the product worker, and modelled because the pipeline has it (`planned`).
  The scheduler drains before it rejects, as `GpuScheduler` shows for the depth-2 path; with finding 1 a pass could also fail undrained. `device.destroy()` in the backend is taken to succeed (in the scheduler it may throw).
* A lease, once granted, is released at once; other tabs appear as an acquisition that waits or fails.
* `grantNext` skips an aborted request; since the abort listener has removed it by then that branch is unreachable and left out.
* The cache model has one identity, so `discard()`, inspection of whole sets, the quota plan and the sums over files are
  left out; they only count. A payload longer than the manifest cannot arise from the code, so the
  truncation branch is not modelled. An abort of the acquisition is one of the ways an await fails. That a file open
  for writing cannot be removed is the browser's rule (`Locked`). A write is complete or throws; the count that a sync access handle's `write` returns, and
  `cache.ts:218` ignores, is taken to be the whole.
* Cache lifecycle: a late continuation can let a tab wait for the exclusive lock although the cache has become current meanwhile; the model has this and
  `AcquisitionEnds` excepts it. The throwaway worker's termination is taken as immediate.
* Songs: writes to localStorage succeed. `MaySuspend` TRUE is the risk that `audio-output.ts:398` documents, a live worker that sleeps for longer than
  recovery's margin; the run keeps it FALSE. A tab that goes between commit and claim leaves a song nothing reclaims.
* Music page: its worker answers in order and its results carry no data; with `Overlap` FALSE an error event of the worker does not fall into the release or the publication
  of a song (section 5 has what happens when it does). Closing the page is in `SongStorage` only.
* Parakeet: overlapping windows are windows (the stitcher's merge of tokens is data); the pool always has its workers; what a call that outlives `dispose()` returns is not
  modelled (its tokenizer is gone, so the code throws where the model's call is over). Streaming engine: one buffer size class,
  one layer, `dispose()`; the batch call's decoder in its worker is a second decoder.
* DiCoSe: the worker's `disposed` flag guards it against requests this client does not make.

## 7. State of the plan, and what is not modelled

Done, in this order: the worker runtime and its backend; the client and the session; the abstract service; their
proofs; graph owner, planner and scheduler and their proofs, the planner's last; the model cache and its proofs; the life of the cache across releases
and its proofs; songs on disk and their registry and their proofs; the resource session and its proofs; the decoder pool and its proofs; the buffer pool and the
streaming engine and their proofs; the stem splitter; the music page; the stages of a generation, their executors and their proofs.

Worth doing next: safety of the music page and the stem splitter, stated and proved; the page over `AceSession`'s full runtime in place of the reduced one.

**Not modelled.**

* The numeric code: the transformer graphs, VAE, planner model and their kernels (`packages/acestep/src/webgpu`, the largest
  part of the repository by far), the splitter's spectrogram and operators, the speech engines' kernels, tokenizers, samplers. What
  could be wrong there is a number, and it is judged by parity with reference outputs; there is no order of steps for a finite-state model to get
  wrong beyond submission, leases, buffers and the lifetimes of weights, which `GpuScheduler`, `BufferPool` and `GenerationStages` have. This is why the modelled lines are a small share of the
  repository's.
* The planner's metadata constraint: strictly alternating question and answer, over the tokenizer's vocabulary, and off in the product worker.
* Generation progress (`stages.ts`), download progress of the speech models, the read-through model cache of the speech engines: no state
  whose order matters.
* Live captions and the microphone: one polling loop; what it asks of the streaming engine is the constant `Patient`.
* The direct-only backend and the product worker: they forward every call to the modelled backend.
