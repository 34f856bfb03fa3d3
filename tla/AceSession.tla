----------------------------- MODULE AceSession -----------------------------
(***************************************************************************)
(* The page client and the worker runtime joined by their two ports.  A    *)
(* worker created by the client starts from WorkerInit; a terminated one   *)
(* stops for good, wherever it was, and leaves only its OPFS files behind. *)
(***************************************************************************)
EXTENDS AceClient, AceWorker

sessionVars == <<channelVars, clientVars, workerVars>>

SessionTypeOK == ChannelTypeOK /\ ClientTypeOK /\ WorkerTypeOK

SessionInit == ChannelInit /\ ClientInit /\ WorkerInit

\* The worker's memory is gone; OPFS keeps stored and published.
WorkerRestarts ==
  /\ state' = "new"
  /\ initialization' = NoOperation /\ generation' = NoOperation
  /\ disposing' = NoDisposal
  /\ operation' = "idle" /\ deviceReady' = FALSE
  /\ committed' = {} /\ pendingRollback' = {} /\ pendingRelease' = {}
  /\ UNCHANGED <<stored, published>>

\* What a client step does to the worker behind it.
WorkerFollows == IF worker' = worker THEN UNCHANGED workerVars ELSE WorkerRestarts

ClientStep(A) == A /\ WorkerFollows

WorkerStep(A) == worker # 0 /\ A /\ UNCHANGED clientVars

SessionNext ==
  \/ ClientStep(Page)
  \/ ClientStep(Continuation)
  \/ ClientStep(OnMessage)
  \/ ClientStep(OnWorkerError)
  \/ WorkerStep(WorkerNext)

(* Page: its tasks run.  It is fair to the code after an await that has     *)
(* ended: the 30 s timer, the turns of disposeInner, and an acquisition     *)
(* whose signal is aborted (a lock request rejects on abort, and every      *)
(* await of acquireAceDemoModelCache is followed by throwIfAborted).  An    *)
(* acquisition that is not aborted may wait for another tab for ever.       *)
PageFairness ==
  /\ WF_sessionVars(ClientStep(OnMessage))
  /\ WF_sessionVars(ClientStep(DisposalTimesOut))
  /\ WF_sessionVars(ClientStep(DisposeFinishes))
  /\ WF_sessionVars(ClientStep(DisposeSettles))
  /\ \A o \in Operations :
       WF_sessionVars(ClientStep(o \in abortedAcquisitions
                                 /\ (AcquisitionReturns(o) \/ AcquisitionFails(o))))

(* Worker: it handles messages; a backend call settles once its signal is   *)
(* aborted; cleanup, releaseResult and dispose, which take none, settle.    *)
WorkerFairness ==
  /\ WF_sessionVars(WorkerStep(HandleMessage))
  /\ WF_sessionVars(WorkerStep(initialization.aborted /\ BackendInitializeReturns))
  /\ WF_sessionVars(WorkerStep(generation.aborted /\ BackendGenerateReturns))
  /\ WF_sessionVars(WorkerStep(BackendCleanupReturns))
  /\ WF_sessionVars(WorkerStep(BackendReleaseReturns))

\* The worker may hang: only the page is fair.
HungWorkerSpec == SessionInit /\ [][SessionNext]_sessionVars /\ PageFairness

SessionSpec == HungWorkerSpec /\ WorkerFairness
-----------------------------------------------------------------------------
(* The lifecycle lock is "held while the worker is alive" (index.ts 72):    *)
(* deletion and migration of the model cache, which need the lock           *)
(* exclusively, never run under a live worker.                              *)
LeaseWhileWorker ==
  worker # 0 => releaseRuntimeLock \in leases

(* No lease is leaked: one that is held is either kept for the worker or    *)
(* still in the hands of an acquisition that will keep or release it.  A    *)
(* leaked lease would block every deletion and migration until reload.      *)
NoLeaseLeak ==
  leases \subseteq acquiring \cup ({releaseRuntimeLock} \ {0})

(* The lease comes and goes with the worker.                                *)
LeaseFollowsWorker == LeaseWhileWorker /\ NoLeaseLeak

(* cancel() has something to act on at every moment of an operation: the    *)
(* acquisition, the initialize request or the job - exactly one of them.    *)
CancelTargets ==
  {t \in {"acquisition", "initialize", "job"} :
     \/ t = "acquisition" /\ cacheAcquisition = active.op
     \/ t = "initialize" /\ active.initReq # NoId /\ worker # 0
     \/ t = "job" /\ active.job # NoId /\ worker # 0}

CancelHasTarget == Busy => \E t \in CancelTargets : CancelTargets = {t}

(* The client over its worker gives the page what MusicService promises.    *)
Service == INSTANCE MusicService WITH
  Calls <- Operations, call <- outcome, asked <- stopped,
  serving <- worker # 0, locked <- leases # {}

ImplementsMusicService == Service!ServiceSpec

(* A promise resolves only with a result of the operation's own job.        *)
ResolvedWithOwnJob ==
  \A o \in Operations : outcome[o] = "resolved" => jobOf[o] \in published

(* The client never makes the runtime refuse: an initialize reaches only a  *)
(* new worker and a dispose only one that is not disposing.  Its view of    *)
(* the worker is never ahead of it: a client that would post a job at once  *)
(* has a worker that is ready, or is finishing the job before (and will     *)
(* refuse with WORKER_BUSY until it has).                                   *)
ClientKeepsProtocol ==
  /\ \A i \in 1..Len(toWorker) :
       /\ toWorker[i].type = "initialize" => state = "new" /\ i = 1
       /\ toWorker[i].type = "dispose" => state \in {"ready", "generating"}
  /\ workerReady /\ disposePromise.phase = "none" => state \in {"ready", "generating"}

(* cancel() ends the operation it was called for (with its result, if that  *)
(* was already on its way), whatever it was waiting for, and dispose() ends *)
(* even if the worker never answers it ...                                  *)
StopsEnd ==
  /\ \A o \in Operations : (o \in stopped) ~> (outcome[o] # "pending")
  /\ (disposePromise.phase = "waiting") ~> (disposePromise.phase = "none")

(* ... and when it does the worker is terminated and its lease released,    *)
(* whichever of the answer, the timer, an error or terminate() came first.  *)
DisposedIsGone ==
  disposePromise.phase = "settling" => worker = 0 /\ leases \subseteq acquiring
=============================================================================
