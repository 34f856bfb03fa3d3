---------------------------- MODULE AceWorkerOpen ----------------------------
(***************************************************************************)
(* The worker runtime under every page that keeps to the protocol's types: *)
(* any of the five messages, in any order and at any time, with fresh ids  *)
(* for initialize, dispose and generate.  It includes what the real client *)
(* never does (two initializes, a generate before ready, a cancel of a     *)
(* finished job), because the runtime promises to survive it.  The worker  *)
(* never reads toClient, so the page takes each message as it is posted.   *)
(***************************************************************************)
EXTENDS AceWorker

CONSTANTS MaxRequests,  \* bound: initialize and dispose requests sent
          MaxJobs,      \* bound: generate requests sent
          MaxInbox      \* bound: messages queued for the worker

ASSUME OpenConstants == MaxRequests \in Nat /\ MaxJobs \in Nat /\ MaxInbox \in Nat

VARIABLES requests,  \* request ids used so far: 1..requests
          jobs,      \* job ids used so far: 1..jobs
          settled    \* jobs whose result or cancelled the page has received

pageVars == <<requests, jobs, settled>>
openVars == <<channelVars, workerVars, pageVars>>

OpenTypeOK ==
  /\ ChannelTypeOK
  /\ WorkerTypeOK
  /\ requests \in Nat
  /\ jobs \in Nat
  /\ settled \in SUBSET Nat

OpenInit ==
  /\ ChannelInit
  /\ WorkerInit
  /\ requests = 0
  /\ jobs = 0
  /\ settled = {}

PageSendsRequest(type) ==
  /\ requests < MaxRequests
  /\ requests' = requests + 1
  /\ toWorker' = Append(toWorker, RequestMessage(type, requests + 1))
  /\ UNCHANGED jobs

PageSendsGenerate ==
  /\ jobs < MaxJobs
  /\ jobs' = jobs + 1
  /\ toWorker' = Append(toWorker, JobMessage("generate", jobs + 1))
  /\ UNCHANGED requests

PageSendsCancel ==
  /\ \/ \E r \in 1..requests :
          toWorker' = Append(toWorker, RequestMessage("cancel-initialization", r))
     \/ \E j \in 1..jobs :
          toWorker' = Append(toWorker, JobMessage("cancel", j))
  /\ UNCHANGED <<requests, jobs>>

PageSends ==
  /\ Len(toWorker) < MaxInbox
  /\ PageSendsRequest("initialize") \/ PageSendsRequest("dispose")
     \/ PageSendsGenerate \/ PageSendsCancel
  /\ UNCHANGED <<toClient, settled, workerVars>>

PageReceives ==
  /\ toClient # <<>>
  /\ toClient' = Tail(toClient)
  /\ settled' = IF Head(toClient).type \in {"result", "cancelled"}
                THEN settled \cup {Head(toClient).jobId} ELSE settled
  /\ UNCHANGED <<toWorker, requests, jobs, workerVars>>

OpenNext ==
  \/ PageReceives
  \/ toClient = <<>> /\ PageSends
  \/ toClient = <<>> /\ WorkerNext /\ UNCHANGED pageVars

(* The worker's event loop handles what it is sent.  A backend call settles *)
(* once its signal is aborted (every stage calls throwIfAborted); one that  *)
(* is not aborted may take for ever (a download, a GPU fence).  Cleanup,    *)
(* releaseResult and dispose take no signal and are trusted to settle.      *)
AbortedCallReturns ==
  \/ initialization.aborted /\ BackendInitializeReturns
  \/ generation.aborted /\ BackendGenerateReturns

CleanupReturns ==
  BackendCleanupReturns \/ BackendReleaseReturns \/ DisposeBackend \/ BackendDisposeReturns

OpenFairness ==
  /\ WF_openVars(PageReceives)
  /\ WF_openVars(toClient = <<>> /\ HandleMessage /\ UNCHANGED pageVars)
  /\ WF_openVars(toClient = <<>> /\ AbortedCallReturns /\ UNCHANGED pageVars)
  /\ WF_openVars(toClient = <<>> /\ CleanupReturns /\ UNCHANGED pageVars)

OpenSpec == OpenInit /\ [][OpenNext]_openVars /\ OpenFairness
-----------------------------------------------------------------------------
(* The backend has one busy flag and answers a call made while it is set    *)
(* with InvalidStateError.  The runtime, which handles messages while a     *)
(* call is outstanding, never makes such a call: dispose waits for the      *)
(* active operations, and an initialization cleans up before "new".         *)
BackendAcceptsEveryCall ==
  initialization.accepted /\ generation.accepted /\ disposing.accepted

(* "Initialization is a transaction" (worker.ts 279): it leaves a runtime   *)
(* that is ready over a loaded backend, or one that would accept another    *)
(* initialize and where nothing of the earlier one is left: no device, no   *)
(* operation in flight, no cleanup owed.                                    *)
InitializationIsAtomic ==
  /\ state \in {"ready", "generating"} => deviceReady
  /\ state = "new" => /\ operation = "idle" /\ ~deviceReady
                      /\ pendingRollback = {} /\ pendingRelease = {}
                      /\ initialization.phase = "none"

(* disposed is claimed only once no operation is running and the device is  *)
(* gone, also when the state was reached by a failed cleanup.               *)
DisposedMeansQuiet ==
  state = "disposed" =>
    /\ initialization.phase = "none" /\ generation.phase = "none"
    /\ operation = "idle" /\ ~deviceReady

(* No output is lost sight of: a file in OPFS was published, or the running *)
(* generation owns it, or the backend still owes its rollback or release.   *)
UnpublishedOutputIsOwned ==
  \A j \in stored \ published :
    \/ generation.phase # "none" /\ generation.id = j
    \/ j \in pendingRollback \cup pendingRelease

(* A published result names an output that exists, and no cleanup the       *)
(* worker will still run can delete it under the page.                      *)
PublishedOutputSurvives ==
  /\ published \subseteq stored
  /\ published \cap (pendingRollback \cup pendingRelease) = {}

(* result and cancelled are the last word on a job: nothing the worker      *)
(* posts after them (a retained progress callback, a failed release) names  *)
(* that job.                                                                *)
LastWord ==
  \A i \in 1..Len(toClient) : toClient[i].jobId \notin settled

(* Once disposed, always disposed; and disposing is left only for disposed. *)
DisposalIsFinal ==
  [][/\ state = "disposed" => state' = "disposed"
     /\ state = "disposing" => state' \in {"disposing", "disposed"}]_openVars

(* Every dispose the worker took on comes to an end, whatever initialize or *)
(* generate was running when it arrived.                                    *)
DisposeCompletes == (state = "disposing") ~> (state = "disposed")

(* A cancelled generation comes to an end, its release included.            *)
CancelCompletes ==
  /\ generation.aborted ~> (generation.phase = "none")
  /\ initialization.aborted ~> (initialization.phase = "none")

(* Both: nothing that was told to stop goes on for ever.                    *)
StoppedThingsEnd == DisposeCompletes /\ CancelCompletes
=============================================================================
