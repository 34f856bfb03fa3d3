------------------------------ MODULE AceClient ------------------------------
(***************************************************************************)
(* AceStepMusicClient (src/engines/musicgen-acestep/index.ts): the page's  *)
(* promise-per-generation API over one inference worker.  An operation is  *)
(* one call of generate(), numbered from 1; it acquires a shared lease on  *)
(* the model cache, starts a worker, initializes it and runs one job, or   *)
(* runs its job on the worker that is ready already.                       *)
(*                                                                         *)
(* Each action is one task: a call from the page, a message or error event *)
(* of the worker, a timer, or the code after an await.  The worker itself  *)
(* is left open here (AceSession closes it): worker is its incarnation.    *)
(***************************************************************************)
EXTENDS AceChannel

CONSTANTS MaxOperations,    \* bound: calls of generate()
          MaxDisposals,     \* bound: orderly disposals requested
          MaxWorkerErrors,  \* bound: error events
          MaxOutbox         \* bound: cancels are sent while toWorker is shorter

ASSUME ClientConstants ==
  {MaxOperations, MaxDisposals, MaxWorkerErrors, MaxOutbox} \subseteq Nat

VARIABLES
  worker,              \* the Worker, by incarnation; 0: undefined
  workerReady,
  fatalGpuDiagnostic,
  active,              \* this.active
  cacheAcquisition,    \* operation whose AbortController is kept; 0: undefined
  releaseRuntimeLock,  \* operation whose lease it releases; 0: undefined
  pendingDisposal,     \* this.disposal, by its request id; 0: undefined
  disposePromise,      \* the run of disposeInner
  nextRequestId, nextJobId,
  acquiring,           \* operations awaiting acquireAceDemoModelCache
  abortedAcquisitions, \* operations whose acquisition signal is aborted
  leases,              \* operations holding the shared Web Lock
  outcome,             \* what became of the promise of each operation
  stopped,             \* operations the page cancelled, disposed or terminated
  jobOf,               \* the job each operation posted; 0: none
  budget               \* what is left of the bounds, and workers created

clientVars ==
  <<worker, workerReady, fatalGpuDiagnostic, active, cacheAcquisition,
    releaseRuntimeLock, pendingDisposal, disposePromise, nextRequestId, nextJobId,
    acquiring, abortedAcquisitions, leases, outcome, stopped, jobOf, budget>>

\* What the worker's handlers and teardown never touch.
callVars == <<nextRequestId, nextJobId, acquiring, jobOf>>

Operations == 1..MaxOperations
NoActive == [op |-> 0, initReq |-> NoId, job |-> NoId, cancelRequested |-> FALSE]
NoDispose == [phase |-> "none", requestId |-> NoId, worker |-> 0]

ClientTypeOK ==
  /\ worker \in Nat
  /\ workerReady \in BOOLEAN
  /\ fatalGpuDiagnostic \in BOOLEAN
  /\ active \in [op : Operations \cup {0}, initReq : Nat, job : Nat,
                 cancelRequested : BOOLEAN]
  /\ cacheAcquisition \in Operations \cup {0}
  /\ releaseRuntimeLock \in Operations \cup {0}
  /\ pendingDisposal \in Nat
  /\ disposePromise \in [phase : {"none", "waiting", "resolved", "rejected", "settling"},
                         requestId : Nat, worker : Nat]
  /\ nextRequestId \in Nat \ {0}
  /\ nextJobId \in Nat \ {0}
  /\ acquiring \subseteq Operations
  /\ abortedAcquisitions \subseteq Operations
  /\ leases \subseteq Operations
  /\ outcome \in [Operations -> {"none", "pending", "resolved", "aborted", "failed"}]
  /\ stopped \subseteq Operations
  /\ jobOf \in [Operations -> Nat]
  /\ budget \in [disposals : Nat, errors : Nat, workers : Nat]

ClientInit ==
  /\ worker = 0 /\ workerReady = FALSE /\ fatalGpuDiagnostic = FALSE
  /\ active = NoActive
  /\ cacheAcquisition = 0 /\ releaseRuntimeLock = 0
  /\ pendingDisposal = NoId /\ disposePromise = NoDispose
  /\ nextRequestId = 1 /\ nextJobId = 1
  /\ acquiring = {} /\ abortedAcquisitions = {} /\ leases = {}
  /\ outcome = [o \in Operations |-> "none"]
  /\ stopped = {}
  /\ jobOf = [o \in Operations |-> NoId]
  /\ budget = [disposals |-> MaxDisposals, errors |-> MaxWorkerErrors, workers |-> 0]

Busy == active.op # 0

-----------------------------------------------------------------------------
(* Pieces of the handlers.                                                  *)

\* Clear this.active and settle its promise.
SettleActive(result) ==
  /\ active' = NoActive
  /\ outcome' = IF Busy THEN [outcome EXCEPT ![active.op] = result] ELSE outcome

\* The page asked for the end of the active operation.
MarkStopped == stopped' = IF Busy THEN stopped \cup {active.op} ELSE stopped

\* settle() of waitForWorkerDisposal takes effect once.
SettledDispose(result) ==
  [disposePromise EXCEPT !.phase = IF @ = "waiting" THEN result ELSE @]

RejectDisposal ==
  /\ pendingDisposal' = NoId
  /\ disposePromise' = IF pendingDisposal # NoId THEN SettledDispose("rejected")
                                                 ELSE disposePromise

AbortAcquisition ==
  /\ abortedAcquisitions' = abortedAcquisitions \cup ({cacheAcquisition} \ {0})
  /\ cacheAcquisition' = 0

\* Mutant: the lease of the worker is forgotten instead of released.
DropWorkerLeaksLease(others) ==
  /\ worker' = 0
  /\ workerReady' = FALSE
  /\ releaseRuntimeLock' = 0
  /\ leases' = leases \ others
  /\ toWorker' = <<>> /\ toClient' = <<>>

\* Terminate the worker, which drops both ports, and release its lease (and
\* the leases in others, which their own holder releases in the same turn).
DropWorkerAnd(others) ==
  /\ worker' = 0
  /\ workerReady' = FALSE
  /\ releaseRuntimeLock' = 0
  /\ leases' = leases \ ({releaseRuntimeLock} \cup others)
  /\ toWorker' = <<>> /\ toClient' = <<>>

DropWorker == DropWorkerAnd({})

\* fail(reason, true), and resetWorker(reason).
ResetWorker(result) ==
  /\ AbortAcquisition
  /\ RejectDisposal
  /\ SettleActive(result)
  /\ DropWorker
  /\ UNCHANGED fatalGpuDiagnostic

\* fail(reason, false) on a message already taken from the port.
FailKeepingWorker ==
  /\ RejectDisposal
  /\ SettleActive("failed")
  /\ UNCHANGED <<worker, workerReady, fatalGpuDiagnostic, cacheAcquisition,
                 abortedAcquisitions, releaseRuntimeLock, leases>>

PostToWorker(message) == toWorker' = Append(toWorker, message)

\* Mutant: the id of the initialize request is not cleared.
StartGenerationKeepsRequest(o) ==
  /\ active' = [active EXCEPT !.op = o, !.job = nextJobId]
  /\ jobOf' = [jobOf EXCEPT ![o] = nextJobId]
  /\ nextJobId' = nextJobId + 1
  /\ PostToWorker(JobMessage("generate", nextJobId))

\* startGeneration for operation o.
StartGeneration(o) ==
  /\ active' = [op |-> o, initReq |-> NoId, job |-> nextJobId, cancelRequested |-> FALSE]
  /\ jobOf' = [jobOf EXCEPT ![o] = nextJobId]
  /\ nextJobId' = nextJobId + 1
  /\ PostToWorker(JobMessage("generate", nextJobId))
-----------------------------------------------------------------------------
(* Calls from the page.                                                     *)

\* generate(); while one is active or a disposal runs it throws.
Generate(o) ==
  /\ ~Busy /\ disposePromise.phase = "none"
  /\ outcome[o] = "none" /\ \A p \in Operations : p < o => outcome[p] # "none"
  /\ outcome' = [outcome EXCEPT ![o] = "pending"]
  /\ IF workerReady /\ worker # 0
     THEN /\ StartGeneration(o)
          /\ UNCHANGED <<acquiring, cacheAcquisition>>
     ELSE /\ active' = [NoActive EXCEPT !.op = o]
          /\ acquiring' = acquiring \cup {o}
          /\ cacheAcquisition' = o
          /\ UNCHANGED <<jobOf, nextJobId, toWorker>>
  /\ UNCHANGED <<toClient, worker, workerReady, fatalGpuDiagnostic, releaseRuntimeLock,
                 pendingDisposal, disposePromise, nextRequestId, abortedAcquisitions,
                 leases, stopped, budget>>

CancelWorker ==
  /\ worker # 0
  /\ Len(toWorker) < MaxOutbox
  /\ \/ /\ active.initReq # NoId
        /\ active' = [active EXCEPT !.cancelRequested = TRUE]
        /\ PostToWorker(RequestMessage("cancel-initialization", active.initReq))
     \/ /\ active.initReq = NoId /\ active.job # NoId
        /\ PostToWorker(JobMessage("cancel", active.job))
        /\ UNCHANGED active
  /\ UNCHANGED <<toClient, worker, workerReady, fatalGpuDiagnostic, cacheAcquisition,
                 releaseRuntimeLock, pendingDisposal, disposePromise,
                 abortedAcquisitions, leases, outcome>>

Cancel ==
  /\ Busy
  /\ MarkStopped
  /\ IF cacheAcquisition # 0 THEN ResetWorker("aborted") ELSE CancelWorker
  /\ UNCHANGED <<callVars, budget>>

\* terminate()
Terminate ==
  /\ Busy \/ worker # 0
  /\ MarkStopped
  /\ ResetWorker("aborted")
  /\ UNCHANGED <<callVars, budget>>

\* Mutant: a worker that is not ready is asked to dispose too.
OrderlyDisposalOfAnyWorker == worker # 0

\* Only a ready worker is asked to dispose; any other is terminated.
OrderlyDisposal == worker # 0 /\ workerReady

\* dispose() up to the first await of disposeInner.  "settling": nothing is
\* left but for the promise to settle.
Dispose ==
  /\ disposePromise.phase = "none"
  /\ budget.disposals > 0
  /\ budget' = [budget EXCEPT !.disposals = @ - 1]
  /\ MarkStopped
  /\ AbortAcquisition
  /\ SettleActive("aborted")
  /\ IF OrderlyDisposal
     THEN /\ pendingDisposal' = nextRequestId
          /\ nextRequestId' = nextRequestId + 1
          /\ \E phase \in {"waiting", "rejected"} :  \* "rejected": postMessage threw
               /\ disposePromise' = [phase |-> phase, requestId |-> nextRequestId,
                                     worker |-> worker]
               /\ IF phase = "waiting"
                  THEN PostToWorker(RequestMessage("dispose", nextRequestId))
                  ELSE UNCHANGED toWorker
          /\ UNCHANGED <<toClient, worker, workerReady, releaseRuntimeLock, leases>>
     ELSE /\ disposePromise' = [NoDispose EXCEPT !.phase = "settling"]
          /\ IF worker # 0 THEN DropWorker
             ELSE UNCHANGED <<channelVars, worker, workerReady, releaseRuntimeLock, leases>>
          /\ UNCHANGED <<pendingDisposal, nextRequestId>>
  /\ UNCHANGED <<fatalGpuDiagnostic, nextJobId, acquiring, jobOf>>

-----------------------------------------------------------------------------
(* disposeInner after its await.                                            *)

\* Mutant: the timer clears the pending entry and does not reject its promise.
DisposalTimesOutSilently ==
  /\ disposePromise.phase = "waiting"
  /\ pendingDisposal # NoId
  /\ pendingDisposal' = NoId
  /\ UNCHANGED <<channelVars, worker, workerReady, fatalGpuDiagnostic, active,
                 cacheAcquisition, releaseRuntimeLock, disposePromise,
                 abortedAcquisitions, leases, outcome, stopped, callVars, budget>>

\* The 30 s timer of waitForWorkerDisposal.
DisposalTimesOut ==
  /\ disposePromise.phase = "waiting"
  /\ disposePromise' = SettledDispose("rejected")
  /\ UNCHANGED <<channelVars, worker, workerReady, fatalGpuDiagnostic, active,
                 cacheAcquisition, releaseRuntimeLock, pendingDisposal,
                 abortedAcquisitions, leases, outcome, stopped, callVars, budget>>

\* Mutant: the worker is dropped only after an orderly answer.
TerminatesIfAnswered == worker = disposePromise.worker /\ disposePromise.phase = "resolved"

\* The finally block drops the worker it disposed, not a later one.
TerminatesItsWorker == worker = disposePromise.worker

DisposeFinishes ==
  /\ disposePromise.phase \in {"resolved", "rejected"}
  /\ disposePromise' = [disposePromise EXCEPT !.phase = "settling"]
  /\ pendingDisposal' = IF pendingDisposal = disposePromise.requestId
                        THEN NoId ELSE pendingDisposal
  /\ IF TerminatesItsWorker THEN DropWorker
     ELSE UNCHANGED <<channelVars, worker, workerReady, releaseRuntimeLock, leases>>
  /\ UNCHANGED <<fatalGpuDiagnostic, active, cacheAcquisition, abortedAcquisitions,
                 outcome, stopped, callVars, budget>>

DisposeSettles ==
  /\ disposePromise.phase = "settling"
  /\ disposePromise' = NoDispose
  /\ UNCHANGED <<channelVars, worker, workerReady, fatalGpuDiagnostic, active,
                 cacheAcquisition, releaseRuntimeLock, pendingDisposal,
                 abortedAcquisitions, leases, outcome, stopped, callVars, budget>>

-----------------------------------------------------------------------------
(* startInitialization of operation o: acquireAceDemoModelCache (external   *)
(* here) takes the shared lock at some point, if it takes it at all.        *)

LeaseGranted(o) ==
  /\ o \in acquiring \ leases
  /\ leases' = leases \cup {o}
  /\ UNCHANGED <<channelVars, worker, workerReady, fatalGpuDiagnostic, active,
                 cacheAcquisition, releaseRuntimeLock, pendingDisposal, disposePromise,
                 abortedAcquisitions, outcome, stopped, callVars, budget>>

Superseded(o) == active.op # o \/ o \in abortedAcquisitions

\* startInitializationInner: a new worker, whose ports are empty.
StartWorker(o) ==
  /\ cacheAcquisition' = 0
  /\ releaseRuntimeLock' = o
  /\ worker' = budget.workers + 1
  /\ budget' = [budget EXCEPT !.workers = @ + 1]
  /\ workerReady' = FALSE
  /\ fatalGpuDiagnostic' = FALSE
  /\ active' = [active EXCEPT !.initReq = nextRequestId]
  /\ nextRequestId' = nextRequestId + 1
  /\ toWorker' = <<RequestMessage("initialize", nextRequestId)>>
  /\ toClient' = <<>>
  /\ UNCHANGED <<pendingDisposal, disposePromise, abortedAcquisitions, leases, outcome>>

AcquisitionReturns(o) ==
  /\ o \in acquiring \cap leases
  /\ acquiring' = acquiring \ {o}
  /\ IF Superseded(o)
     THEN /\ leases' = leases \ {o}
          /\ UNCHANGED <<channelVars, worker, workerReady, fatalGpuDiagnostic, active,
                         cacheAcquisition, releaseRuntimeLock, pendingDisposal,
                         disposePromise, nextRequestId, abortedAcquisitions, outcome,
                         budget>>
     ELSE StartWorker(o)
  /\ UNCHANGED <<nextJobId, jobOf, stopped>>

\* It rejects, having released the lock if it held it.
AcquisitionFails(o) ==
  /\ o \in acquiring
  /\ acquiring' = acquiring \ {o}
  /\ IF Superseded(o)
     THEN /\ leases' = leases \ {o}
          /\ UNCHANGED <<channelVars, worker, workerReady, active, cacheAcquisition,
                         releaseRuntimeLock, pendingDisposal, disposePromise,
                         abortedAcquisitions, outcome>>
     ELSE /\ AbortAcquisition
          /\ RejectDisposal
          /\ SettleActive("failed")
          /\ DropWorkerAnd({o})
  /\ UNCHANGED <<fatalGpuDiagnostic, nextRequestId, nextJobId, jobOf, stopped, budget>>

-----------------------------------------------------------------------------
(* onMessage and the worker's error event.                                  *)

Arrived(types) ==
  /\ worker # 0
  /\ toClient # <<>>
  /\ Head(toClient).type \in types

Message == Head(toClient)

\* id === expected, where an expected id that is undefined matches none.
Correlates(id, expected) == expected # NoId /\ id = expected

\* A message that only reports (progress), or whose correlation id is not the
\* active one, changes nothing the client keeps.
Ignored ==
  \/ Arrived({"initialization-progress", "generation-progress"})
  \/ /\ Arrived({"ready", "initialization-cancelled"})
     /\ ~Correlates(Message.requestId, active.initReq)
  \/ /\ Arrived({"result", "cancelled"})
     /\ ~Correlates(Message.jobId, active.job)
  \/ /\ Arrived({"disposed"})
     /\ ~Correlates(Message.requestId, pendingDisposal)

OnIgnored ==
  /\ Ignored
  /\ toClient' = Tail(toClient)
  /\ UNCHANGED <<toWorker, clientVars>>

OnReady ==
  /\ Arrived({"ready"}) /\ ~Ignored
  /\ toClient' = Tail(toClient)
  /\ workerReady' = TRUE
  /\ IF active.cancelRequested
     THEN SettleActive("aborted") /\ UNCHANGED <<toWorker, nextJobId, jobOf>>
     ELSE StartGeneration(active.op) /\ UNCHANGED outcome
  /\ UNCHANGED <<worker, fatalGpuDiagnostic, cacheAcquisition, releaseRuntimeLock,
                 pendingDisposal, disposePromise, nextRequestId, acquiring,
                 abortedAcquisitions, leases, stopped, budget>>

OnInitializationCancelled ==
  /\ Arrived({"initialization-cancelled"}) /\ ~Ignored
  /\ ResetWorker("aborted")
  /\ UNCHANGED <<stopped, callVars, budget>>

\* Mutant: the case of cancelled falls through to that of result.
OnOutcomeResolvesBoth ==
  /\ Arrived({"result", "cancelled"}) /\ ~Ignored
  /\ toClient' = Tail(toClient)
  /\ SettleActive("resolved")
  /\ UNCHANGED <<toWorker, worker, workerReady, fatalGpuDiagnostic, cacheAcquisition,
                 releaseRuntimeLock, pendingDisposal, disposePromise,
                 abortedAcquisitions, leases, stopped, callVars, budget>>

OnOutcome ==
  /\ Arrived({"result", "cancelled"}) /\ ~Ignored
  /\ toClient' = Tail(toClient)
  /\ SettleActive(IF Message.type = "result" THEN "resolved" ELSE "aborted")
  /\ UNCHANGED <<toWorker, worker, workerReady, fatalGpuDiagnostic, cacheAcquisition,
                 releaseRuntimeLock, pendingDisposal, disposePromise,
                 abortedAcquisitions, leases, stopped, callVars, budget>>

OnDiagnostic ==
  /\ Arrived({"diagnostic"})
  /\ toClient' = Tail(toClient)
  /\ fatalGpuDiagnostic' = TRUE
  /\ UNCHANGED <<toWorker, worker, workerReady, active, cacheAcquisition,
                 releaseRuntimeLock, pendingDisposal, disposePromise,
                 abortedAcquisitions, leases, outcome, stopped, callVars, budget>>

OnDisposed ==
  /\ Arrived({"disposed"}) /\ ~Ignored
  /\ toClient' = Tail(toClient)
  /\ disposePromise' = SettledDispose("resolved")
  /\ pendingDisposal' = NoId
  /\ workerReady' = FALSE
  /\ UNCHANGED <<toWorker, worker, fatalGpuDiagnostic, active, cacheAcquisition,
                 releaseRuntimeLock, abortedAcquisitions, leases, outcome, stopped,
                 callVars, budget>>

AnswersDisposal == Correlates(Message.requestId, pendingDisposal)

OnDisposalError ==
  /\ Arrived(ErrorTypes) /\ AnswersDisposal
  /\ toClient' = Tail(toClient)
  /\ RejectDisposal
  /\ UNCHANGED <<toWorker, worker, workerReady, fatalGpuDiagnostic, active,
                 cacheAcquisition, releaseRuntimeLock, abortedAcquisitions, leases,
                 outcome, stopped, callVars, budget>>

\* Any other error ends the active operation, whatever job or request it names.
OnError ==
  /\ Arrived(ErrorTypes) /\ ~AnswersDisposal
  /\ IF fatalGpuDiagnostic \/ Message.type = "fatal-error" \/ ~workerReady
     THEN ResetWorker("failed")
     ELSE /\ toClient' = Tail(toClient)
          /\ UNCHANGED toWorker
          /\ FailKeepingWorker
  /\ UNCHANGED <<stopped, callVars, budget>>

\* Mutant: an error event rejects with an AbortError.
OnWorkerErrorAborts ==
  /\ budget.workers > 0 /\ budget.errors > 0
  /\ budget' = [budget EXCEPT !.errors = @ - 1]
  /\ ResetWorker("aborted")
  /\ UNCHANGED <<stopped, callVars>>

\* The listener is not tied to the worker it was added to, and an error event
\* is a task of its own that terminate() does not drop: once a worker was
\* created it may come at any time.
OnWorkerError ==
  /\ budget.workers > 0 /\ budget.errors > 0
  /\ budget' = [budget EXCEPT !.errors = @ - 1]
  /\ ResetWorker("failed")
  /\ UNCHANGED <<stopped, callVars>>

OnMessage ==
  \/ OnIgnored \/ OnReady \/ OnInitializationCancelled \/ OnOutcome
  \/ OnDiagnostic \/ OnDisposed \/ OnDisposalError \/ OnError

Page == (\E o \in Operations : Generate(o)) \/ Cancel \/ Dispose \/ Terminate

Continuation ==
  \/ DisposalTimesOut \/ DisposeFinishes \/ DisposeSettles
  \/ \E o \in Operations : LeaseGranted(o) \/ AcquisitionReturns(o) \/ AcquisitionFails(o)

ClientNext == Page \/ Continuation \/ OnMessage \/ OnWorkerError
=============================================================================
