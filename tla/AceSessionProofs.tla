-------------------------- MODULE AceSessionProofs --------------------------
(***************************************************************************)
(* Proofs about AceSession, in four layers.  ClientInv speaks of client     *)
(* variables only, so it holds whatever the worker posts; the lease         *)
(* theorems follow from it.  PortsInv relates what is queued in the two     *)
(* ports to both ends; ResultsInv follows results, and StopsInv the         *)
(* requests to stop and their answers, through the ports.  The last is what *)
(* the refinement of MusicService needs.                                    *)
(***************************************************************************)
EXTENDS AceSession, AceWorkerProofs

Disposing == disposePromise.phase # "none"

\* A lease is in the hands of an acquisition or of the live worker.
LeaseInv ==
  /\ worker # 0 <=> releaseRuntimeLock # 0
  /\ releaseRuntimeLock # 0 => releaseRuntimeLock \in leases
  /\ releaseRuntimeLock \notin acquiring
  /\ NoLeaseLeak

\* An acquisition that will be used runs for the active operation, and then
\* there is no worker.
AcquisitionInv ==
  /\ cacheAcquisition # 0 =>
       /\ active = [NoActive EXCEPT !.op = cacheAcquisition]
       /\ worker = 0
  /\ Busy /\ active.op \in acquiring => cacheAcquisition = active.op

ActiveInv ==
  /\ ~Busy => active = NoActive
  /\ Busy => \/ cacheAcquisition = active.op
             \/ active.initReq # NoId /\ active.job = NoId /\ worker # 0 /\ ~workerReady
             \/ active.initReq = NoId /\ active.job # NoId /\ worker # 0 /\ workerReady
  /\ worker # 0 /\ ~workerReady /\ ~Disposing => Busy

\* While dispose() runs nothing is active, and the only worker left to drop
\* is the one it disposes.
DisposeInv ==
  /\ Disposing => ~Busy /\ cacheAcquisition = 0
  /\ Disposing => worker \in {0, disposePromise.worker}
  /\ disposePromise.phase = "settling" => worker = 0 /\ pendingDisposal = NoId
  /\ pendingDisposal # NoId => Disposing /\ disposePromise.requestId = pendingDisposal

\* The active operation is the one whose promise is pending, and an
\* acquisition is never used by a later call.
OutcomeInv ==
  /\ \A o \in Operations : outcome[o] = "pending" <=> active.op = o
  /\ \A o \in acquiring : outcome[o] # "none"

ClientInv == LeaseInv /\ AcquisitionInv /\ ActiveInv /\ DisposeInv /\ OutcomeInv

-----------------------------------------------------------------------------
(* The types of the client's variables.                                     *)

ActiveType ==
  [op : Operations \cup {0}, initReq : Nat, job : Nat, cancelRequested : BOOLEAN]

DisposeType ==
  [phase : {"none", "waiting", "resolved", "rejected", "settling"},
   requestId : Nat, worker : Nat]

OutcomeType == [Operations -> {"none", "pending", "resolved", "aborted", "failed"}]

BudgetType == [disposals : Nat, errors : Nat, workers : Nat]

LEMMA RecordTypes ==
  /\ NoActive \in ActiveType /\ NoDispose \in DisposeType
  /\ \A o \in Operations, r \in Nat, j \in Nat :
       [op |-> o, initReq |-> r, job |-> j, cancelRequested |-> FALSE] \in ActiveType
  /\ \A d \in DisposeType, result \in {"resolved", "rejected"} :
       /\ [d EXCEPT !.phase = IF @ = "waiting" THEN result ELSE @] \in DisposeType
       /\ [d EXCEPT !.phase = "settling"] \in DisposeType
  /\ \A a \in ActiveType, r \in Nat :
       /\ [a EXCEPT !.cancelRequested = TRUE] \in ActiveType
       /\ [a EXCEPT !.initReq = r] \in ActiveType
  /\ \A b \in BudgetType :
       b.workers + 1 \in Nat /\ [b EXCEPT !.workers = @ + 1] \in BudgetType
  /\ Operations \subseteq Nat \ {0}
<1>1. NoActive \in ActiveType /\ NoDispose \in DisposeType
  BY DEF NoActive, NoDispose, NoId, ActiveType, DisposeType
<1>2. \A o \in Operations, r \in Nat, j \in Nat :
        [op |-> o, initReq |-> r, job |-> j, cancelRequested |-> FALSE] \in ActiveType
  BY DEF ActiveType
<1>3. \A d \in DisposeType, result \in {"resolved", "rejected"} :
        /\ [d EXCEPT !.phase = IF @ = "waiting" THEN result ELSE @] \in DisposeType
        /\ [d EXCEPT !.phase = "settling"] \in DisposeType
  BY DEF DisposeType
<1>4. \A a \in ActiveType, r \in Nat :
        /\ [a EXCEPT !.cancelRequested = TRUE] \in ActiveType
        /\ [a EXCEPT !.initReq = r] \in ActiveType
  BY DEF ActiveType
<1>5. \A b \in BudgetType :
        b.workers + 1 \in Nat /\ [b EXCEPT !.workers = @ + 1] \in BudgetType
  BY DEF BudgetType
<1>6. Operations \subseteq Nat \ {0}
  BY ClientConstants DEF Operations
<1>7. QED  BY <1>1, <1>2, <1>3, <1>4, <1>5, <1>6

LEMMA SettleTyped ==
  ASSUME ClientTypeOK, NEW result \in {"resolved", "aborted", "failed"}, SettleActive(result)
  PROVE  active' \in ActiveType /\ outcome' \in OutcomeType
<1>1. active' \in ActiveType
  BY RecordTypes DEF SettleActive
<1>2. outcome' \in OutcomeType
  BY DEF SettleActive, ClientTypeOK, OutcomeType
<1>3. QED  BY <1>1, <1>2

LEMMA RejectTyped ==
  ASSUME ClientTypeOK, RejectDisposal
  PROVE  pendingDisposal' \in Nat /\ disposePromise' \in DisposeType
<1>1. disposePromise \in DisposeType
  BY DEF ClientTypeOK, DisposeType
<1>2. disposePromise' \in DisposeType
  BY <1>1, RecordTypes DEF RejectDisposal, SettledDispose
<1>3. pendingDisposal' \in Nat
  BY DEF RejectDisposal, NoId
<1>4. QED  BY <1>2, <1>3

LEMMA AbortTyped ==
  ASSUME ClientTypeOK, AbortAcquisition
  PROVE  abortedAcquisitions' \subseteq Operations /\ cacheAcquisition' = 0
BY DEF AbortAcquisition, ClientTypeOK

LEMMA DropTyped ==
  ASSUME ClientTypeOK, NEW others, DropWorkerAnd(others)
  PROVE  worker' = 0 /\ workerReady' = FALSE /\ releaseRuntimeLock' = 0
         /\ leases' \subseteq Operations
BY DEF DropWorkerAnd, ClientTypeOK

LEMMA DropWorkerTyped ==
  ASSUME ClientTypeOK,
         DropWorker \/ UNCHANGED <<channelVars, worker, workerReady, releaseRuntimeLock, leases>>
  PROVE  /\ worker' \in Nat /\ workerReady' \in BOOLEAN
         /\ releaseRuntimeLock' \in Operations \cup {0} /\ leases' \subseteq Operations
<1>1. CASE DropWorker
  <2>1. DropWorkerAnd({})
    BY <1>1 DEF DropWorker
  <2>2. worker' = 0 /\ workerReady' = FALSE /\ releaseRuntimeLock' = 0
        /\ leases' \subseteq Operations
    BY <2>1, DropTyped
  <2>3. QED  BY <2>2
<1>2. CASE UNCHANGED <<channelVars, worker, workerReady, releaseRuntimeLock, leases>>
  BY <1>2 DEF ClientTypeOK
<1>3. QED  BY <1>1, <1>2

LEMMA ResetTyped ==
  ASSUME ClientTypeOK, NEW result \in {"aborted", "failed"}, ResetWorker(result),
         UNCHANGED <<callVars>>, stopped' \subseteq Operations,
         budget' \in [disposals : Nat, errors : Nat, workers : Nat]
  PROVE  ClientTypeOK'
<1>1. active' \in ActiveType /\ outcome' \in OutcomeType
  BY SettleTyped DEF ResetWorker
<1>2. pendingDisposal' \in Nat /\ disposePromise' \in DisposeType
  BY RejectTyped DEF ResetWorker
<1>3. abortedAcquisitions' \subseteq Operations /\ cacheAcquisition' = 0
  BY AbortTyped DEF ResetWorker
<1>4. worker' = 0 /\ workerReady' = FALSE /\ releaseRuntimeLock' = 0
      /\ leases' \subseteq Operations
  BY DropTyped DEF ResetWorker, DropWorker
<1>5. QED
  BY <1>1, <1>2, <1>3, <1>4
  DEF ResetWorker, ClientTypeOK, callVars, ActiveType, DisposeType, OutcomeType

LEMMA StartGenerationTyped ==
  ASSUME ClientTypeOK, NEW o \in Operations, StartGeneration(o)
  PROVE  active' \in ActiveType /\ jobOf' \in [Operations -> Nat] /\ nextJobId' \in Nat \ {0}
<1>1. active' \in ActiveType
  BY RecordTypes DEF StartGeneration, ClientTypeOK, NoId
<1>2. QED  BY <1>1 DEF StartGeneration, ClientTypeOK

LEMMA MarkTyped ==
  ASSUME ClientTypeOK, MarkStopped
  PROVE  stopped' \subseteq Operations
BY DEF MarkStopped, Busy, ClientTypeOK

LEMMA PageTyped ==
  ASSUME ClientTypeOK, Page
  PROVE  ClientTypeOK'
<1>1. ASSUME NEW o \in Operations, Generate(o)  PROVE ClientTypeOK'
  <2>1. outcome' \in OutcomeType
    BY <1>1 DEF Generate, ClientTypeOK, OutcomeType
  <2>2. CASE workerReady /\ worker # 0
    <3>1. active' \in ActiveType /\ jobOf' \in [Operations -> Nat] /\ nextJobId' \in Nat \ {0}
      BY <1>1, <2>2, StartGenerationTyped DEF Generate
    <3>2. QED
      BY <1>1, <2>1, <2>2, <3>1 DEF Generate, ClientTypeOK, ActiveType, OutcomeType
  <2>3. CASE ~(workerReady /\ worker # 0)
    <3>1. active' \in ActiveType
      <4>1. active' = [op |-> o, initReq |-> 0, job |-> 0, cancelRequested |-> FALSE]
        BY <1>1, <2>3 DEF Generate, NoActive, NoId
      <4>2. QED  BY <4>1, RecordTypes
    <3>2. QED
      BY <1>1, <2>1, <2>3, <3>1 DEF Generate, ClientTypeOK, ActiveType, OutcomeType
  <2>4. QED  BY <2>2, <2>3
<1>2. CASE Cancel
  <2>1. stopped' \subseteq Operations
    BY <1>2, MarkTyped DEF Cancel
  <2>2. CASE cacheAcquisition # 0
    BY <1>2, <2>1, <2>2, ResetTyped DEF Cancel, ClientTypeOK, callVars
  <2>3. CASE cacheAcquisition = 0
    <3>1. active' \in ActiveType
      <4>1. active \in ActiveType
        BY DEF ClientTypeOK, ActiveType
      <4>2. QED  BY <1>2, <2>3, <4>1, RecordTypes DEF Cancel, CancelWorker
    <3>2. QED
      BY <1>2, <2>1, <2>3, <3>1 DEF Cancel, CancelWorker, ClientTypeOK, ActiveType, callVars
  <2>4. QED  BY <2>2, <2>3
<1>3. CASE Terminate
  <2>1. stopped' \subseteq Operations
    BY <1>3, MarkTyped DEF Terminate
  <2>2. QED  BY <1>3, <2>1, ResetTyped DEF Terminate, ClientTypeOK, callVars
<1>4. CASE Dispose
  <2>1. stopped' \subseteq Operations
    BY <1>4, MarkTyped DEF Dispose
  <2>2. active' \in ActiveType /\ outcome' \in OutcomeType
    BY <1>4, SettleTyped DEF Dispose
  <2>3. abortedAcquisitions' \subseteq Operations /\ cacheAcquisition' = 0
    BY <1>4, AbortTyped DEF Dispose
  <2>4. budget' \in [disposals : Nat, errors : Nat, workers : Nat]
    BY <1>4 DEF Dispose, ClientTypeOK
  <2>5. CASE OrderlyDisposal
    <3>1. disposePromise' \in DisposeType
      BY <1>4, <2>5 DEF Dispose, ClientTypeOK, DisposeType
    <3>2. QED
      BY <1>4, <2>1, <2>2, <2>3, <2>4, <2>5, <3>1
      DEF Dispose, ClientTypeOK, ActiveType, DisposeType, OutcomeType
  <2>6. CASE ~OrderlyDisposal
    <3>1. disposePromise' \in DisposeType
      BY <1>4, <2>6, RecordTypes DEF Dispose
    <3>2. /\ worker' \in Nat /\ workerReady' \in BOOLEAN
          /\ releaseRuntimeLock' \in Operations \cup {0} /\ leases' \subseteq Operations
      BY <1>4, <2>6, DropWorkerTyped DEF Dispose
    <3>3. QED
      BY <1>4, <2>1, <2>2, <2>3, <2>4, <2>6, <3>1, <3>2
      DEF Dispose, ClientTypeOK, ActiveType, DisposeType, OutcomeType
  <2>7. QED  BY <2>5, <2>6
<1>5. QED  BY <1>1, <1>2, <1>3, <1>4 DEF Page

LEMMA ContinuationTyped ==
  ASSUME ClientTypeOK, Continuation
  PROVE  ClientTypeOK'
<1>1. disposePromise \in DisposeType
  BY DEF ClientTypeOK, DisposeType
<1>2. CASE DisposalTimesOut \/ DisposeSettles
  <2>1. disposePromise' \in DisposeType
    BY <1>1, <1>2, RecordTypes DEF DisposalTimesOut, DisposeSettles, SettledDispose
  <2>2. QED
    BY <1>2, <2>1 DEF DisposalTimesOut, DisposeSettles, ClientTypeOK, DisposeType, callVars
<1>3. CASE DisposeFinishes
  <2>1. disposePromise' \in DisposeType
    BY <1>1, <1>3, RecordTypes DEF DisposeFinishes
  <2>2. /\ worker' \in Nat /\ workerReady' \in BOOLEAN
        /\ releaseRuntimeLock' \in Operations \cup {0} /\ leases' \subseteq Operations
    BY <1>3, DropWorkerTyped DEF DisposeFinishes
  <2>3. QED
    BY <1>3, <2>1, <2>2 DEF DisposeFinishes, ClientTypeOK, DisposeType, callVars, NoId
<1>4. ASSUME NEW o \in Operations, LeaseGranted(o)  PROVE ClientTypeOK'
  BY <1>4 DEF LeaseGranted, ClientTypeOK, callVars
<1>5. ASSUME NEW o \in Operations, AcquisitionReturns(o)  PROVE ClientTypeOK'
  <2>1. CASE Superseded(o)
    BY <1>5, <2>1 DEF AcquisitionReturns, ClientTypeOK
  <2>2. CASE ~Superseded(o)
    <3>1. StartWorker(o) /\ acquiring' \subseteq Operations
          /\ UNCHANGED <<nextJobId, jobOf, stopped>>
      BY <1>5, <2>2 DEF AcquisitionReturns, ClientTypeOK
    <3>2. active \in ActiveType /\ budget \in BudgetType /\ nextRequestId \in Nat \ {0}
      BY DEF ClientTypeOK, ActiveType, BudgetType
    <3>3. /\ active' \in ActiveType /\ budget' \in BudgetType
          /\ worker' \in Nat /\ nextRequestId' \in Nat \ {0}
      <4>1. /\ active' = [active EXCEPT !.initReq = nextRequestId]
            /\ budget' = [budget EXCEPT !.workers = @ + 1]
            /\ worker' = budget.workers + 1 /\ nextRequestId' = nextRequestId + 1
        BY <3>1 DEF StartWorker
      <4>2. active' \in ActiveType
        BY <3>2, <4>1, RecordTypes
      <4>3. budget' \in BudgetType /\ worker' \in Nat
        BY <3>2, <4>1, RecordTypes
      <4>4. nextRequestId' \in Nat \ {0}
        BY <3>2, <4>1
      <4>5. QED  BY <4>2, <4>3, <4>4
    <3>4. /\ cacheAcquisition' = 0 /\ releaseRuntimeLock' = o
          /\ workerReady' = FALSE /\ fatalGpuDiagnostic' = FALSE
          /\ UNCHANGED <<pendingDisposal, disposePromise, abortedAcquisitions, leases, outcome>>
      BY <3>1 DEF StartWorker
    <3>5. QED  BY <3>1, <3>3, <3>4 DEF ClientTypeOK, ActiveType, BudgetType
  <2>3. QED  BY <2>1, <2>2
<1>6. ASSUME NEW o \in Operations, AcquisitionFails(o)  PROVE ClientTypeOK'
  <2>1. CASE Superseded(o)
    BY <1>6, <2>1 DEF AcquisitionFails, ClientTypeOK
  <2>2. CASE ~Superseded(o)
    <3>1. active' \in ActiveType /\ outcome' \in OutcomeType
      BY <1>6, <2>2, SettleTyped DEF AcquisitionFails
    <3>2. pendingDisposal' \in Nat /\ disposePromise' \in DisposeType
      BY <1>6, <2>2, RejectTyped DEF AcquisitionFails
    <3>3. abortedAcquisitions' \subseteq Operations /\ cacheAcquisition' = 0
      BY <1>6, <2>2, AbortTyped DEF AcquisitionFails
    <3>4. worker' = 0 /\ workerReady' = FALSE /\ releaseRuntimeLock' = 0
          /\ leases' \subseteq Operations
      BY <1>6, <2>2, DropTyped DEF AcquisitionFails
    <3>5. QED
      BY <1>6, <3>1, <3>2, <3>3, <3>4
      DEF AcquisitionFails, ClientTypeOK, ActiveType, DisposeType, OutcomeType
  <2>3. QED  BY <2>1, <2>2
<1>7. QED  BY <1>2, <1>3, <1>4, <1>5, <1>6 DEF Continuation

LEMMA MessagesTyped ==
  ASSUME ClientTypeOK, ActiveInv, OnMessage \/ OnWorkerError
  PROVE  ClientTypeOK'
<1>1. CASE OnIgnored
  BY <1>1 DEF OnIgnored, clientVars, ClientTypeOK
<1>2. CASE OnReady
  <2>1. CASE active.cancelRequested
    <3>1. active' \in ActiveType /\ outcome' \in OutcomeType
      BY <1>2, <2>1, SettleTyped DEF OnReady
    <3>2. QED  BY <1>2, <2>1, <3>1 DEF OnReady, ClientTypeOK, ActiveType, OutcomeType
  <2>2. CASE ~active.cancelRequested
    <3>1. active.op \in Operations
      BY <1>2 DEF OnReady, Ignored, Correlates, ActiveInv, Busy, NoActive, NoId, Arrived,
                  ClientTypeOK
    <3>2. active' \in ActiveType /\ jobOf' \in [Operations -> Nat] /\ nextJobId' \in Nat \ {0}
      BY <1>2, <2>2, <3>1, StartGenerationTyped DEF OnReady
    <3>3. QED  BY <1>2, <2>2, <3>2 DEF OnReady, ClientTypeOK, ActiveType
  <2>3. QED  BY <2>1, <2>2
<1>3. CASE OnInitializationCancelled
  BY <1>3, ResetTyped DEF OnInitializationCancelled, ClientTypeOK
<1>4. CASE OnOutcome
  <2>1. active' \in ActiveType /\ outcome' \in OutcomeType
    BY <1>4, SettleTyped DEF OnOutcome
  <2>2. QED  BY <1>4, <2>1 DEF OnOutcome, ClientTypeOK, ActiveType, OutcomeType, callVars
<1>5. CASE OnDiagnostic
  BY <1>5 DEF OnDiagnostic, ClientTypeOK, callVars
<1>6. CASE OnDisposed
  <2>1. disposePromise \in DisposeType
    BY DEF ClientTypeOK, DisposeType
  <2>2. disposePromise' \in DisposeType
    BY <1>6, <2>1, RecordTypes DEF OnDisposed, SettledDispose
  <2>3. QED  BY <1>6, <2>2 DEF OnDisposed, ClientTypeOK, DisposeType, callVars, NoId
<1>7. CASE OnDisposalError
  <2>1. pendingDisposal' \in Nat /\ disposePromise' \in DisposeType
    BY <1>7, RejectTyped DEF OnDisposalError
  <2>2. QED  BY <1>7, <2>1 DEF OnDisposalError, ClientTypeOK, DisposeType, callVars
<1>8. CASE OnError /\ ResetWorker("failed")
  BY <1>8, ResetTyped DEF OnError, ClientTypeOK
<1>9. CASE OnError /\ FailKeepingWorker
  <2>1. pendingDisposal' \in Nat /\ disposePromise' \in DisposeType
    BY <1>9, RejectTyped DEF FailKeepingWorker
  <2>2. active' \in ActiveType /\ outcome' \in OutcomeType
    BY <1>9, SettleTyped DEF FailKeepingWorker
  <2>3. QED
    BY <1>9, <2>1, <2>2
    DEF OnError, FailKeepingWorker, ClientTypeOK, ActiveType, DisposeType, OutcomeType,
        callVars
<1>10. CASE OnWorkerError
  <2>1. budget' \in [disposals : Nat, errors : Nat, workers : Nat]
    BY <1>10 DEF OnWorkerError, ClientTypeOK
  <2>2. QED  BY <1>10, <2>1, ResetTyped DEF OnWorkerError, ClientTypeOK
<1>11. QED
  BY <1>1, <1>2, <1>3, <1>4, <1>5, <1>6, <1>7, <1>8, <1>9, <1>10 DEF OnMessage, OnError

-----------------------------------------------------------------------------
(* Every step of the client keeps ClientInv, whatever is in toClient.       *)

LEMMA DisposeFields ==
  ASSUME NEW d \in DisposeType, NEW result \in {"resolved", "rejected"}
  PROVE  LET settled == [d EXCEPT !.phase = IF @ = "waiting" THEN result ELSE @]
             settling == [d EXCEPT !.phase = "settling"]
         IN
         /\ settled.requestId = d.requestId /\ settled.worker = d.worker
         /\ settled.phase = "none" <=> d.phase = "none"
         /\ settled.phase = "settling" <=> d.phase = "settling"
         /\ settled.phase = IF d.phase = "waiting" THEN result ELSE d.phase
         /\ settling.phase = "settling"
BY DEF DisposeType

\* What settling the pending disposal leaves as it is.
SameDisposal ==
  /\ disposePromise'.requestId = disposePromise.requestId
  /\ disposePromise'.worker = disposePromise.worker
  /\ disposePromise'.phase = "none" <=> disposePromise.phase = "none"
  /\ disposePromise'.phase = "settling" <=> disposePromise.phase = "settling"

LEMMA RejectKeepsDisposal ==
  ASSUME ClientTypeOK, RejectDisposal
  PROVE  SameDisposal /\ pendingDisposal' = NoId
<1>1. disposePromise \in DisposeType
  BY DEF ClientTypeOK, DisposeType
<1>2. QED
  BY <1>1, DisposeFields DEF RejectDisposal, SettledDispose, SameDisposal

LEMMA ActiveFields ==
  /\ NoActive.op = 0 /\ NoActive.initReq = NoId /\ NoActive.job = NoId
  /\ ~NoActive.cancelRequested
  /\ \A o : LET a == [NoActive EXCEPT !.op = o] IN
       a.op = o /\ a.initReq = NoId /\ a.job = NoId /\ ~a.cancelRequested
BY DEF NoActive, NoId

LEMMA SettleKeepsOutcome ==
  ASSUME ClientTypeOK, OutcomeInv, NEW result \in {"resolved", "aborted", "failed"},
         SettleActive(result), acquiring' \subseteq acquiring
  PROVE  OutcomeInv' /\ active' = NoActive
<1>1. active' = NoActive /\ active'.op = 0
  BY ActiveFields DEF SettleActive
<1>2. \A o \in Operations : outcome'[o] = IF Busy /\ o = active.op THEN result ELSE outcome[o]
  BY DEF SettleActive, ClientTypeOK
<1>3. \A o \in Operations : o # 0
  BY RecordTypes
<1>4. \A o \in Operations : outcome'[o] = "pending" <=> active'.op = o
  BY <1>1, <1>2, <1>3 DEF OutcomeInv, Busy
<1>5. \A o \in acquiring' : outcome'[o] # "none"
  BY <1>2 DEF OutcomeInv, ClientTypeOK
<1>6. QED  BY <1>1, <1>4, <1>5 DEF OutcomeInv

\* The end of a worker or of an acquisition, by an error or by the page.
LEMMA DropKeepsInv ==
  ASSUME ClientTypeOK, ClientInv, NEW others, DropWorkerAnd(others),
         acquiring \ others \subseteq acquiring', acquiring' \subseteq acquiring,
         active' = NoActive, OutcomeInv', cacheAcquisition' = 0, SameDisposal,
         pendingDisposal' = NoId
  PROVE  ClientInv'
<1>1. LeaseInv'
  BY RecordTypes DEF ClientInv, LeaseInv, NoLeaseLeak, DropWorkerAnd, ClientTypeOK
<1>2. AcquisitionInv' /\ ActiveInv'
  BY ActiveFields DEF AcquisitionInv, ActiveInv, Busy, DropWorkerAnd
<1>3. DisposeInv'
  BY ActiveFields
  DEF ClientInv, DisposeInv, Disposing, Busy, SameDisposal, DropWorkerAnd, NoId
<1>4. QED  BY <1>1, <1>2, <1>3 DEF ClientInv

LEMMA ResetKeepsInv ==
  ASSUME ClientTypeOK, ClientInv, NEW result \in {"aborted", "failed"},
         ResetWorker(result), UNCHANGED acquiring
  PROVE  ClientInv'
<1>1. SameDisposal /\ pendingDisposal' = NoId
  BY RejectKeepsDisposal DEF ResetWorker
<1>2. cacheAcquisition' = 0 /\ DropWorkerAnd({})
  BY DEF ResetWorker, AbortAcquisition, DropWorker
<1>3. active' = NoActive /\ OutcomeInv'
  BY SettleKeepsOutcome DEF ResetWorker, ClientInv
<1>4. acquiring' = acquiring
  OBVIOUS
<1>5. QED  BY <1>1, <1>2, <1>3, <1>4, DropKeepsInv

LEMMA GenerateKeepsInv ==
  ASSUME ClientTypeOK, ClientInv, NEW o \in Operations, Generate(o)
  PROVE  ClientInv'
<1>1. ~Busy /\ ~Disposing /\ o # 0 /\ o \notin acquiring
  BY RecordTypes DEF Generate, Disposing, ClientInv, OutcomeInv
<1>2. UNCHANGED <<worker, workerReady, releaseRuntimeLock, pendingDisposal, disposePromise,
                  leases>>
  BY DEF Generate
<1>3. active'.op = o
  <2>1. CASE workerReady /\ worker # 0
    BY <2>1 DEF Generate, StartGeneration
  <2>2. CASE ~(workerReady /\ worker # 0)
    <3>1. active' = [NoActive EXCEPT !.op = o]
      BY <2>2 DEF Generate
    <3>2. QED  BY <3>1, ActiveFields
  <2>3. QED  BY <2>1, <2>2
<1>4. OutcomeInv'
  <2>1. \A p \in Operations : outcome'[p] = IF p = o THEN "pending" ELSE outcome[p]
    BY DEF Generate, ClientTypeOK
  <2>2. acquiring' \subseteq acquiring \cup {o} /\ acquiring \subseteq Operations
    BY DEF Generate, ClientTypeOK
  <2>3. active.op \notin Operations
    BY <1>1, RecordTypes DEF Busy
  <2>4. QED  BY <1>3, <2>1, <2>2, <2>3 DEF ClientInv, OutcomeInv
<1>5. DisposeInv'
  BY <1>1, <1>2 DEF ClientInv, DisposeInv, Disposing
<1>6. CASE workerReady /\ worker # 0
  <2>1. /\ active' = [op |-> o, initReq |-> NoId, job |-> nextJobId, cancelRequested |-> FALSE]
        /\ UNCHANGED <<acquiring, cacheAcquisition>>
    BY <1>6 DEF Generate, StartGeneration
  <2>2. active'.initReq = NoId /\ active'.job = nextJobId /\ nextJobId # NoId
    BY <2>1 DEF ClientTypeOK, NoId
  <2>3. LeaseInv'
    BY <1>2, <2>1 DEF ClientInv, LeaseInv, NoLeaseLeak
  <2>4. AcquisitionInv'
    BY <1>1, <1>2, <1>3, <1>6, <2>1 DEF ClientInv, AcquisitionInv
  <2>5. ActiveInv'
    BY <1>1, <1>2, <1>3, <1>6, <2>2 DEF ActiveInv, Busy
  <2>6. QED  BY <1>4, <1>5, <2>3, <2>4, <2>5 DEF ClientInv
<1>7. CASE ~(workerReady /\ worker # 0)
  <2>1. worker = 0
    BY <1>1, <1>7 DEF ClientInv, ActiveInv
  <2>2. /\ active' = [NoActive EXCEPT !.op = o]
        /\ acquiring' = acquiring \cup {o} /\ cacheAcquisition' = o
    BY <1>7 DEF Generate
  <2>3. LeaseInv'
    BY <1>1, <1>2, <2>1, <2>2 DEF ClientInv, LeaseInv, NoLeaseLeak
  <2>4. AcquisitionInv' /\ ActiveInv'
    BY <1>1, <1>2, <1>3, <2>1, <2>2 DEF AcquisitionInv, ActiveInv, Busy
  <2>5. QED  BY <1>4, <1>5, <2>3, <2>4 DEF ClientInv
<1>8. QED  BY <1>6, <1>7

LEMMA DisposeKeepsInv ==
  ASSUME ClientTypeOK, ClientInv, Dispose
  PROVE  ClientInv'
<1>1. ~Disposing /\ pendingDisposal = NoId /\ acquiring' = acquiring /\ cacheAcquisition' = 0
  BY DEF Dispose, Disposing, ClientInv, DisposeInv, AbortAcquisition
<1>2. active' = NoActive /\ OutcomeInv'
  BY <1>1, SettleKeepsOutcome DEF Dispose, ClientInv
<1>3. CASE OrderlyDisposal
  <2>1. UNCHANGED <<worker, workerReady, releaseRuntimeLock, leases>> /\ workerReady
    BY <1>3 DEF Dispose, OrderlyDisposal
  <2>2. /\ disposePromise'.phase \in {"waiting", "rejected"}
        /\ disposePromise'.worker = worker
        /\ disposePromise'.requestId = pendingDisposal'
    BY <1>3 DEF Dispose
  <2>3. LeaseInv'
    BY <1>1, <2>1 DEF ClientInv, LeaseInv, NoLeaseLeak
  <2>4. AcquisitionInv' /\ ActiveInv'
    BY <1>1, <1>2, <2>1, ActiveFields DEF AcquisitionInv, ActiveInv, Busy
  <2>5. DisposeInv'
    BY <1>1, <1>2, <2>1, <2>2, ActiveFields DEF DisposeInv, Disposing, Busy
  <2>6. QED  BY <1>2, <2>3, <2>4, <2>5 DEF ClientInv
<1>4. CASE ~OrderlyDisposal
  <2>1. disposePromise'.phase = "settling" /\ pendingDisposal' = NoId
    BY <1>1, <1>4 DEF Dispose, NoDispose
  <2>2. /\ worker' = 0 /\ releaseRuntimeLock' = 0
        /\ leases' = leases \ {releaseRuntimeLock}
    <3>1. CASE worker # 0
      BY <1>4, <3>1 DEF Dispose, DropWorker, DropWorkerAnd
    <3>2. CASE worker = 0
      BY <1>4, <3>2, RecordTypes DEF Dispose, ClientInv, LeaseInv, ClientTypeOK
    <3>3. QED  BY <3>1, <3>2
  <2>3. LeaseInv'
    BY <1>1, <2>2, RecordTypes DEF ClientInv, LeaseInv, NoLeaseLeak, ClientTypeOK
  <2>4. AcquisitionInv' /\ ActiveInv'
    BY <1>1, <1>2, <2>2, ActiveFields DEF AcquisitionInv, ActiveInv, Busy
  <2>5. DisposeInv'
    BY <1>1, <1>2, <2>1, <2>2, ActiveFields DEF DisposeInv, Disposing, Busy
  <2>6. QED  BY <1>2, <2>3, <2>4, <2>5 DEF ClientInv
<1>5. QED  BY <1>3, <1>4

LEMMA CancelKeepsInv ==
  ASSUME ClientTypeOK, ClientInv, Cancel
  PROVE  ClientInv'
<1>1. acquiring' = acquiring
  BY DEF Cancel, callVars
<1>2. CASE cacheAcquisition # 0
  BY <1>1, <1>2, ResetKeepsInv DEF Cancel
<1>3. CASE cacheAcquisition = 0
  <2>1. /\ UNCHANGED <<worker, workerReady, cacheAcquisition, releaseRuntimeLock,
                       pendingDisposal, disposePromise, leases, outcome>>
        /\ active' = active \/ active' = [active EXCEPT !.cancelRequested = TRUE]
        /\ Busy
    BY <1>3 DEF Cancel, CancelWorker
  <2>2. active'.op = active.op /\ active'.initReq = active.initReq /\ active'.job = active.job
    BY <2>1 DEF ClientTypeOK
  <2>3. LeaseInv' /\ DisposeInv' /\ OutcomeInv'
    BY <1>1, <2>1, <2>2
    DEF ClientInv, LeaseInv, NoLeaseLeak, DisposeInv, Disposing, Busy, OutcomeInv
  <2>4. AcquisitionInv' /\ ActiveInv'
    BY <1>1, <1>3, <2>1, <2>2
    DEF ClientInv, AcquisitionInv, ActiveInv, Disposing, Busy
  <2>5. QED  BY <2>3, <2>4 DEF ClientInv
<1>4. QED  BY <1>2, <1>3

LEMMA PageKeepsInv ==
  ASSUME ClientTypeOK, ClientInv, Page
  PROVE  ClientInv'
<1>1. CASE Terminate
  BY <1>1, ResetKeepsInv DEF Terminate, callVars
<1>2. QED
  BY <1>1, GenerateKeepsInv, CancelKeepsInv, DisposeKeepsInv DEF Page

\* What neither a settled disposal promise nor a progress report changes.
leaseVars == <<worker, workerReady, active, cacheAcquisition, releaseRuntimeLock, acquiring,
               leases, outcome>>

LEMMA DisposalStepKeepsInv ==
  ASSUME ClientTypeOK, ClientInv, UNCHANGED leaseVars, SameDisposal,
         pendingDisposal' \in {pendingDisposal, NoId}
  PROVE  ClientInv'
<1>1. LeaseInv'
  BY DEF ClientInv, LeaseInv, NoLeaseLeak, leaseVars
<1>2. AcquisitionInv' /\ ActiveInv' /\ OutcomeInv'
  BY DEF ClientInv, AcquisitionInv, ActiveInv, OutcomeInv, Busy, Disposing, leaseVars,
         SameDisposal
<1>3. DisposeInv'
  BY DEF ClientInv, DisposeInv, Busy, Disposing, leaseVars, SameDisposal, NoId
<1>4. QED  BY <1>1, <1>2, <1>3 DEF ClientInv

LEMMA DisposeFinishesKeepsInv ==
  ASSUME ClientTypeOK, ClientInv, DisposeFinishes
  PROVE  ClientInv'
<1>1. disposePromise \in DisposeType /\ disposePromise.phase \in {"resolved", "rejected"}
  BY DEF DisposeFinishes, ClientTypeOK, DisposeType
<1>2. disposePromise'.phase = "settling"
  BY <1>1, DisposeFields DEF DisposeFinishes
<1>3. /\ active' = active /\ cacheAcquisition' = cacheAcquisition /\ acquiring' = acquiring
      /\ outcome' = outcome /\ ~Busy /\ cacheAcquisition = 0
  BY <1>1 DEF DisposeFinishes, callVars, ClientInv, DisposeInv, Disposing
<1>4. pendingDisposal' = NoId
  BY <1>1 DEF DisposeFinishes, ClientInv, DisposeInv
<1>5. /\ worker' = 0 /\ releaseRuntimeLock' = 0
      /\ leases' = leases \ {releaseRuntimeLock}
  <2>1. CASE TerminatesItsWorker
    BY <2>1 DEF DisposeFinishes, DropWorker, DropWorkerAnd
  <2>2. CASE ~TerminatesItsWorker
    <3>1. worker = 0
      BY <1>1, <2>2 DEF TerminatesItsWorker, ClientInv, DisposeInv, Disposing
    <3>2. 0 \notin leases /\ releaseRuntimeLock = 0
      BY <3>1, RecordTypes DEF ClientInv, LeaseInv, ClientTypeOK
    <3>3. UNCHANGED <<worker, releaseRuntimeLock, leases>>
      BY <2>2 DEF DisposeFinishes
    <3>4. QED  BY <3>1, <3>2, <3>3
  <2>3. QED  BY <2>1, <2>2
<1>6. LeaseInv'
  BY <1>3, <1>5, RecordTypes DEF ClientInv, LeaseInv, NoLeaseLeak, ClientTypeOK
<1>7. AcquisitionInv' /\ ActiveInv' /\ OutcomeInv'
  BY <1>3, <1>5 DEF ClientInv, AcquisitionInv, ActiveInv, OutcomeInv, Busy
<1>8. DisposeInv'
  BY <1>2, <1>3, <1>4, <1>5 DEF DisposeInv, Disposing, Busy
<1>9. QED  BY <1>6, <1>7, <1>8 DEF ClientInv

LEMMA DisposeSettlesKeepsInv ==
  ASSUME ClientTypeOK, ClientInv, DisposeSettles
  PROVE  ClientInv'
<1>1. disposePromise'.phase = "none"
  BY DEF DisposeSettles, NoDispose
<1>2. UNCHANGED leaseVars /\ worker = 0 /\ pendingDisposal' = NoId
  BY DEF DisposeSettles, leaseVars, callVars, ClientInv, DisposeInv
<1>3. LeaseInv' /\ AcquisitionInv' /\ ActiveInv' /\ OutcomeInv'
  BY <1>2
  DEF ClientInv, LeaseInv, NoLeaseLeak, AcquisitionInv, ActiveInv, OutcomeInv, Busy,
      leaseVars
<1>4. DisposeInv'
  BY <1>1, <1>2 DEF DisposeInv, Disposing
<1>5. QED  BY <1>3, <1>4 DEF ClientInv

LEMMA LeaseGrantedKeepsInv ==
  ASSUME ClientTypeOK, ClientInv, NEW o \in Operations, LeaseGranted(o)
  PROVE  ClientInv'
<1>1. /\ leases' = leases \cup {o} /\ o \in acquiring
      /\ UNCHANGED <<worker, workerReady, active, cacheAcquisition, releaseRuntimeLock,
                     acquiring, outcome, pendingDisposal, disposePromise>>
  BY DEF LeaseGranted, callVars
<1>2. LeaseInv'
  BY <1>1 DEF ClientInv, LeaseInv, NoLeaseLeak
<1>3. AcquisitionInv' /\ ActiveInv' /\ DisposeInv' /\ OutcomeInv'
  BY <1>1
  DEF ClientInv, AcquisitionInv, ActiveInv, DisposeInv, OutcomeInv, Busy, Disposing
<1>4. QED  BY <1>2, <1>3 DEF ClientInv

\* A superseded acquisition gives its lease back and leaves all else alone.
LEMMA SupersededKeepsInv ==
  ASSUME ClientTypeOK, ClientInv, NEW o \in acquiring,
         acquiring' = acquiring \ {o}, leases' = leases \ {o},
         UNCHANGED <<worker, workerReady, active, cacheAcquisition, releaseRuntimeLock,
                     outcome, pendingDisposal, disposePromise>>
  PROVE  ClientInv'
<1>1. LeaseInv'
  BY DEF ClientInv, LeaseInv, NoLeaseLeak
<1>2. AcquisitionInv' /\ ActiveInv' /\ DisposeInv' /\ OutcomeInv'
  BY DEF ClientInv, AcquisitionInv, ActiveInv, DisposeInv, OutcomeInv, Busy, Disposing
<1>3. QED  BY <1>1, <1>2 DEF ClientInv

LEMMA StartWorkerKeepsInv ==
  ASSUME ClientTypeOK, ClientInv, NEW o \in Operations, AcquisitionReturns(o), ~Superseded(o)
  PROVE  ClientInv'
<1>1. /\ active.op = o /\ o # 0 /\ o \in acquiring /\ o \in leases
      /\ acquiring' = acquiring \ {o} /\ StartWorker(o)
  BY RecordTypes DEF AcquisitionReturns, Superseded
<1>2. /\ cacheAcquisition = o /\ worker = 0 /\ releaseRuntimeLock = 0
      /\ active = [NoActive EXCEPT !.op = o] /\ ~Disposing
  BY <1>1 DEF ClientInv, AcquisitionInv, LeaseInv, DisposeInv, Busy
<1>3. /\ cacheAcquisition' = 0 /\ releaseRuntimeLock' = o /\ workerReady' = FALSE
      /\ active' = [active EXCEPT !.initReq = nextRequestId]
      /\ UNCHANGED <<pendingDisposal, disposePromise, leases, outcome>>
  BY <1>1 DEF StartWorker
<1>4. worker' # 0
  BY <1>1 DEF StartWorker, ClientTypeOK
<1>5. active'.op = o /\ active'.initReq = nextRequestId /\ active'.job = NoId
      /\ nextRequestId # NoId
  <2>1. active'.op = active.op /\ active'.initReq = nextRequestId /\ active'.job = active.job
    BY <1>3 DEF ClientTypeOK
  <2>2. active.job = NoId
    BY <1>2, ActiveFields
  <2>3. nextRequestId # NoId
    BY DEF ClientTypeOK, NoId
  <2>4. QED  BY <1>1, <2>1, <2>2, <2>3
<1>6. LeaseInv'
  BY <1>1, <1>2, <1>3, <1>4 DEF ClientInv, LeaseInv, NoLeaseLeak
<1>7. AcquisitionInv' /\ ActiveInv'
  BY <1>1, <1>3, <1>4, <1>5 DEF AcquisitionInv, ActiveInv, Busy
<1>8. DisposeInv'
  BY <1>2, <1>3 DEF ClientInv, DisposeInv, Disposing
<1>9. OutcomeInv'
  BY <1>1, <1>3, <1>5 DEF ClientInv, OutcomeInv
<1>10. QED  BY <1>6, <1>7, <1>8, <1>9 DEF ClientInv

LEMMA AcquisitionFailsKeepsInv ==
  ASSUME ClientTypeOK, ClientInv, NEW o \in Operations, AcquisitionFails(o), ~Superseded(o)
  PROVE  ClientInv'
<1>1. /\ acquiring' = acquiring \ {o} /\ AbortAcquisition /\ RejectDisposal
      /\ SettleActive("failed") /\ DropWorkerAnd({o})
  BY DEF AcquisitionFails
<1>2. SameDisposal /\ pendingDisposal' = NoId
  BY <1>1, RejectKeepsDisposal
<1>3. active' = NoActive /\ OutcomeInv'
  BY <1>1, SettleKeepsOutcome DEF ClientInv
<1>4. cacheAcquisition' = 0 /\ acquiring \ {o} \subseteq acquiring'
  BY <1>1 DEF AbortAcquisition
<1>5. acquiring' \subseteq acquiring
  BY <1>1
<1>6. QED  BY <1>1, <1>2, <1>3, <1>4, <1>5, DropKeepsInv

LEMMA ContinuationKeepsInv ==
  ASSUME ClientTypeOK, ClientInv, Continuation
  PROVE  ClientInv'
<1>1. CASE DisposalTimesOut
  <2>1. disposePromise \in DisposeType
    BY DEF ClientTypeOK, DisposeType
  <2>2. SameDisposal
    BY <1>1, <2>1, DisposeFields DEF DisposalTimesOut, SettledDispose, SameDisposal
  <2>3. QED
    BY <1>1, <2>2, DisposalStepKeepsInv DEF DisposalTimesOut, leaseVars, callVars
<1>2. ASSUME NEW o \in Operations, AcquisitionReturns(o)  PROVE ClientInv'
  <2>1. CASE Superseded(o)
    BY <1>2, <2>1, SupersededKeepsInv DEF AcquisitionReturns
  <2>2. QED  BY <1>2, <2>1, StartWorkerKeepsInv
<1>3. ASSUME NEW o \in Operations, AcquisitionFails(o)  PROVE ClientInv'
  <2>1. CASE Superseded(o)
    BY <1>3, <2>1, SupersededKeepsInv DEF AcquisitionFails
  <2>2. QED  BY <1>3, <2>1, AcquisitionFailsKeepsInv
<1>4. QED
  BY <1>1, <1>2, <1>3, DisposeFinishesKeepsInv, DisposeSettlesKeepsInv, LeaseGrantedKeepsInv
  DEF Continuation

\* A correlated answer to the initialize request finds the worker not ready.
LEMMA ReadyKeepsInv ==
  ASSUME ClientTypeOK, ClientInv, OnReady
  PROVE  ClientInv'
<1>1. active.initReq # NoId
  BY DEF OnReady, Ignored, Arrived, Correlates
<1>2. /\ Busy /\ ~Disposing /\ worker # 0 /\ cacheAcquisition = 0
      /\ active.op \in Operations
  BY <1>1, ActiveFields
  DEF ClientInv, ActiveInv, AcquisitionInv, DisposeInv, Busy, ClientTypeOK
<1>3. /\ UNCHANGED <<worker, cacheAcquisition, releaseRuntimeLock, acquiring,
                     pendingDisposal, disposePromise, leases>>
      /\ workerReady'
  BY DEF OnReady
<1>4. LeaseInv'
  BY <1>3 DEF ClientInv, LeaseInv, NoLeaseLeak
<1>5. DisposeInv'
  BY <1>2, <1>3 DEF ClientInv, DisposeInv, Disposing
<1>6. CASE active.cancelRequested
  <2>1. active' = NoActive /\ OutcomeInv'
    BY <1>3, <1>6, SettleKeepsOutcome DEF OnReady, ClientInv
  <2>2. AcquisitionInv' /\ ActiveInv'
    BY <1>2, <1>3, <2>1, ActiveFields DEF AcquisitionInv, ActiveInv, Busy
  <2>3. QED  BY <1>4, <1>5, <2>1, <2>2 DEF ClientInv
<1>7. CASE ~active.cancelRequested
  <2>1. /\ outcome' = outcome
        /\ active' = [op |-> active.op, initReq |-> NoId, job |-> nextJobId,
                      cancelRequested |-> FALSE]
    BY <1>7 DEF OnReady, StartGeneration
  <2>2. active'.op = active.op /\ active'.initReq = NoId /\ active'.job # NoId
    BY <2>1 DEF ClientTypeOK, NoId
  <2>3. AcquisitionInv' /\ ActiveInv'
    BY <1>2, <1>3, <2>2 DEF ClientInv, AcquisitionInv, ActiveInv, Busy
  <2>4. outcome' = outcome /\ acquiring' = acquiring /\ active'.op = active.op
    BY <1>3, <2>1, <2>2
  <2>5. OutcomeInv'
    BY <2>4 DEF ClientInv, OutcomeInv
  <2>6. QED  BY <1>4, <1>5, <2>3, <2>5 DEF ClientInv
<1>8. QED  BY <1>6, <1>7

LEMMA SettlingKeepsInv ==
  ASSUME ClientTypeOK, ClientInv, NEW result \in {"resolved", "aborted", "failed"},
         SettleActive(result), cacheAcquisition = 0,
         worker # 0 /\ ~workerReady => Disposing, SameDisposal,
         pendingDisposal' \in {pendingDisposal, NoId},
         UNCHANGED <<worker, workerReady, cacheAcquisition, releaseRuntimeLock, acquiring,
                     leases>>
  PROVE  ClientInv'
<1>1. active' = NoActive /\ OutcomeInv'
  BY SettleKeepsOutcome DEF ClientInv
<1>2. LeaseInv'
  BY DEF ClientInv, LeaseInv, NoLeaseLeak
<1>3. AcquisitionInv' /\ ActiveInv'
  BY <1>1, ActiveFields DEF AcquisitionInv, ActiveInv, Busy, Disposing, SameDisposal
<1>4. DisposeInv'
  BY <1>1, ActiveFields DEF ClientInv, DisposeInv, Busy, Disposing, SameDisposal, NoId
<1>5. QED  BY <1>1, <1>2, <1>3, <1>4 DEF ClientInv

LEMMA MessagesKeepInv ==
  ASSUME ClientTypeOK, ClientInv, OnMessage \/ OnWorkerError
  PROVE  ClientInv'
<1>1. CASE OnIgnored \/ OnDiagnostic
  BY <1>1, DisposalStepKeepsInv
  DEF OnIgnored, OnDiagnostic, clientVars, callVars, leaseVars, SameDisposal
<1>2. CASE OnInitializationCancelled
  BY <1>2, ResetKeepsInv DEF OnInitializationCancelled, callVars
<1>3. CASE OnOutcome
  <2>1. active.job # NoId
    BY <1>3 DEF OnOutcome, Ignored, Arrived, Correlates
  <2>2. cacheAcquisition = 0 /\ workerReady
    BY <2>1, ActiveFields DEF ClientInv, AcquisitionInv, ActiveInv, Busy
  <2>3. /\ SettleActive("resolved") \/ SettleActive("aborted")
        /\ SameDisposal /\ pendingDisposal' = pendingDisposal
        /\ UNCHANGED <<worker, workerReady, cacheAcquisition, releaseRuntimeLock, acquiring,
                       leases>>
    BY <1>3 DEF OnOutcome, SameDisposal, callVars
  <2>4. QED  BY <2>2, <2>3, SettlingKeepsInv
<1>4. CASE OnDisposalError
  <2>1. SameDisposal /\ pendingDisposal' = NoId
    BY <1>4, RejectKeepsDisposal DEF OnDisposalError
  <2>2. QED  BY <1>4, <2>1, DisposalStepKeepsInv DEF OnDisposalError, leaseVars, callVars
<1>5. CASE OnError /\ ResetWorker("failed")
  BY <1>5, ResetKeepsInv DEF OnError, callVars
<1>6. CASE OnError /\ FailKeepingWorker /\ workerReady
  <2>1. SameDisposal /\ pendingDisposal' = NoId
    BY <1>6, RejectKeepsDisposal DEF FailKeepingWorker
  <2>2. cacheAcquisition = 0
    BY <1>6 DEF OnError, Arrived, ClientInv, AcquisitionInv
  <2>3. /\ SettleActive("failed")
        /\ UNCHANGED <<worker, workerReady, cacheAcquisition, releaseRuntimeLock, acquiring,
                       leases>>
    BY <1>6 DEF OnError, FailKeepingWorker, callVars
  <2>4. QED  BY <1>6, <2>1, <2>2, <2>3, SettlingKeepsInv
<1>7. CASE OnWorkerError
  BY <1>7, ResetKeepsInv DEF OnWorkerError, callVars
<1>8. CASE OnDisposed
  <2>1. disposePromise \in DisposeType
    BY DEF ClientTypeOK, DisposeType
  <2>2. SameDisposal
    BY <1>8, <2>1, DisposeFields DEF OnDisposed, SettledDispose, SameDisposal
  <2>3. Disposing /\ ~Busy /\ cacheAcquisition = 0
    BY <1>8
    DEF OnDisposed, Ignored, Arrived, Correlates, ClientInv, DisposeInv, Disposing
  <2>4. /\ pendingDisposal' = NoId /\ workerReady' = FALSE
        /\ UNCHANGED <<worker, active, cacheAcquisition, releaseRuntimeLock, acquiring,
                       leases, outcome>>
    BY <1>8 DEF OnDisposed, callVars
  <2>5. LeaseInv' /\ OutcomeInv'
    BY <2>4 DEF ClientInv, LeaseInv, NoLeaseLeak, OutcomeInv
  <2>6. AcquisitionInv' /\ ActiveInv' /\ DisposeInv'
    BY <2>2, <2>3, <2>4
    DEF ClientInv, AcquisitionInv, ActiveInv, DisposeInv, Busy, Disposing, SameDisposal
  <2>7. QED  BY <2>5, <2>6 DEF ClientInv
<1>9. QED
  BY <1>1, <1>2, <1>3, <1>4, <1>5, <1>6, <1>7, <1>8, ReadyKeepsInv DEF OnMessage, OnError

-----------------------------------------------------------------------------
(* The invariant of the specification, and what follows from it.            *)

LEMMA ClientInitEstablishes == ClientInit => ClientTypeOK /\ ClientInv
<1> SUFFICES ASSUME ClientInit  PROVE ClientTypeOK /\ ClientInv
  OBVIOUS
<1>1. NoActive \in ActiveType /\ NoDispose \in DisposeType /\ \A o \in Operations : o # 0
  BY RecordTypes
<1>2. ClientTypeOK
  <2>1. budget \in BudgetType
    BY ClientConstants DEF ClientInit, BudgetType
  <2>2. active \in ActiveType /\ disposePromise \in DisposeType
    BY <1>1 DEF ClientInit
  <2>3. outcome \in OutcomeType /\ jobOf \in [Operations -> Nat]
    BY DEF ClientInit, OutcomeType, NoId
  <2>4. /\ {worker, pendingDisposal} \subseteq Nat
        /\ {nextRequestId, nextJobId} \subseteq Nat \ {0}
        /\ workerReady = FALSE /\ fatalGpuDiagnostic = FALSE
        /\ cacheAcquisition = 0 /\ releaseRuntimeLock = 0 /\ acquiring = {}
        /\ abortedAcquisitions = {} /\ leases = {} /\ stopped = {}
    BY DEF ClientInit, NoId
  <2>5. QED
    BY <2>1, <2>2, <2>3, <2>4
    DEF ClientTypeOK, ActiveType, DisposeType, OutcomeType, BudgetType
<1>3. /\ worker = 0 /\ cacheAcquisition = 0 /\ releaseRuntimeLock = 0 /\ acquiring = {}
      /\ leases = {} /\ active = NoActive /\ ~Busy /\ pendingDisposal = NoId /\ ~Disposing
  BY ActiveFields DEF ClientInit, Busy, Disposing, NoDispose
<1>4. LeaseInv /\ AcquisitionInv /\ ActiveInv /\ DisposeInv
  BY <1>3 DEF LeaseInv, NoLeaseLeak, AcquisitionInv, ActiveInv, DisposeInv, Disposing
<1>5. OutcomeInv
  BY <1>1, <1>3 DEF ClientInit, OutcomeInv, Busy
<1>6. QED  BY <1>2, <1>4, <1>5 DEF ClientInv

LEMMA SessionStepKeepsClient ==
  ClientTypeOK /\ ClientInv /\ [SessionNext]_sessionVars => (ClientTypeOK /\ ClientInv)'
<1> SUFFICES ASSUME ClientTypeOK, ClientInv, [SessionNext]_sessionVars
             PROVE  (ClientTypeOK /\ ClientInv)'
  OBVIOUS
<1>1. CASE Page
  BY <1>1, PageTyped, PageKeepsInv
<1>2. CASE Continuation
  BY <1>2, ContinuationTyped, ContinuationKeepsInv
<1>3. CASE OnMessage \/ OnWorkerError
  BY <1>3, MessagesTyped, MessagesKeepInv DEF ClientInv
<1>4. CASE UNCHANGED clientVars
  BY <1>4
  DEF clientVars, ClientTypeOK, ClientInv, LeaseInv, NoLeaseLeak, AcquisitionInv, ActiveInv,
      DisposeInv, OutcomeInv, Busy, Disposing
<1>5. QED
  BY <1>1, <1>2, <1>3, <1>4 DEF SessionNext, ClientStep, WorkerStep, sessionVars

LEMMA ClientMessageTypes ==
  \A n \in Nat :
    /\ \A t \in {"initialize", "cancel-initialization", "dispose"} :
         RequestMessage(t, n) \in ClientMessage
    /\ \A t \in {"generate", "cancel"} : JobMessage(t, n) \in ClientMessage
BY DEF RequestMessage, JobMessage, ClientMessage, NoId

LEMMA SequenceTypes ==
  ASSUME NEW S, NEW s \in Seq(S)
  PROVE  /\ <<>> \in Seq(S)
         /\ \A m \in S : <<m>> \in Seq(S) /\ Append(s, m) \in Seq(S)
         /\ s # <<>> => Tail(s) \in Seq(S)
OBVIOUS

\* A step of the client takes at most the first message of toClient; the end
\* of a worker empties it.
Takes == toClient' = toClient \/ (toClient # <<>> /\ toClient' = Tail(toClient))

LEMMA ClientTakes ==
  ASSUME Page \/ Continuation \/ OnMessage \/ OnWorkerError
  PROVE  Takes \/ toClient' = <<>>
<1>1. CASE Page
  BY <1>1
  DEF Page, Generate, Cancel, CancelWorker, Terminate, Dispose, ResetWorker, DropWorker,
      DropWorkerAnd, channelVars, Takes
<1>2. CASE Continuation
  BY <1>2
  DEF Continuation, DisposalTimesOut, DisposeFinishes, DisposeSettles, LeaseGranted,
      AcquisitionReturns, AcquisitionFails, StartWorker, DropWorker, DropWorkerAnd,
      channelVars, Takes
<1>3. CASE OnMessage \/ OnWorkerError
  BY <1>3
  DEF OnMessage, OnIgnored, OnReady, OnInitializationCancelled, OnOutcome, OnDiagnostic,
      OnDisposed, OnDisposalError, OnError, OnWorkerError, ResetWorker, DropWorker,
      DropWorkerAnd, Ignored, Arrived, Takes
<1>4. QED  BY <1>1, <1>2, <1>3

\* It appends at most one message to toWorker.
LEMMA ClientStepChannels ==
  ASSUME ClientTypeOK, ChannelTypeOK, Page \/ Continuation \/ OnMessage \/ OnWorkerError
  PROVE  ChannelTypeOK'
<1>1. /\ toWorker \in Seq(ClientMessage) /\ toClient \in Seq(WorkerMessage)
      /\ nextJobId \in Nat /\ nextRequestId \in Nat /\ active.initReq \in Nat /\ active.job \in Nat
  BY DEF ChannelTypeOK, ClientTypeOK
<1>2. \/ toWorker' = toWorker \/ toWorker' = <<>>
      \/ \E m \in ClientMessage : toWorker' = <<m>> \/ toWorker' = Append(toWorker, m)
  <2>1. CASE Page
    BY <1>1, <2>1, ClientMessageTypes
    DEF Page, Generate, Cancel, CancelWorker, Terminate, Dispose, ResetWorker, DropWorker,
        DropWorkerAnd, StartGeneration, PostToWorker, channelVars
  <2>2. CASE Continuation
    BY <1>1, <2>2, ClientMessageTypes
    DEF Continuation, DisposalTimesOut, DisposeFinishes, DisposeSettles, LeaseGranted,
        AcquisitionReturns, AcquisitionFails, StartWorker, DropWorker, DropWorkerAnd,
        channelVars
  <2>3. CASE OnMessage \/ OnWorkerError
    BY <1>1, <2>3, ClientMessageTypes
    DEF OnMessage, OnIgnored, OnReady, OnInitializationCancelled, OnOutcome, OnDiagnostic,
        OnDisposed, OnDisposalError, OnError, OnWorkerError, ResetWorker, DropWorker,
        DropWorkerAnd, StartGeneration, PostToWorker
  <2>4. QED  BY <2>1, <2>2, <2>3
<1>3. toWorker' \in Seq(ClientMessage)
  BY <1>1, <1>2, SequenceTypes
<1>4. Takes \/ toClient' = <<>>
  BY ClientTakes
<1>5. toClient' \in Seq(WorkerMessage)
  BY <1>1, <1>4, SequenceTypes DEF Takes
<1>6. QED  BY <1>3, <1>5 DEF ChannelTypeOK

\* Terminating a worker puts the next one in its initial state.
LEMMA WorkerFollowsTyped ==
  ASSUME WorkerTypeOK, RuntimeInv, WorkerFollows
  PROVE  WorkerTypeOK' /\ RuntimeInv'
<1>1. CASE UNCHANGED workerVars
  BY <1>1
  DEF workerVars, runtimeVars, backendVars, WorkerTypeOK, BackendTypeOK, RuntimeInv,
      PhasesMatchState, BackendMatchesRuntime, AwaitedCall, NoInitialization, NoGeneration,
      NoDisposalRuns, NothingOwed
<1>2. CASE WorkerRestarts
  <2>1. NoOperation \in Operation({"none", "running", "cleanup"})
        /\ NoOperation \in Operation({"none", "running", "releasing"})
    BY DEF NoOperation, Operation, NoId
  <2>2. NoDisposal \in [requestId : Nat, phase : {"none", "waiting", "backend"},
                        accepted : BOOLEAN]
        /\ NoDisposal.phase = "none" /\ NoDisposal.accepted
    BY DEF NoDisposal, NoId
  <2>3. WorkerTypeOK'
    BY <1>2, <2>1, <2>2 DEF WorkerRestarts, WorkerTypeOK, WorkerState, BackendTypeOK
  <2>4. RuntimeInv'
    BY <1>2, <2>2, FreshFields
    DEF WorkerRestarts, RuntimeInv, PhasesMatchState, BackendMatchesRuntime, AwaitedCall,
        NoInitialization, NoGeneration, NoDisposalRuns, NothingOwed
  <2>5. QED  BY <2>3, <2>4
<1>3. QED  BY <1>1, <1>2 DEF WorkerFollows

SessionInv == SessionTypeOK /\ ClientInv /\ RuntimeInv

LEMMA SessionInitEstablishes == SessionInit => SessionInv
BY ClientInitEstablishes, WorkerInitEstablishes
DEF SessionInit, SessionInv, SessionTypeOK, WorkerTyped

LEMMA SessionStepKeepsInv == SessionInv /\ [SessionNext]_sessionVars => SessionInv'
<1> SUFFICES ASSUME SessionInv, [SessionNext]_sessionVars  PROVE SessionInv'
  OBVIOUS
<1>1. (ClientTypeOK /\ ClientInv)'
  BY SessionStepKeepsClient DEF SessionInv, SessionTypeOK
<1>2. CASE (Page \/ Continuation \/ OnMessage \/ OnWorkerError) /\ WorkerFollows
  BY <1>1, <1>2, ClientStepChannels, WorkerFollowsTyped DEF SessionInv, SessionTypeOK
<1>3. CASE WorkerNext
  BY <1>1, <1>3, WorkerStepTyped, WorkerStepKeepsInv
  DEF SessionInv, SessionTypeOK, WorkerTyped
<1>4. CASE UNCHANGED sessionVars
  <2>1. WorkerFollows
    BY <1>4 DEF sessionVars, WorkerFollows, clientVars
  <2>2. ChannelTypeOK'
    BY <1>4 DEF sessionVars, channelVars, ChannelTypeOK, SessionInv, SessionTypeOK
  <2>3. QED  BY <1>1, <2>1, <2>2, WorkerFollowsTyped DEF SessionInv, SessionTypeOK
<1>5. QED
  BY <1>2, <1>3, <1>4 DEF SessionNext, ClientStep, WorkerStep

LEMMA SessionInvariant == HungWorkerSpec => []SessionInv
BY SessionInitEstablishes, SessionStepKeepsInv, PTL DEF HungWorkerSpec

(* Client, worker and ports keep their types, whatever is lost with a       *)
(* worker that is terminated in the middle of an operation.                 *)
THEOREM SessionTyping == HungWorkerSpec => []SessionTypeOK
<1>1. SessionInv => SessionTypeOK
  BY DEF SessionInv
<1>2. QED  BY <1>1, SessionInvariant, PTL

(* A live worker holds the shared model-cache lock, under any interleaving  *)
(* of cancels, errors, disposals and late acquisitions (index.ts 72).       *)
THEOREM LeaseIsHeld == HungWorkerSpec => []LeaseWhileWorker
<1>1. SessionInv => LeaseWhileWorker
  BY DEF SessionInv, ClientInv, LeaseInv, LeaseWhileWorker
<1>2. QED  BY <1>1, SessionInvariant, PTL

(* Every lease is released with its worker, or by its own acquisition.      *)
THEOREM LeaseIsNotLeaked == HungWorkerSpec => []NoLeaseLeak
<1>1. SessionInv => NoLeaseLeak
  BY DEF SessionInv, ClientInv, LeaseInv
<1>2. QED  BY <1>1, SessionInvariant, PTL

(* The lease comes and goes with the worker, under any interleaving.        *)
THEOREM LeaseGoesWithWorker == HungWorkerSpec => []LeaseFollowsWorker
<1>1. LeaseWhileWorker /\ NoLeaseLeak => LeaseFollowsWorker
  BY DEF LeaseFollowsWorker
<1>2. QED  BY <1>1, LeaseIsHeld, LeaseIsNotLeaked, PTL

(* An active operation can be cancelled at every moment, in one way.        *)
THEOREM CancelAlwaysHasTarget == HungWorkerSpec => []CancelHasTarget
<1>1. SessionInv => CancelHasTarget
  <2> SUFFICES ASSUME SessionInv, Busy  PROVE \E t \in CancelTargets : CancelTargets = {t}
    BY DEF CancelHasTarget
  <2> USE DEF CancelTargets, SessionInv, ClientInv, ActiveInv, AcquisitionInv, Busy
  <2>1. CASE cacheAcquisition = active.op
    <3>1. worker = 0
      BY <2>1
    <3>2. CancelTargets = {"acquisition"}
      BY <2>1, <3>1
    <3>3. QED  BY <3>2
  <2>2. CASE active.initReq # NoId /\ active.job = NoId /\ worker # 0 /\ ~workerReady
    <3>1. cacheAcquisition # active.op
      BY <2>2
    <3>2. CancelTargets = {"initialize"}
      BY <2>2, <3>1
    <3>3. QED  BY <3>2
  <2>3. CASE active.initReq = NoId /\ active.job # NoId /\ worker # 0 /\ workerReady
    <3>1. cacheAcquisition # active.op
      BY <2>3
    <3>2. CancelTargets = {"job"}
      BY <2>3, <3>1
    <3>3. QED  BY <3>2
  <2>4. QED  BY <2>1, <2>2, <2>3
<1>2. QED  BY <1>1, SessionInvariant, PTL

(* When dispose() is about to settle its worker is gone, lease included,    *)
(* whichever of answer, timer, error or terminate() came first.             *)
THEOREM DisposeDropsWorker == HungWorkerSpec => []DisposedIsGone
<1>1. SessionInv => DisposedIsGone
  BY DEF SessionInv, ClientInv, DisposeInv, LeaseInv, NoLeaseLeak, DisposedIsGone
<1>2. QED  BY <1>1, SessionInvariant, PTL

-----------------------------------------------------------------------------
(* The two ports: what may still be queued, given what both ends know.      *)

Queued(s, t) == \E i \in 1..Len(s) : s[i].type = t

LEMMA QueuedIn ==
  ASSUME NEW S, NEW s \in Seq(S), NEW m \in S, NEW t
  PROVE  /\ ~Queued(<<>>, t)
         /\ Queued(<<m>>, t) <=> m.type = t
         /\ Queued(Append(s, m), t) <=> Queued(s, t) \/ m.type = t
         /\ s # <<>> => /\ Queued(s, Head(s).type)
                        /\ Queued(Tail(s), t) => Queued(s, t)
<1>1. ~Queued(<<>>, t)
  BY DEF Queued
<1>2. Queued(<<m>>, t) <=> m.type = t
  BY DEF Queued
<1>3. Queued(Append(s, m), t) <=> Queued(s, t) \/ m.type = t
  <2>1. /\ Len(Append(s, m)) = Len(s) + 1 /\ Len(s) \in Nat
        /\ Append(s, m)[Len(s) + 1] = m
        /\ \A i \in 1..Len(s) : Append(s, m)[i] = s[i]
    OBVIOUS
  <2>2. 1..(Len(s) + 1) = 1..Len(s) \cup {Len(s) + 1}
    BY <2>1
  <2>3. QED  BY <2>1, <2>2, Zenon DEF Queued
<1>4. ASSUME s # <<>>  PROVE Queued(s, Head(s).type) /\ (Queued(Tail(s), t) => Queued(s, t))
  <2>1. Len(s) \in Nat \ {0} /\ Head(s) = s[1] /\ Len(Tail(s)) = Len(s) - 1
        /\ \A i \in 1..(Len(s) - 1) : Tail(s)[i] = s[i + 1] /\ i + 1 \in 1..Len(s)
    BY <1>4
  <2>2. 1 \in 1..Len(s)
    BY <2>1
  <2>3. Queued(s, Head(s).type)
    BY <2>1, <2>2 DEF Queued
  <2>4. Queued(Tail(s), t) => Queued(s, t)
    BY <2>1, Zenon DEF Queued
  <2>5. QED  BY <2>3, <2>4
<1>5. QED  BY <1>1, <1>2, <1>3, <1>4

\* An initialize is the first message a worker is sent, a dispose the last.
InOrder(s) ==
  \A i \in 1..Len(s) : /\ s[i].type = "initialize" => i = 1
                       /\ s[i].type = "dispose" => i = Len(s)

LEMMA InOrderKept ==
  ASSUME NEW S, NEW s \in Seq(S), NEW m \in S, InOrder(s)
  PROVE  /\ InOrder(<<>>) /\ InOrder(<<m>>)
         /\ m.type # "initialize" /\ ~Queued(s, "dispose") => InOrder(Append(s, m))
         /\ s # <<>> => /\ InOrder(Tail(s))
                        /\ ~Queued(Tail(s), "initialize")
                        /\ Head(s).type = "dispose" => ~Queued(Tail(s), "dispose")
<1>1. InOrder(<<>>) /\ InOrder(<<m>>)
  BY DEF InOrder
<1>2. ASSUME m.type # "initialize", ~Queued(s, "dispose")  PROVE InOrder(Append(s, m))
  <2>1. /\ Len(Append(s, m)) = Len(s) + 1 /\ Len(s) \in Nat
        /\ Append(s, m)[Len(s) + 1] = m
        /\ \A i \in 1..Len(s) : Append(s, m)[i] = s[i]
    OBVIOUS
  <2>2. \A i \in 1..(Len(s) + 1) : i \in 1..Len(s) \/ i = Len(s) + 1
    BY <2>1
  <2>3. \A i \in 1..Len(s) : s[i].type # "dispose"
    BY <1>2 DEF Queued
  <2>4. QED  BY <1>2, <2>1, <2>2, <2>3, Zenon DEF InOrder
<1>3. ASSUME s # <<>>
      PROVE  /\ InOrder(Tail(s)) /\ ~Queued(Tail(s), "initialize")
             /\ Head(s).type = "dispose" => ~Queued(Tail(s), "dispose")
  <2>1. Len(s) \in Nat \ {0} /\ Head(s) = s[1] /\ Len(Tail(s)) = Len(s) - 1
        /\ \A i \in 1..(Len(s) - 1) :
             /\ Tail(s)[i] = s[i + 1] /\ i + 1 \in 1..Len(s)
             /\ i + 1 # 1 /\ (i + 1 = Len(s) => i = Len(s) - 1)
    BY <1>3
  <2>2. \A i \in 1..Len(Tail(s)) :
          /\ Tail(s)[i].type # "initialize"
          /\ Tail(s)[i].type = "dispose" => i = Len(Tail(s))
    BY <2>1, Zenon DEF InOrder
  <2>3. ASSUME Head(s).type = "dispose"  PROVE 1..Len(Tail(s)) = {}
    <3>1. Len(s) \in Nat \ {0} /\ Head(s) = s[1] /\ Len(Tail(s)) = Len(s) - 1
      BY <1>3
    <3>2. s[1].type = "dispose" /\ \A n \in Nat \ {0} : 1 \in 1..n
      BY <2>3, <3>1
    <3>3. 1 = Len(s)
      BY <3>1, <3>2, Zenon DEF InOrder
    <3>4. \A n, k \in Nat : 1 = n /\ k = n - 1 => 1..k = {}
      OBVIOUS
    <3>5. Len(Tail(s)) \in Nat
      BY <1>3
    <3>6. QED  BY <3>1, <3>3, <3>4, <3>5, Zenon
  <2>4. QED  BY <2>2, <2>3 DEF InOrder, Queued
<1>4. QED  BY <1>1, <1>2, <1>3

(* What each end knows of the other, through what is queued between them: a *)
(* client that is not ready yet and is told so finds the worker idle, and   *)
(* a client that is ready has never been overtaken by a dispose.            *)
PortsInv ==
  /\ InOrder(toWorker)
  /\ worker = 0 => toWorker = <<>> /\ toClient = <<>> /\ ~workerReady
  /\ Queued(toWorker, "initialize") => state = "new" /\ ~workerReady /\ ~Disposing
  /\ Queued(toWorker, "dispose") => state \in {"ready", "generating"} /\ Disposing
  /\ Queued(toWorker, "generate") => workerReady \/ Disposing
  /\ Queued(toClient, "ready") => state \notin {"new", "initializing"}
  /\ Queued(toClient, "ready") /\ ~workerReady /\ ~Disposing => state = "ready"
  /\ workerReady /\ ~Disposing => state \in {"ready", "generating"}

\* A result in the port is published, and a job belongs to its operation.
ResultsInv ==
  /\ \A i \in 1..Len(toClient) :
       toClient[i].type = "result" => toClient[i].jobId \in published
  /\ active.job # NoId => jobOf[active.op] = active.job
  /\ ResolvedWithOwnJob

LEMMA MessageFields ==
  \A t, n : /\ RequestMessage(t, n).type = t /\ RequestMessage(t, n).requestId = n
            /\ JobMessage(t, n).type = t /\ JobMessage(t, n).jobId = n
BY DEF RequestMessage, JobMessage

\* What a step of the worker does to the port towards the page: it posts at
\* most one message, and a ready or a result only with what it reports.
PostsAtMostOne ==
  \/ toClient' = toClient
  \/ \E m \in WorkerMessage :
       /\ Post(m)
       /\ m.type = "ready" => state' = "ready"
       /\ m.type = "result" => m.jobId \in published'

\* ... and to its own state: only a dispose takes it out of ready and
\* generating, and nothing takes it back to new or initializing but the end
\* of an initialization.
MovesState ==
  /\ state = "new" => state' = "new" \/ Receive("initialize") \/ Receive("dispose")
  /\ state \notin {"new", "initializing"} => state' \notin {"new", "initializing"}
  /\ state \in {"ready", "generating"} =>
       state' \in {"ready", "generating"} \/ Receive("dispose")
  /\ state = "ready" => state' = "ready" \/ Receive("generate") \/ Receive("dispose")

WorkerEffect ==
  /\ published \subseteq published'
  /\ toWorker' = toWorker \/ (toWorker # <<>> /\ toWorker' = Tail(toWorker))
  /\ PostsAtMostOne
  /\ MovesState

LEMMA PostsPlain ==
  ASSUME NEW n \in Nat,
         NEW t \in {"initialization-progress", "generation-progress", "diagnostic",
                    "initialization-cancelled", "cancelled", "disposed", "error",
                    "fatal-error"},
         \/ t \notin {"generation-progress", "cancelled"} /\ Post(RequestMessage(t, n))
         \/ t \notin {"initialization-progress", "initialization-cancelled", "disposed"}
            /\ Post(JobMessage(t, n))
  PROVE  PostsAtMostOne
<1>1. PICK m \in WorkerMessage : Post(m) /\ m.type = t
  BY MessageTypes, MessageFields
<1>2. QED  BY <1>1 DEF PostsAtMostOne

LEMMA HandlersEffect ==
  ASSUME WorkerTyped, RuntimeInv, HandleMessage
  PROVE  WorkerEffect
<1>1. UNCHANGED published /\ toWorker # <<>> /\ toWorker' = Tail(toWorker)
  BY DEF HandleMessage, HandleInitialize, HandleCancelInitialization, HandleGenerate,
         HandleCancel, HandleDispose, Receive
<1>2. MovesState
  BY DEF HandleMessage, HandleInitialize, HandleCancelInitialization, HandleGenerate,
         HandleCancel, HandleDispose, MovesState
<1>3. PostsAtMostOne
  <2>1. CASE HandleInitialize
    <3>1. Incoming.requestId \in Nat
      BY <2>1, IncomingTyped DEF HandleInitialize, WorkerTyped
    <3>2. toClient' = toClient \/ Post(RequestMessage("error", Incoming.requestId))
      BY <2>1 DEF HandleInitialize
    <3>3. QED  BY <3>1, <3>2, PostsPlain DEF PostsAtMostOne
  <2>2. CASE HandleGenerate
    <3>1. Incoming.jobId \in Nat
      BY <2>2, IncomingTyped DEF HandleGenerate, WorkerTyped
    <3>2. toClient' = toClient \/ Post(JobMessage("error", Incoming.jobId))
      BY <2>2 DEF HandleGenerate
    <3>3. QED  BY <3>1, <3>2, PostsPlain DEF PostsAtMostOne
  <2>3. CASE HandleDispose
    <3>1. Incoming.requestId \in Nat
      BY <2>3, IncomingTyped DEF HandleDispose, WorkerTyped
    <3>2. \/ toClient' = toClient
          \/ Post(RequestMessage("error", Incoming.requestId))
          \/ Post(RequestMessage("disposed", Incoming.requestId))
      BY <2>3 DEF HandleDispose
    <3>3. QED  BY <3>1, <3>2, PostsPlain DEF PostsAtMostOne
  <2>4. CASE HandleCancelInitialization \/ HandleCancel
    BY <2>4 DEF HandleCancelInitialization, HandleCancel, PostsAtMostOne
  <2>5. QED  BY <2>1, <2>2, <2>3, <2>4 DEF HandleMessage
<1>4. QED  BY <1>1, <1>2, <1>3 DEF WorkerEffect

LEMMA ReturnsEffect ==
  ASSUME WorkerTyped, RuntimeInv, BackendReturns
  PROVE  WorkerEffect
<1>a. initialization.id \in Nat /\ generation.id \in Nat /\ disposing.requestId \in Nat
  BY DEF WorkerTyped, WorkerTypeOK, Operation
<1> USE DEF PhasesMatchState, NoInitialization, NoGeneration, NoDisposalRuns
<1>1. CASE BackendInitializeReturns
  <2>1. PICK ending : IF ending = "ready" THEN PublishReady ELSE UNCHANGED <<state, toClient>>
    BY <1>1 DEF BackendInitializeReturns
  <2>2. state \notin {"new", "ready", "generating"}
    BY <1>1 DEF BackendInitializeReturns, RuntimeInv
  <2>3. UNCHANGED <<published, toWorker>>
    BY <1>1 DEF BackendInitializeReturns
  <2>4. MovesState
    BY <2>1, <2>2 DEF MovesState, PublishReady
  <2>5. PostsAtMostOne
    <3>1. CASE ending = "ready"
      <4>1. PICK m \in WorkerMessage : Post(m) /\ m.type = "ready" /\ state' = "ready"
        BY <1>a, <2>1, <3>1, MessageTypes, MessageFields DEF PublishReady
      <4>2. QED  BY <4>1 DEF PostsAtMostOne
    <3>2. QED  BY <2>1, <3>1 DEF PostsAtMostOne
  <2>6. QED  BY <2>3, <2>4, <2>5 DEF WorkerEffect
<1>2. CASE BackendCleanupReturns
  <2>1. UNCHANGED <<published, toWorker>>
    BY <1>2 DEF BackendCleanupReturns
  <2>2. MovesState
    BY <1>2 DEF BackendCleanupReturns, MovesState, RuntimeInv
  <2>3. \/ toClient' = toClient
        \/ \E t \in {"initialization-cancelled", "error", "fatal-error"} :
             Post(RequestMessage(t, initialization.id))
    BY <1>2 DEF BackendCleanupReturns, ErrorTypes
  <2>4. PostsAtMostOne
    BY <1>a, <2>3, PostsPlain DEF PostsAtMostOne
  <2>5. QED  BY <2>1, <2>2, <2>4 DEF WorkerEffect
<1>3. CASE BackendGenerateReturns
  <2>1. toWorker' = toWorker /\ published \subseteq published'
    BY <1>3
    DEF BackendGenerateReturns, GenerateFails, GenerateSucceeds, PublishResult,
        ReleaseUnpublished
  <2>2. /\ state \in {"generating", "disposing"}
        /\ state' = state \/ (state = "generating" /\ state' = "ready")
    <3>1. generation.phase = "running" /\ (GenerateFails \/ GenerateSucceeds)
      BY <1>3 DEF BackendGenerateReturns
    <3>2. state \in {"generating", "disposing"}
      BY <3>1 DEF RuntimeInv, WorkerTyped, WorkerTypeOK, WorkerState
    <3>3. state' = state \/ EndGeneration
      BY <3>1 DEF GenerateFails, GenerateSucceeds, PublishResult, ReleaseUnpublished
    <3>4. QED  BY <3>2, <3>3 DEF EndGeneration
  <2>3. MovesState
    BY <2>2 DEF MovesState
  <2>4. \/ toClient' = toClient
        \/ \E t \in {"cancelled", "error", "fatal-error"} : Post(JobMessage(t, generation.id))
        \/ PublishResult
    BY <1>3
    DEF BackendGenerateReturns, GenerateFails, GenerateSucceeds, PostIfGenerating, ErrorTypes
  <2>5. CASE PublishResult
    <3>1. PICK m \in WorkerMessage :
             Post(m) /\ m.type = "result" /\ m.jobId \in published'
      BY <1>a, <2>5, MessageTypes, MessageFields DEF PublishResult
    <3>2. PostsAtMostOne
      BY <3>1 DEF PostsAtMostOne
    <3>3. QED  BY <2>1, <2>3, <3>2 DEF WorkerEffect
  <2>6. CASE ~PublishResult
    <3>1. PostsAtMostOne
      BY <1>a, <2>4, <2>6, PostsPlain DEF PostsAtMostOne
    <3>2. QED  BY <2>1, <2>3, <3>1 DEF WorkerEffect
  <2>7. QED  BY <2>5, <2>6
<1>4. CASE BackendReleaseReturns
  <2>1. UNCHANGED <<published, toWorker>>
    BY <1>4 DEF BackendReleaseReturns
  <2>2. MovesState
    BY <1>4 DEF BackendReleaseReturns, EndGeneration, MovesState, RuntimeInv
  <2>3. toClient' = toClient \/ Post(JobMessage("error", generation.id))
    BY <1>4 DEF BackendReleaseReturns, PostIfGenerating
  <2>4. PostsAtMostOne
    BY <1>a, <2>3, PostsPlain DEF PostsAtMostOne
  <2>5. QED  BY <2>1, <2>2, <2>4 DEF WorkerEffect
<1>5. CASE DisposeBackend
  BY <1>5 DEF DisposeBackend, channelVars, WorkerEffect, PostsAtMostOne, MovesState
<1>6. CASE BackendDisposeReturns
  <2>1. UNCHANGED <<published, toWorker>>
    BY <1>6 DEF BackendDisposeReturns
  <2>2. MovesState
    BY <1>6 DEF BackendDisposeReturns, MovesState, RuntimeInv
  <2>3. \E t \in {"disposed", "error"} : Post(RequestMessage(t, disposing.requestId))
    BY <1>6 DEF BackendDisposeReturns
  <2>4. PostsAtMostOne
    BY <1>a, <2>3, PostsPlain
  <2>5. QED  BY <2>1, <2>2, <2>4 DEF WorkerEffect
<1>7. QED  BY <1>1, <1>2, <1>3, <1>4, <1>5, <1>6 DEF BackendReturns

LEMMA WorkerStepEffect ==
  ASSUME WorkerTyped, RuntimeInv, WorkerNext
  PROVE  WorkerEffect
<1>1. CASE BackendRetriesCleanup \/ BackendOpensOutput
  BY <1>1
  DEF BackendRetriesCleanup, BackendOpensOutput, channelVars, runtimeVars, WorkerEffect,
      PostsAtMostOne, MovesState
<1>2. ASSUME NEW id \in OperationIds, InitializationCallback(id) \/ GenerationCallback(id)
      PROVE  WorkerEffect
  <2>1. UNCHANGED <<toWorker, state, published>> /\ id \in Nat
    BY <1>2, WorkerConstants DEF InitializationCallback, GenerationCallback
  <2>2. \/ toClient' = toClient
        \/ \E t \in {"initialization-progress", "diagnostic"} : Post(RequestMessage(t, id))
        \/ \E t \in {"generation-progress", "diagnostic"} : Post(JobMessage(t, id))
    BY <1>2 DEF InitializationCallback, GenerationCallback
  <2>3. PostsAtMostOne
    BY <2>1, <2>2, PostsPlain DEF PostsAtMostOne
  <2>4. QED  BY <2>1, <2>3 DEF WorkerEffect, MovesState
<1>3. QED  BY <1>1, <1>2, HandlersEffect, ReturnsEffect DEF WorkerNext

LEMMA WorkerKeepsPorts ==
  ASSUME ChannelTypeOK, PortsInv, WorkerEffect, worker # 0, UNCHANGED clientVars
  PROVE  PortsInv'
<1>1. toWorker \in Seq(ClientMessage) /\ toClient \in Seq(WorkerMessage)
  BY DEF ChannelTypeOK
<1>2. UNCHANGED <<worker, workerReady, disposePromise>>
  BY DEF clientVars
<1>3. InOrder(toWorker') /\ \A t : Queued(toWorker', t) => Queued(toWorker, t)
  <2>1. CASE toWorker' = toWorker
    BY <2>1 DEF PortsInv
  <2>2. CASE toWorker # <<>> /\ toWorker' = Tail(toWorker)
    <3>1. Head(toWorker) \in ClientMessage
      BY <1>1, <2>2
    <3>2. QED  BY <1>1, <2>2, <3>1, QueuedIn, InOrderKept DEF PortsInv
  <2>3. QED  BY <2>1, <2>2 DEF WorkerEffect
<1>4. \A t \in {"initialize", "generate", "dispose"} : Receive(t) =>
        /\ Queued(toWorker, t)
        /\ t # "generate" => ~Queued(toWorker', t)
  <2>1. SUFFICES ASSUME NEW t \in {"initialize", "generate", "dispose"}, Receive(t)
                 PROVE  Queued(toWorker, t) /\ (t # "generate" => ~Queued(toWorker', t))
    OBVIOUS
  <2>2. /\ Head(toWorker) \in ClientMessage /\ toWorker # <<>>
        /\ Head(toWorker).type = t /\ toWorker' = Tail(toWorker)
    BY <1>1, <2>1 DEF Receive, Incoming
  <2>3. Queued(toWorker, t)
    BY <1>1, <2>2, QueuedIn
  <2>4. t # "generate" => ~Queued(toWorker', t)
    BY <1>1, <2>2, InOrderKept DEF PortsInv
  <2>5. QED  BY <2>3, <2>4
<1>5. Queued(toClient', "ready") => Queued(toClient, "ready") \/ state' = "ready"
  <2>1. CASE toClient' = toClient
    BY <2>1
  <2>2. ASSUME NEW m \in WorkerMessage, Post(m), m.type = "ready" => state' = "ready"
        PROVE  Queued(toClient', "ready") => Queued(toClient, "ready") \/ state' = "ready"
    BY <1>1, <2>2, QueuedIn DEF Post
  <2>3. QED  BY <2>1, <2>2 DEF WorkerEffect, PostsAtMostOne
<1>6. Queued(toWorker', "initialize") => state' = "new"
  BY <1>3, <1>4 DEF WorkerEffect, MovesState, PortsInv
<1>7. Queued(toWorker', "dispose") => state' \in {"ready", "generating"}
  BY <1>3, <1>4 DEF WorkerEffect, MovesState, PortsInv
<1>8. Queued(toClient', "ready") => state' \notin {"new", "initializing"}
  BY <1>5 DEF WorkerEffect, MovesState, PortsInv
<1>9. Queued(toClient', "ready") /\ ~workerReady /\ ~Disposing => state' = "ready"
  BY <1>4, <1>5 DEF WorkerEffect, MovesState, PortsInv
<1>10. workerReady /\ ~Disposing => state' \in {"ready", "generating"}
  BY <1>4 DEF WorkerEffect, MovesState, PortsInv
<1>11. QED
  BY <1>2, <1>3, <1>6, <1>7, <1>8, <1>9, <1>10 DEF PortsInv, Disposing

\* The four ways a step of the client treats the ports.
LEMMA EmptyPortsKeep ==
  ASSUME toWorker' = <<>>, toClient' = <<>>, ~workerReady'
  PROVE  PortsInv'
BY QueuedIn, InOrderKept DEF PortsInv, Queued, InOrder

LEMMA FreshWorkerKeepsPorts ==
  ASSUME NEW m \in ClientMessage, m.type = "initialize", toWorker' = <<m>>,
         toClient' = <<>>, ~workerReady', ~Disposing', worker' # 0, state' = "new"
  PROVE  PortsInv'
<1>1. InOrder(toWorker') /\ \A t : Queued(toWorker', t) <=> m.type = t
  BY DEF InOrder, Queued
<1>2. \A t : ~Queued(toClient', t)
  BY DEF Queued
<1>3. QED  BY <1>1, <1>2 DEF PortsInv

LEMMA TakingQueuesNothing ==
  ASSUME ChannelTypeOK, Takes, NEW t
  PROVE  Queued(toClient', t) => Queued(toClient, t)
<1>1. toClient \in Seq(WorkerMessage)
  BY DEF ChannelTypeOK
<1>2. CASE toClient # <<>> /\ toClient' = Tail(toClient)
  <2>1. Head(toClient) \in WorkerMessage
    BY <1>1, <1>2
  <2>2. QED  BY <1>1, <1>2, <2>1, QueuedIn
<1>3. QED  BY <1>2 DEF Takes

LEMMA QuietKeepsPorts ==
  ASSUME ChannelTypeOK, PortsInv, Takes, UNCHANGED <<worker, toWorker, state>>,
         Disposing' <=> Disposing,
         (workerReady' <=> workerReady) \/ (Disposing /\ ~workerReady'),
         worker = 0 => toClient' = toClient
  PROVE  PortsInv'
<1>1. \A t : Queued(toClient', t) => Queued(toClient, t)
  BY TakingQueuesNothing
<1>2. \A t : Queued(toWorker', t) <=> Queued(toWorker, t)
  BY DEF Queued
<1>3. InOrder(toWorker')
  BY DEF PortsInv, InOrder
<1>4. worker' = worker /\ toWorker' = toWorker /\ state' = state
  OBVIOUS
<1>5. CASE workerReady' <=> workerReady
  BY <1>1, <1>2, <1>3, <1>4, <1>5 DEF PortsInv
<1>6. CASE Disposing /\ ~workerReady'
  BY <1>1, <1>2, <1>3, <1>4, <1>6 DEF PortsInv
<1>7. QED  BY <1>5, <1>6

LEMMA SendingKeepsPorts ==
  ASSUME ChannelTypeOK, PortsInv, Takes, NEW m \in ClientMessage, m.type # "initialize",
         toWorker' = Append(toWorker, m), UNCHANGED <<worker, state>>, worker # 0,
         ~Disposing, m.type = "dispose" <=> Disposing',
         m.type = "generate" => workerReady', workerReady => workerReady',
         workerReady' /\ ~workerReady => Queued(toClient, "ready"),
         Disposing' => workerReady
  PROVE  PortsInv'
<1>1. toWorker \in Seq(ClientMessage)
  BY DEF ChannelTypeOK
<1>2. \A t : Queued(toClient', t) => Queued(toClient, t)
  BY TakingQueuesNothing
<1>3. \A t : Queued(toWorker', t) <=> Queued(toWorker, t) \/ m.type = t
  BY <1>1, QueuedIn
<1>4. ~Queued(toWorker, "dispose")
  BY DEF PortsInv
<1>5. InOrder(toWorker')
  BY <1>1, <1>4, InOrderKept DEF PortsInv
<1>6. QED  BY <1>2, <1>3, <1>4, <1>5, Zenon DEF PortsInv

LEMMA DroppingKeepsPorts ==
  ASSUME NEW others, NEW result, DropWorkerAnd(others) \/ DropWorker \/ ResetWorker(result)
  PROVE  PortsInv'
BY EmptyPortsKeep DEF ResetWorker, DropWorker, DropWorkerAnd

LEMMA SameWorkerSameState ==
  ASSUME WorkerFollows, worker' = worker
  PROVE  state' = state
BY DEF WorkerFollows, workerVars, runtimeVars

LEMMA PageKeepsPorts ==
  ASSUME SessionInv, PortsInv, Page, WorkerFollows
  PROVE  PortsInv'
<1> USE DEF SessionInv, SessionTypeOK
<1>a. nextJobId \in Nat /\ nextRequestId \in Nat /\ active.initReq \in Nat /\ active.job \in Nat
  BY DEF ClientTypeOK
<1>1. ASSUME NEW o \in Operations, Generate(o)  PROVE PortsInv'
  <2>1. /\ UNCHANGED <<toClient, worker, workerReady, disposePromise>>
        /\ Takes /\ ~Disposing /\ ~Disposing'
    BY <1>1 DEF Generate, Takes, Disposing
  <2>2. state' = state
    BY <2>1, SameWorkerSameState
  <2>3. CASE workerReady /\ worker # 0
    <3>1. PICK m \in ClientMessage : m.type = "generate" /\ toWorker' = Append(toWorker, m)
      BY <1>1, <1>a, <2>3, ClientMessageTypes, MessageFields
      DEF Generate, StartGeneration, PostToWorker
    <3>2. QED  BY <2>1, <2>2, <2>3, <3>1, SendingKeepsPorts
  <2>4. CASE ~(workerReady /\ worker # 0)
    <3>1. toWorker' = toWorker
      BY <1>1, <2>4 DEF Generate
    <3>2. QED  BY <2>1, <2>2, <3>1, QuietKeepsPorts
  <2>5. QED  BY <2>3, <2>4
<1>2. CASE Cancel
  <2>1. CASE cacheAcquisition # 0
    BY <1>2, <2>1, DroppingKeepsPorts DEF Cancel
  <2>2. CASE cacheAcquisition = 0
    <3>1. /\ worker # 0 /\ UNCHANGED <<toClient, worker, workerReady, disposePromise>>
          /\ Takes /\ ~Disposing /\ ~Disposing'
      BY <1>2, <2>2 DEF Cancel, CancelWorker, Takes, ClientInv, DisposeInv, Disposing
    <3>2. state' = state
      BY <3>1, SameWorkerSameState
    <3>3. PICK m \in ClientMessage : /\ m.type \in {"cancel-initialization", "cancel"}
                                     /\ toWorker' = Append(toWorker, m)
      BY <1>2, <1>a, <2>2, ClientMessageTypes, MessageFields
      DEF Cancel, CancelWorker, PostToWorker
    <3>4. QED  BY <3>1, <3>2, <3>3, SendingKeepsPorts
  <2>3. QED  BY <2>1, <2>2
<1>3. CASE Terminate
  BY <1>3, DroppingKeepsPorts DEF Terminate
<1>4. CASE Dispose /\ OrderlyDisposal
  <2>1. /\ worker # 0 /\ workerReady /\ ~Disposing /\ Disposing'
        /\ UNCHANGED <<toClient, worker, workerReady>> /\ Takes
    BY <1>4 DEF Dispose, OrderlyDisposal, Disposing, Takes
  <2>2. state' = state
    BY <2>1, SameWorkerSameState
  <2>3. \/ toWorker' = toWorker
        \/ toWorker' = Append(toWorker, RequestMessage("dispose", nextRequestId))
    BY <1>4 DEF Dispose, PostToWorker
  <2>4. CASE toWorker' = toWorker
    <3>1. toClient' = toClient
      BY <2>1
    <3>2. QED  BY <2>1, <2>2, <2>4, <3>1 DEF PortsInv, Queued, InOrder
  <2>5. ASSUME NEW m \in ClientMessage, m.type = "dispose", toWorker' = Append(toWorker, m)
        PROVE  PortsInv'
    BY <2>1, <2>2, <2>5, SendingKeepsPorts
  <2>6. QED  BY <1>a, <2>3, <2>4, <2>5, ClientMessageTypes, MessageFields
<1>5. CASE Dispose /\ ~OrderlyDisposal /\ worker # 0
  BY <1>5, DroppingKeepsPorts DEF Dispose
<1>6. CASE Dispose /\ ~OrderlyDisposal /\ worker = 0
  BY <1>6, EmptyPortsKeep DEF Dispose, channelVars, PortsInv
<1>7. QED  BY <1>1, <1>2, <1>3, <1>4, <1>5, <1>6 DEF Page

LEMMA ContinuationKeepsPorts ==
  ASSUME SessionInv, PortsInv, Continuation, WorkerFollows
  PROVE  PortsInv'
<1> USE DEF SessionInv, SessionTypeOK
<1>a. disposePromise \in DisposeType /\ nextRequestId \in Nat /\ budget.workers \in Nat
  BY DEF ClientTypeOK, DisposeType
<1>1. ASSUME UNCHANGED <<channelVars, worker, workerReady>>, Disposing' <=> Disposing
      PROVE  PortsInv'
  <2>1. state' = state /\ Takes
    BY <1>1, SameWorkerSameState DEF channelVars, Takes
  <2>2. QED  BY <1>1, <2>1, QuietKeepsPorts DEF channelVars
<1>2. CASE DisposalTimesOut
  BY <1>1, <1>2, <1>a, DisposeFields DEF DisposalTimesOut, SettledDispose, Disposing
<1>3. CASE DisposeFinishes /\ worker = disposePromise.worker
  BY <1>3, DroppingKeepsPorts DEF DisposeFinishes, TerminatesItsWorker
<1>4. CASE DisposeFinishes /\ worker # disposePromise.worker
  <2>1. worker = 0
    BY <1>4 DEF DisposeFinishes, ClientInv, DisposeInv, Disposing
  <2>2. QED
    BY <1>4, <2>1, EmptyPortsKeep
    DEF DisposeFinishes, TerminatesItsWorker, channelVars, PortsInv
<1>5. CASE DisposeSettles
  BY <1>5, EmptyPortsKeep
  DEF DisposeSettles, ClientInv, DisposeInv, channelVars, PortsInv
<1>6. ASSUME NEW o \in Operations, LeaseGranted(o)  PROVE PortsInv'
  BY <1>1, <1>6 DEF LeaseGranted, Disposing
<1>7. ASSUME NEW o \in Operations, Superseded(o), AcquisitionReturns(o) \/ AcquisitionFails(o)
      PROVE  PortsInv'
  BY <1>1, <1>7 DEF AcquisitionReturns, AcquisitionFails, Disposing
<1>8. ASSUME NEW o \in Operations, ~Superseded(o), AcquisitionReturns(o)  PROVE PortsInv'
  <2>1. StartWorker(o) /\ o \in acquiring /\ active.op = o
    BY <1>8 DEF AcquisitionReturns, Superseded
  <2>2. Busy /\ o # 0
    BY <2>1, RecordTypes DEF Busy
  <2>3. worker = 0 /\ ~Disposing
    BY <2>1, <2>2 DEF ClientInv, AcquisitionInv, DisposeInv
  <2>4. worker' # 0 /\ ~workerReady' /\ ~Disposing' /\ toClient' = <<>>
    BY <1>a, <2>1, <2>3 DEF StartWorker, Disposing
  <2>5. state' = "new"
    BY <2>3, <2>4 DEF WorkerFollows, WorkerRestarts
  <2>6. PICK m \in ClientMessage : m.type = "initialize" /\ toWorker' = <<m>>
    BY <1>a, <2>1, ClientMessageTypes, MessageFields DEF StartWorker
  <2>7. QED  BY <2>4, <2>5, <2>6, FreshWorkerKeepsPorts
<1>9. ASSUME NEW o \in Operations, ~Superseded(o), AcquisitionFails(o)  PROVE PortsInv'
  BY <1>9, DroppingKeepsPorts DEF AcquisitionFails
<1>10. QED
  BY <1>2, <1>3, <1>4, <1>5, <1>6, <1>7, <1>8, <1>9 DEF Continuation

LEMMA MessagesKeepPorts ==
  ASSUME SessionInv, PortsInv, OnMessage \/ OnWorkerError, WorkerFollows
  PROVE  PortsInv'
<1> USE DEF SessionInv, SessionTypeOK
<1>a. disposePromise \in DisposeType /\ nextJobId \in Nat
  BY DEF ClientTypeOK, DisposeType
<1>1. ASSUME toClient # <<>>, toClient' = Tail(toClient), UNCHANGED <<toWorker, worker>>,
             Disposing' <=> Disposing,
             (workerReady' <=> workerReady) \/ (Disposing /\ ~workerReady'), worker # 0
      PROVE  PortsInv'
  <2>1. state' = state /\ Takes
    BY <1>1, SameWorkerSameState DEF Takes
  <2>2. QED  BY <1>1, <2>1, QuietKeepsPorts
<1>2. CASE OnIgnored
  BY <1>1, <1>2 DEF OnIgnored, Ignored, Arrived, clientVars, Disposing
<1>3. CASE OnReady
  <2>1. toClient # <<>> /\ Head(toClient).type = "ready" /\ worker # 0
        /\ active.initReq # NoId
    BY <1>3 DEF OnReady, Arrived, Ignored, Correlates
  <2>2. ~workerReady /\ ~Disposing
    BY <2>1, ActiveFields DEF ClientInv, ActiveInv, AcquisitionInv, DisposeInv, Busy
  <2>3. Queued(toClient, "ready")
    <3>1. toClient \in Seq(WorkerMessage) /\ Head(toClient) \in WorkerMessage
      BY <2>1 DEF ChannelTypeOK
    <3>2. QED  BY <2>1, <3>1, QueuedIn
  <2>4. UNCHANGED worker /\ workerReady' /\ ~Disposing' /\ Takes
    BY <1>3, <2>1, <2>2 DEF OnReady, Disposing, Takes
  <2>5. state' = state /\ state = "ready"
    BY <2>2, <2>3, <2>4, SameWorkerSameState DEF PortsInv
  <2>6. CASE active.cancelRequested
    <3>1. toWorker' = toWorker /\ \A t : Queued(toClient', t) => Queued(toClient, t)
      BY <1>3, <2>4, <2>6, TakingQueuesNothing DEF OnReady
    <3>2. InOrder(toWorker') /\ \A t : Queued(toWorker', t) <=> Queued(toWorker, t)
      BY <3>1 DEF PortsInv, InOrder, Queued
    <3>3. QED  BY <2>1, <2>2, <2>4, <2>5, <3>1, <3>2 DEF PortsInv
  <2>7. CASE ~active.cancelRequested
    <3>1. PICK m \in ClientMessage : m.type = "generate" /\ toWorker' = Append(toWorker, m)
      BY <1>3, <1>a, <2>7, ClientMessageTypes, MessageFields
      DEF OnReady, StartGeneration, PostToWorker
    <3>2. QED
      BY <2>1, <2>2, <2>3, <2>4, <2>5, <3>1, SendingKeepsPorts
  <2>8. QED  BY <2>6, <2>7
<1>4. CASE OnInitializationCancelled
  BY <1>4, DroppingKeepsPorts DEF OnInitializationCancelled
<1>5. CASE OnOutcome \/ OnDiagnostic
  BY <1>1, <1>5 DEF OnOutcome, OnDiagnostic, Arrived, Disposing
<1>6. CASE OnDisposed
  <2>1. Disposing' <=> Disposing
    BY <1>6, <1>a, DisposeFields DEF OnDisposed, SettledDispose, Disposing
  <2>2. Disposing
    BY <1>6 DEF OnDisposed, Ignored, Arrived, Correlates, ClientInv, DisposeInv
  <2>3. QED  BY <1>1, <1>6, <2>1, <2>2 DEF OnDisposed, Arrived
<1>7. CASE OnDisposalError \/ (OnError /\ FailKeepingWorker)
  <2>1. SameDisposal
    BY <1>7, RejectKeepsDisposal DEF OnDisposalError, FailKeepingWorker
  <2>2. /\ toClient # <<>> /\ toClient' = Tail(toClient) /\ worker # 0
        /\ UNCHANGED <<toWorker, worker, workerReady>>
    <3>1. CASE OnDisposalError
      BY <3>1 DEF OnDisposalError, Arrived
    <3>2. CASE OnError /\ FailKeepingWorker /\ toClient' = Tail(toClient)
               /\ toWorker' = toWorker
      BY <3>2 DEF OnError, FailKeepingWorker, Arrived
    <3>3. CASE OnError /\ ResetWorker("failed") /\ FailKeepingWorker
      <4>1. worker' = 0 /\ worker' = worker /\ worker # 0
        BY <3>3 DEF OnError, Arrived, ResetWorker, DropWorker, DropWorkerAnd,
                    FailKeepingWorker
      <4>2. QED  BY <4>1
    <3>4. QED  BY <1>7, <3>1, <3>2, <3>3 DEF OnError
  <2>3. QED  BY <1>1, <2>1, <2>2 DEF SameDisposal, Disposing
<1>8. CASE (OnError \/ OnWorkerError) /\ ResetWorker("failed")
  BY <1>8, DroppingKeepsPorts
<1>9. QED
  BY <1>2, <1>3, <1>4, <1>5, <1>6, <1>7, <1>8 DEF OnMessage, OnError, OnWorkerError

-----------------------------------------------------------------------------
(* A result is told apart from that of an earlier job by its id alone.      *)

QueuedResults(s, jobs) ==
  \A i \in 1..Len(s) : s[i].type = "result" => s[i].jobId \in jobs

LEMMA QueuedResultsKept ==
  ASSUME NEW S, NEW s \in Seq(S), NEW m \in S, NEW jobs, NEW more, jobs \subseteq more,
         QueuedResults(s, jobs)
  PROVE  /\ QueuedResults(s, more) /\ QueuedResults(<<>>, jobs)
         /\ (m.type = "result" => m.jobId \in more) => QueuedResults(Append(s, m), more)
         /\ s # <<>> => /\ QueuedResults(Tail(s), jobs)
                        /\ Head(s).type = "result" => Head(s).jobId \in jobs
<1>1. QueuedResults(s, more) /\ QueuedResults(<<>>, jobs)
  BY DEF QueuedResults
<1>2. ASSUME m.type = "result" => m.jobId \in more
      PROVE  QueuedResults(Append(s, m), more)
  <2>1. /\ Len(Append(s, m)) = Len(s) + 1 /\ Len(s) \in Nat
        /\ Append(s, m)[Len(s) + 1] = m
        /\ \A i \in 1..Len(s) : Append(s, m)[i] = s[i]
    OBVIOUS
  <2>2. \A i \in 1..(Len(s) + 1) : i \in 1..Len(s) \/ i = Len(s) + 1
    BY <2>1
  <2>3. QED  BY <1>1, <1>2, <2>1, <2>2, Zenon DEF QueuedResults
<1>3. ASSUME s # <<>>
      PROVE  /\ QueuedResults(Tail(s), jobs)
             /\ Head(s).type = "result" => Head(s).jobId \in jobs
  <2>1. /\ Len(s) \in Nat \ {0} /\ 1 \in 1..Len(s) /\ Head(s) = s[1]
        /\ Len(Tail(s)) = Len(s) - 1
        /\ \A i \in 1..(Len(s) - 1) : Tail(s)[i] = s[i + 1] /\ i + 1 \in 1..Len(s)
    BY <1>3
  <2>2. QED  BY <2>1, Zenon DEF QueuedResults
<1>4. QED  BY <1>1, <1>2, <1>3

LEMMA WorkerKeepsResults ==
  ASSUME ChannelTypeOK, ResultsInv, WorkerEffect, UNCHANGED clientVars
  PROVE  ResultsInv'
<1>1. toClient \in Seq(WorkerMessage) /\ QueuedResults(toClient, published)
      /\ published \subseteq published'
  BY DEF ChannelTypeOK, ResultsInv, QueuedResults, WorkerEffect
<1>2. QueuedResults(toClient', published')
  <2>1. CASE toClient' = toClient
    BY <1>1, <2>1 DEF QueuedResults
  <2>2. ASSUME NEW m \in WorkerMessage, Post(m),
               m.type = "result" => m.jobId \in published'
        PROVE  QueuedResults(toClient', published')
    BY <1>1, <2>2, QueuedResultsKept DEF Post
  <2>3. QED  BY <2>1, <2>2 DEF WorkerEffect, PostsAtMostOne
<1>3. ResolvedWithOwnJob'
  BY <1>1 DEF ResultsInv, ResolvedWithOwnJob, clientVars
<1>4. QED  BY <1>2, <1>3 DEF ResultsInv, QueuedResults, clientVars

\* A step of the client that starts no job: promises resolve only with the
\* result that has come.
KeepsJobs ==
  /\ jobOf' = jobOf
  /\ active'.job # NoId => active'.job = active.job /\ active'.op = active.op
  /\ \A o \in Operations : outcome'[o] = "resolved" =>
       \/ outcome[o] = "resolved"
       \/ o = active.op /\ jobOf[o] \in published

\* A step that starts the job of a pending operation.
StartsJob ==
  /\ active'.op \in Operations
  /\ jobOf' = [jobOf EXCEPT ![active'.op] = active'.job]
  /\ outcome'[active'.op] # "resolved"
  /\ \A o \in Operations : outcome'[o] = "resolved" => outcome[o] = "resolved"

LEMMA SettlingKeepsJobs ==
  ASSUME ClientTypeOK, NEW result \in {"resolved", "aborted", "failed"},
         SettleActive(result), jobOf' = jobOf,
         result = "resolved" => jobOf[active.op] \in published
  PROVE  KeepsJobs
<1>1. active' = NoActive /\ NoActive.job = NoId
  BY ActiveFields DEF SettleActive
<1>2. \A o \in Operations :
        outcome'[o] = IF Busy /\ o = active.op THEN result ELSE outcome[o]
  BY DEF SettleActive, ClientTypeOK
<1>3. QED  BY <1>1, <1>2 DEF KeepsJobs

LEMMA StartingStartsJob ==
  ASSUME ClientTypeOK, NEW o \in Operations, StartGeneration(o), outcome'[o] = "pending",
         \A p \in Operations : outcome'[p] = "resolved" => outcome[p] = "resolved"
  PROVE  StartsJob
<1>1. active'.op = o /\ active'.job = nextJobId
  BY DEF StartGeneration
<1>2. QED  BY <1>1 DEF StartGeneration, StartsJob

LEMMA PageKeepsJobs ==
  ASSUME SessionInv, Page
  PROVE  KeepsJobs \/ StartsJob
<1> USE DEF SessionInv, SessionTypeOK
<1>1. ASSUME NEW o \in Operations, Generate(o)  PROVE KeepsJobs \/ StartsJob
  <2>1. /\ outcome'[o] = "pending"
        /\ \A p \in Operations : outcome'[p] = "resolved" => outcome[p] = "resolved"
    BY <1>1 DEF Generate, ClientTypeOK
  <2>2. CASE workerReady /\ worker # 0
    BY <1>1, <2>1, <2>2, StartingStartsJob DEF Generate
  <2>3. CASE ~(workerReady /\ worker # 0)
    <3>1. active'.job = NoId /\ jobOf' = jobOf
      BY <1>1, <2>3, ActiveFields DEF Generate
    <3>2. QED  BY <2>1, <3>1 DEF KeepsJobs
  <2>4. QED  BY <2>2, <2>3
<1>2. CASE (Cancel /\ ResetWorker("aborted")) \/ Terminate \/ Dispose
  <2>1. SettleActive("aborted") /\ jobOf' = jobOf
    BY <1>2 DEF Cancel, Terminate, Dispose, ResetWorker, callVars
  <2>2. QED  BY <2>1, SettlingKeepsJobs
<1>3. CASE Cancel /\ CancelWorker
  <2>1. active'.job = active.job /\ active'.op = active.op
    BY <1>3 DEF CancelWorker, ClientTypeOK
  <2>2. outcome' = outcome /\ jobOf' = jobOf
    BY <1>3 DEF Cancel, CancelWorker, callVars
  <2>3. QED  BY <2>1, <2>2 DEF KeepsJobs
<1>4. QED  BY <1>1, <1>2, <1>3 DEF Page, Cancel

LEMMA ContinuationKeepsJobs ==
  ASSUME SessionInv, Continuation
  PROVE  KeepsJobs
<1> USE DEF SessionInv, SessionTypeOK
<1>1. ASSUME UNCHANGED <<active, outcome, jobOf>>  PROVE KeepsJobs
  BY <1>1 DEF KeepsJobs
<1>2. CASE DisposalTimesOut \/ DisposeFinishes \/ DisposeSettles
  BY <1>1, <1>2 DEF DisposalTimesOut, DisposeFinishes, DisposeSettles, callVars
<1>3. ASSUME NEW o \in Operations, LeaseGranted(o)  PROVE KeepsJobs
  BY <1>1, <1>3 DEF LeaseGranted, callVars
<1>4. ASSUME NEW o \in Operations, Superseded(o), AcquisitionReturns(o) \/ AcquisitionFails(o)
      PROVE  KeepsJobs
  BY <1>1, <1>4 DEF AcquisitionReturns, AcquisitionFails
<1>5. ASSUME NEW o \in Operations, ~Superseded(o), AcquisitionReturns(o)  PROVE KeepsJobs
  <2>1. outcome' = outcome /\ jobOf' = jobOf
    BY <1>5 DEF AcquisitionReturns, StartWorker
  <2>2. active'.job = active.job /\ active'.op = active.op
    BY <1>5 DEF AcquisitionReturns, StartWorker, ClientTypeOK
  <2>3. QED  BY <2>1, <2>2 DEF KeepsJobs
<1>6. ASSUME NEW o \in Operations, ~Superseded(o), AcquisitionFails(o)  PROVE KeepsJobs
  BY <1>6, SettlingKeepsJobs DEF AcquisitionFails
<1>7. QED  BY <1>2, <1>3, <1>4, <1>5, <1>6 DEF Continuation

LEMMA MessagesKeepJobs ==
  ASSUME SessionInv, ResultsInv, OnMessage \/ OnWorkerError
  PROVE  KeepsJobs \/ StartsJob
<1> USE DEF SessionInv, SessionTypeOK
<1>1. CASE OnIgnored \/ OnDiagnostic \/ OnDisposed \/ OnDisposalError
  <2>1. UNCHANGED <<active, outcome, jobOf>>
    BY <1>1 DEF OnIgnored, OnDiagnostic, OnDisposed, OnDisposalError, clientVars, callVars
  <2>2. QED  BY <2>1 DEF KeepsJobs
<1>2. CASE OnReady /\ active.cancelRequested
  BY <1>2, SettlingKeepsJobs DEF OnReady
<1>3. CASE OnReady /\ ~active.cancelRequested
  <2>1. Busy /\ active.op \in Operations
    BY <1>3, ActiveFields
    DEF OnReady, Ignored, Arrived, Correlates, ClientInv, ActiveInv, Busy, ClientTypeOK
  <2>2. outcome[active.op] = "pending"
    BY <2>1 DEF ClientInv, OutcomeInv
  <2>3. QED  BY <1>3, <2>1, <2>2, StartingStartsJob DEF OnReady
<1>4. CASE OnOutcome
  <2>1. /\ toClient # <<>> /\ jobOf' = jobOf
        /\ Head(toClient).jobId = active.job /\ active.job # NoId
        /\ SettleActive(IF Head(toClient).type = "result" THEN "resolved" ELSE "aborted")
    BY <1>4 DEF OnOutcome, Arrived, Ignored, Correlates, Message, callVars
  <2>2. Head(toClient).type = "result" => jobOf[active.op] \in published
    <3>1. toClient \in Seq(WorkerMessage) /\ Head(toClient) \in WorkerMessage
      BY <2>1 DEF ChannelTypeOK
    <3>2. QueuedResults(toClient, published)
      BY DEF ResultsInv, QueuedResults
    <3>3. Head(toClient).type = "result" => Head(toClient).jobId \in published
      BY <2>1, <3>1, <3>2, QueuedResultsKept
    <3>4. QED  BY <2>1, <3>3 DEF ResultsInv
  <2>3. QED  BY <2>1, <2>2, SettlingKeepsJobs
<1>5. CASE OnInitializationCancelled \/ OnError \/ OnWorkerError
  <2>1. SettleActive("aborted") \/ SettleActive("failed")
    BY <1>5
    DEF OnInitializationCancelled, OnError, OnWorkerError, ResetWorker, FailKeepingWorker
  <2>2. jobOf' = jobOf
    BY <1>5 DEF OnInitializationCancelled, OnError, OnWorkerError, callVars
  <2>3. QED  BY <2>1, <2>2, SettlingKeepsJobs
<1>6. QED  BY <1>1, <1>2, <1>3, <1>4, <1>5 DEF OnMessage

LEMMA ClientKeepsResults ==
  ASSUME SessionInv, ResultsInv, Page \/ Continuation \/ OnMessage \/ OnWorkerError,
         WorkerFollows
  PROVE  ResultsInv'
<1>1. published' = published
  BY DEF WorkerFollows, WorkerRestarts, workerVars, runtimeVars
<1>2. toClient \in Seq(WorkerMessage) /\ QueuedResults(toClient, published)
  BY DEF SessionInv, SessionTypeOK, ChannelTypeOK, ResultsInv, QueuedResults
<1>3. QueuedResults(toClient', published')
  <2>1. CASE toClient' = toClient
    BY <1>1, <1>2, <2>1 DEF QueuedResults
  <2>2. CASE toClient' = <<>>
    BY <2>2 DEF QueuedResults
  <2>3. CASE toClient # <<>> /\ toClient' = Tail(toClient)
    <3>1. Head(toClient) \in WorkerMessage
      BY <1>2, <2>3
    <3>2. QED  BY <1>1, <1>2, <2>3, <3>1, QueuedResultsKept
  <2>4. QED  BY <2>1, <2>2, <2>3, ClientTakes DEF Takes
<1>4. (active'.job # NoId => jobOf'[active'.op] = active'.job) /\ ResolvedWithOwnJob'
  <2>1. CASE KeepsJobs
    BY <1>1, <2>1 DEF KeepsJobs, ResultsInv, ResolvedWithOwnJob
  <2>2. CASE StartsJob
    <3>1. \A o \in Operations :
            jobOf'[o] = IF o = active'.op THEN active'.job ELSE jobOf[o]
      BY <2>2 DEF StartsJob, SessionInv, SessionTypeOK, ClientTypeOK
    <3>2. QED  BY <1>1, <2>2, <3>1 DEF StartsJob, ResultsInv, ResolvedWithOwnJob
  <2>3. QED  BY <2>1, <2>2, PageKeepsJobs, ContinuationKeepsJobs, MessagesKeepJobs
<1>5. QED  BY <1>3, <1>4 DEF ResultsInv, QueuedResults

-----------------------------------------------------------------------------
(* The whole session: its own invariant, the ports and the results.         *)

ExchangeInv == SessionInv /\ PortsInv /\ ResultsInv

LEMMA ExchangeInitEstablishes == SessionInit => ExchangeInv
<1> SUFFICES ASSUME SessionInit  PROVE PortsInv /\ ResultsInv
  BY SessionInitEstablishes DEF ExchangeInv
<1>1. /\ toWorker = <<>> /\ toClient = <<>> /\ ~workerReady
      /\ active = NoActive /\ \A o \in Operations : outcome[o] = "none"
  BY DEF SessionInit, ChannelInit, ClientInit
<1>2. PortsInv
  BY <1>1 DEF PortsInv, Queued, InOrder
<1>3. ResultsInv
  BY <1>1, ActiveFields DEF ResultsInv, ResolvedWithOwnJob
<1>4. QED  BY <1>2, <1>3

LEMMA ExchangeStepKeepsInv == ExchangeInv /\ [SessionNext]_sessionVars => ExchangeInv'
<1> SUFFICES ASSUME ExchangeInv, [SessionNext]_sessionVars  PROVE PortsInv' /\ ResultsInv'
  BY SessionStepKeepsInv DEF ExchangeInv
<1> USE DEF ExchangeInv
<1>1. CASE (Page \/ Continuation \/ OnMessage \/ OnWorkerError) /\ WorkerFollows
  BY <1>1, PageKeepsPorts, ContinuationKeepsPorts, MessagesKeepPorts, ClientKeepsResults
<1>2. CASE WorkerStep(WorkerNext)
  <2>1. WorkerEffect /\ worker # 0 /\ UNCHANGED clientVars
    BY <1>2, WorkerStepEffect DEF WorkerStep, SessionInv, SessionTypeOK, WorkerTyped
  <2>2. QED
    BY <2>1, WorkerKeepsPorts, WorkerKeepsResults DEF SessionInv, SessionTypeOK
<1>3. CASE UNCHANGED sessionVars
  BY <1>3
  DEF sessionVars, channelVars, clientVars, workerVars, runtimeVars, PortsInv, Queued, InOrder,
      Disposing, ResultsInv, ResolvedWithOwnJob
<1>4. QED  BY <1>1, <1>2, <1>3 DEF SessionNext, ClientStep

LEMMA ExchangeInvariant == HungWorkerSpec => []ExchangeInv
BY ExchangeInitEstablishes, ExchangeStepKeepsInv, PTL DEF HungWorkerSpec

(* The client never makes the runtime refuse and its view of the worker is  *)
(* never ahead of it, however messages, cancels, disposals, errors and      *)
(* restarts of the worker interleave.                                       *)
THEOREM ClientNeverOutruns == HungWorkerSpec => []ClientKeepsProtocol
<1>1. ExchangeInv => ClientKeepsProtocol
  BY DEF ExchangeInv, PortsInv, InOrder, Queued, Disposing, ClientKeepsProtocol
<1>2. QED  BY <1>1, ExchangeInvariant, PTL

(* A promise that resolved did so with a result of its own job, which the   *)
(* worker published: never with one left over from a job before it.         *)
THEOREM ResolvesWithOwnJob == HungWorkerSpec => []ResolvedWithOwnJob
<1>1. ExchangeInv => ResolvedWithOwnJob
  BY DEF ExchangeInv, ResultsInv
<1>2. QED  BY <1>1, ExchangeInvariant, PTL

-----------------------------------------------------------------------------
(* The session implements MusicService.  What has to be shown is that an    *)
(* abort is always one the page asked for: a cancel travels to the worker   *)
(* and its answer back, and either may arrive when another operation is     *)
(* active.                                                                  *)

\* An id that correlates is that of an operation the page stopped.
NamesStopped(id, expected) == Correlates(id, expected) => active.op \in stopped

StopMessage ==
  {m \in ClientMessage :
     /\ m.jobId < nextJobId
     /\ m.type = "cancel-initialization" => NamesStopped(m.requestId, active.initReq)
     /\ m.type = "cancel" => NamesStopped(m.jobId, active.job)}

StopReport ==
  {m \in WorkerMessage :
     /\ m.jobId < nextJobId
     /\ m.type = "initialization-cancelled" => NamesStopped(m.requestId, active.initReq)
     /\ m.type = "cancelled" => NamesStopped(m.jobId, active.job)}

\* The worker's operations are aborted for a stopped operation, or for a
\* callback it rejected, which it reports as an error.
WorkerStops ==
  /\ generation.id < nextJobId
  /\ initialization.phase = "running" /\ initialization.aborted
       /\ ~initialization.callbackError =>
       NamesStopped(initialization.id, active.initReq)
  /\ initialization.phase = "cleanup" /\ initialization.terminal = "cancelled" =>
       NamesStopped(initialization.id, active.initReq)
  /\ generation.phase = "running" /\ generation.aborted /\ ~generation.callbackError =>
       NamesStopped(generation.id, active.job)

StopsInv ==
  /\ active.cancelRequested => active.op \in stopped
  /\ active.job < nextJobId
  /\ toWorker \in Seq(StopMessage)
  /\ toClient \in Seq(StopReport)
  /\ WorkerStops

LEMMA SequenceGrows ==
  ASSUME NEW S, NEW T, S \subseteq T, NEW s \in Seq(S)
  PROVE  s \in Seq(T)
OBVIOUS

LEMMA StopReports ==
  ASSUME ClientTypeOK, NEW n \in Nat
  PROVE  /\ \A t \in {"initialization-progress", "ready", "diagnostic", "disposed", "error",
                      "fatal-error"} : RequestMessage(t, n) \in StopReport
         /\ NamesStopped(n, active.initReq) =>
              RequestMessage("initialization-cancelled", n) \in StopReport
         /\ n < nextJobId =>
              \A t \in {"generation-progress", "diagnostic", "result", "error", "fatal-error"} :
                JobMessage(t, n) \in StopReport
         /\ n < nextJobId /\ NamesStopped(n, active.job) =>
              JobMessage("cancelled", n) \in StopReport
<1>1. 0 < nextJobId
  BY DEF ClientTypeOK
<1>2. \A t : RequestMessage(t, n).jobId = 0 /\ RequestMessage(t, n).requestId = n
             /\ RequestMessage(t, n).type = t
             /\ JobMessage(t, n).jobId = n /\ JobMessage(t, n).type = t
  BY DEF RequestMessage, JobMessage, NoId
<1>3. QED  BY <1>1, <1>2, MessageTypes DEF StopReport

ReportsStop == toClient' = toClient \/ \E m \in StopReport : Post(m)

LEMMA HandlersKeepStops ==
  ASSUME SessionInv, PortsInv, StopsInv, HandleMessage, UNCHANGED clientVars
  PROVE  ReportsStop /\ WorkerStops'
<1> USE DEF SessionInv, SessionTypeOK
<1>1. \A id, expected : NamesStopped(id, expected) <=> NamesStopped(id, expected)'
  BY DEF NamesStopped, clientVars
<1>2. UNCHANGED <<active, nextJobId>>
  BY DEF clientVars
<1>3. toWorker # <<>>
  BY DEF HandleMessage, HandleInitialize, HandleCancelInitialization, HandleGenerate,
         HandleCancel, HandleDispose, Receive
<1>4. Incoming \in StopMessage
  BY <1>3 DEF StopsInv, Incoming
<1>5. Incoming.requestId \in Nat /\ Incoming.jobId \in Nat /\ Incoming.jobId < nextJobId
  BY <1>4 DEF StopMessage, ClientMessage
<1>6. /\ initialization \in Operation({"none", "running", "cleanup"})
      /\ generation \in Operation({"none", "running", "releasing"})
  BY DEF WorkerTypeOK
<1>7. CASE HandleInitialize
  <2>1. ReportsStop
    BY <1>5, <1>7, StopReports DEF HandleInitialize, ReportsStop
  <2>2. generation' = generation
    BY <1>7 DEF HandleInitialize
  <2>3. CASE initialization' = initialization
    BY <1>1, <1>2, <2>1, <2>2, <2>3 DEF StopsInv, WorkerStops, NamesStopped
  <2>4. CASE initialization' = StartOperation(Incoming.requestId, AcceptsInitialize)
    <3>1. initialization'.phase = "running" /\ ~initialization'.aborted
      BY <2>4 DEF StartOperation, NoOperation
    <3>2. QED  BY <1>2, <2>1, <2>2, <3>1 DEF StopsInv, WorkerStops, NamesStopped, clientVars
  <2>5. QED  BY <1>7, <2>3, <2>4 DEF HandleInitialize
<1>8. CASE HandleCancelInitialization
  <2>1. toClient' = toClient /\ generation' = generation
    BY <1>8 DEF HandleCancelInitialization
  <2>2. CASE initialization' = initialization
    BY <1>1, <1>2, <2>1, <2>2 DEF StopsInv, WorkerStops, NamesStopped, ReportsStop
  <2>3. CASE /\ initialization.id = Incoming.requestId
             /\ initialization' = Aborted(initialization)
    <3>1. NamesStopped(initialization.id, active.initReq)
      BY <1>4, <1>8, <2>3 DEF StopMessage, HandleCancelInitialization, Receive
    <3>2. initialization'.id = initialization.id
      BY <1>6, <2>3, OperationFields
    <3>3. QED
      BY <1>2, <2>1, <3>1, <3>2
      DEF StopsInv, WorkerStops, NamesStopped, ReportsStop, clientVars
  <2>4. QED  BY <1>8, <2>2, <2>3 DEF HandleCancelInitialization
<1>9. CASE HandleGenerate
  <2>1. ReportsStop
    BY <1>5, <1>9, StopReports DEF HandleGenerate, ReportsStop
  <2>2. initialization' = initialization
    BY <1>9 DEF HandleGenerate
  <2>3. CASE generation' = generation
    BY <1>1, <1>2, <2>1, <2>2, <2>3 DEF StopsInv, WorkerStops, NamesStopped
  <2>4. CASE generation' = StartOperation(Incoming.jobId, AcceptsGenerate)
    <3>1. generation'.id = Incoming.jobId /\ ~generation'.aborted
      BY <2>4 DEF StartOperation, NoOperation
    <3>2. QED
      BY <1>2, <1>5, <2>1, <2>2, <3>1 DEF StopsInv, WorkerStops, NamesStopped, clientVars
  <2>5. QED  BY <1>9, <2>3, <2>4 DEF HandleGenerate
<1>10. CASE HandleCancel
  <2>1. toClient' = toClient /\ initialization' = initialization
    BY <1>10 DEF HandleCancel
  <2>2. CASE generation' = generation
    BY <1>1, <1>2, <2>1, <2>2 DEF StopsInv, WorkerStops, NamesStopped, ReportsStop
  <2>3. CASE generation.id = Incoming.jobId /\ generation' = Aborted(generation)
    <3>1. NamesStopped(generation.id, active.job)
      BY <1>4, <1>10, <2>3 DEF StopMessage, HandleCancel, Receive
    <3>2. generation'.id = generation.id
      BY <1>6, <2>3, OperationFields
    <3>3. QED
      BY <1>2, <2>1, <3>1, <3>2
      DEF StopsInv, WorkerStops, NamesStopped, ReportsStop, clientVars
  <2>4. QED  BY <1>10, <2>2, <2>3 DEF HandleCancel
<1>11. CASE HandleDispose
  <2>1. ReportsStop
    BY <1>5, <1>11, StopReports DEF HandleDispose, ReportsStop
  <2>2. Queued(toWorker, "dispose")
    <3>1. toWorker \in Seq(ClientMessage) /\ Head(toWorker) \in ClientMessage
      BY <1>3 DEF ChannelTypeOK
    <3>2. Head(toWorker).type = "dispose"
      BY <1>11 DEF HandleDispose, Receive, Incoming
    <3>3. QED  BY <1>3, <3>1, <3>2, QueuedIn
  <2>3. active = NoActive
    BY <2>2 DEF PortsInv, ClientInv, DisposeInv, ActiveInv
  <2>4. \A id : NamesStopped(id, active.initReq)' /\ NamesStopped(id, active.job)'
    BY <1>2, <2>3, ActiveFields DEF NamesStopped, Correlates
  <2>5. generation'.id = generation.id
    BY <1>6, <1>11, OperationFields DEF HandleDispose
  <2>6. QED  BY <1>2, <2>1, <2>4, <2>5 DEF StopsInv, WorkerStops
<1>12. QED  BY <1>7, <1>8, <1>9, <1>10, <1>11 DEF HandleMessage

LEMMA ReturnsKeepStops ==
  ASSUME SessionInv, StopsInv, BackendReturns, UNCHANGED clientVars
  PROVE  ReportsStop /\ WorkerStops'
<1> USE DEF SessionInv, SessionTypeOK
<1>1. \A id, expected : NamesStopped(id, expected) <=> NamesStopped(id, expected)'
  BY DEF NamesStopped, clientVars
<1>2. UNCHANGED <<active, nextJobId>> /\ 0 < nextJobId
  BY DEF clientVars, ClientTypeOK
<1>3. /\ initialization.id \in Nat /\ generation.id \in Nat /\ disposing.requestId \in Nat
      /\ generation.id < nextJobId
      /\ initialization \in Operation({"none", "running", "cleanup"})
      /\ generation \in Operation({"none", "running", "releasing"})
  BY DEF WorkerTypeOK, Operation, StopsInv, WorkerStops
<1>4. NoOperation.id = 0 /\ NoOperation.phase = "none"
  BY DEF NoOperation, NoId
<1>5. ASSUME initialization' = NoOperation, generation' = generation  PROVE WorkerStops'
  BY <1>1, <1>2, <1>3, <1>4, <1>5 DEF StopsInv, WorkerStops, NamesStopped
<1>6. ASSUME initialization' = initialization, generation'.phase # "running",
             generation'.id \in {0, generation.id}
      PROVE  WorkerStops'
  BY <1>1, <1>2, <1>3, <1>6 DEF StopsInv, WorkerStops, NamesStopped
<1>7. CASE BackendInitializeReturns
  <2>1. PICK ending :
          /\ ending \in {"error", "cancelled", "ready", "none"}
          /\ ending = "cancelled" => initialization.aborted /\ ~initialization.callbackError
          /\ IF ending = "ready" THEN PublishReady ELSE UNCHANGED <<state, toClient>>
          /\ \/ initialization' = NoOperation
             \/ initialization' = [initialization EXCEPT
                  !.phase = "cleanup", !.aborted = TRUE,
                  !.accepted = @ \/ AcceptsDispose, !.terminal = ending]
    <3>1. PICK ok \in BOOLEAN, matches \in BOOLEAN :
            LET reached == InitializationOutcome(ok, matches) IN
            /\ IF reached = "ready" THEN PublishReady ELSE UNCHANGED <<state, toClient>>
            /\ initialization' =
                 IF MustCleanUp(reached)
                 THEN [initialization EXCEPT !.phase = "cleanup", !.aborted = TRUE,
                                             !.accepted = @ \/ AcceptsDispose,
                                             !.terminal = reached]
                 ELSE NoOperation
      BY <1>7 DEF BackendInitializeReturns
    <3>2. WITNESS InitializationOutcome(ok, matches)
    <3>3. QED  BY <3>1 DEF InitializationOutcome
  <2>2. ReportsStop
    BY <1>3, <2>1, StopReports DEF PublishReady, ReportsStop
  <2>3. generation' = generation /\ initialization.phase = "running"
    BY <1>7 DEF BackendInitializeReturns
  <2>4. CASE initialization' = NoOperation
    BY <1>5, <2>2, <2>3, <2>4
  <2>5. CASE initialization' = [initialization EXCEPT
               !.phase = "cleanup", !.aborted = TRUE,
               !.accepted = @ \/ AcceptsDispose, !.terminal = ending]
    <3>1. /\ initialization'.phase = "cleanup" /\ initialization'.terminal = ending
          /\ initialization'.id = initialization.id
      BY <1>3, <2>5 DEF Operation
    <3>2. ending = "cancelled" => NamesStopped(initialization.id, active.initReq)
      BY <2>1, <2>3 DEF StopsInv, WorkerStops
    <3>3. QED
      BY <1>1, <1>2, <2>2, <2>3, <3>1, <3>2 DEF StopsInv, WorkerStops, NamesStopped
  <2>6. QED  BY <2>1, <2>4, <2>5
<1>8. CASE BackendCleanupReturns
  <2>1. \/ toClient' = toClient
        \/ \E t \in {"error", "fatal-error"} : Post(RequestMessage(t, initialization.id))
        \/ /\ initialization.terminal = "cancelled"
           /\ Post(RequestMessage("initialization-cancelled", initialization.id))
    BY <1>8 DEF BackendCleanupReturns, ErrorTypes
  <2>2. initialization.terminal = "cancelled" => NamesStopped(initialization.id, active.initReq)
    BY <1>8 DEF BackendCleanupReturns, StopsInv, WorkerStops
  <2>3. ReportsStop
    BY <1>3, <2>1, <2>2, StopReports DEF ReportsStop
  <2>4. QED  BY <1>5, <1>8, <2>3 DEF BackendCleanupReturns
<1>9. CASE BackendGenerateReturns
  <2>1. \/ toClient' = toClient
        \/ \E t \in {"result", "error", "fatal-error"} : Post(JobMessage(t, generation.id))
        \/ /\ generation.aborted /\ ~generation.callbackError
           /\ Post(JobMessage("cancelled", generation.id))
    BY <1>9
    DEF BackendGenerateReturns, GenerateFails, GenerateSucceeds, PublishResult,
        PostIfGenerating, ErrorTypes
  <2>2. generation.aborted /\ ~generation.callbackError => NamesStopped(generation.id, active.job)
    BY <1>9 DEF BackendGenerateReturns, StopsInv, WorkerStops
  <2>3. ReportsStop
    BY <1>3, <2>1, <2>2, StopReports DEF ReportsStop
  <2>4. EndGeneration \/ \E rejected : ReleaseUnpublished(rejected)
    BY <1>9 DEF BackendGenerateReturns, GenerateFails, GenerateSucceeds, PublishResult
  <2>5. generation'.phase # "running" /\ generation'.id \in {0, generation.id}
    BY <1>3, <1>4, <2>4 DEF EndGeneration, ReleaseUnpublished, Operation
  <2>6. QED  BY <1>6, <1>9, <2>3, <2>5 DEF BackendGenerateReturns
<1>10. CASE BackendReleaseReturns
  <2>1. toClient' = toClient \/ Post(JobMessage("error", generation.id))
    BY <1>10 DEF BackendReleaseReturns, PostIfGenerating
  <2>2. ReportsStop
    BY <1>3, <2>1, StopReports DEF ReportsStop
  <2>3. QED  BY <1>4, <1>6, <1>10, <2>2 DEF BackendReleaseReturns, EndGeneration
<1>11. CASE DisposeBackend
  BY <1>1, <1>2, <1>11
  DEF DisposeBackend, channelVars, ReportsStop, StopsInv, WorkerStops, NamesStopped
<1>12. CASE BackendDisposeReturns
  <2>1. \E t \in {"disposed", "error"} : Post(RequestMessage(t, disposing.requestId))
    BY <1>12 DEF BackendDisposeReturns
  <2>2. ReportsStop
    BY <1>3, <2>1, StopReports DEF ReportsStop
  <2>3. QED
    BY <1>1, <1>2, <1>12, <2>2 DEF BackendDisposeReturns, StopsInv, WorkerStops, NamesStopped
<1>13. QED  BY <1>7, <1>8, <1>9, <1>10, <1>11, <1>12 DEF BackendReturns

LEMMA WorkerKeepsStops ==
  ASSUME SessionInv, PortsInv, StopsInv, WorkerNext, UNCHANGED clientVars
  PROVE  StopsInv'
<1> USE DEF SessionInv, SessionTypeOK
<1>1. /\ StopMessage' = StopMessage /\ StopReport' = StopReport
      /\ UNCHANGED <<active, stopped, nextJobId>>
  BY DEF StopMessage, StopReport, NamesStopped, clientVars
<1>2. toWorker' \in Seq(StopMessage)
  <2>1. toWorker' = toWorker \/ (toWorker # <<>> /\ toWorker' = Tail(toWorker))
    BY WorkerStepEffect DEF WorkerEffect, WorkerTyped
  <2>2. QED  BY <2>1, SequenceTypes DEF StopsInv
<1>3. ReportsStop /\ WorkerStops'
  <2>1. CASE HandleMessage
    BY <2>1, HandlersKeepStops
  <2>2. CASE BackendReturns
    BY <2>2, ReturnsKeepStops
  <2>3. CASE BackendRetriesCleanup \/ BackendOpensOutput
    BY <2>3
    DEF BackendRetriesCleanup, BackendOpensOutput, channelVars, runtimeVars, clientVars,
        ReportsStop, StopsInv, WorkerStops, NamesStopped
  <2>4. ASSUME NEW id \in OperationIds, InitializationCallback(id) \/ GenerationCallback(id)
        PROVE  ReportsStop /\ WorkerStops'
    <3>1. \/ toClient' = toClient
          \/ \E t \in {"initialization-progress", "diagnostic"} : Post(RequestMessage(t, id))
          \/ /\ id = generation.id
             /\ \E t \in {"generation-progress", "diagnostic"} : Post(JobMessage(t, id))
      BY <2>4 DEF InitializationCallback, GenerationCallback, CanPublishGeneration
    <3>2. id \in Nat /\ generation.id < nextJobId
      BY WorkerConstants DEF StopsInv, WorkerStops
    <3>3. ReportsStop
      BY <3>1, <3>2, StopReports DEF ReportsStop
    <3>4. /\ initialization' = initialization \/ initialization' = Rejected(initialization)
          /\ generation' = generation \/ generation' = Rejected(generation)
      BY <2>4 DEF InitializationCallback, GenerationCallback
    <3>5. /\ initialization'.id = initialization.id
          /\ initialization'.phase = initialization.phase
          /\ initialization'.terminal = initialization.terminal
          /\ initialization' = initialization \/ initialization'.callbackError
      BY <3>4 DEF Rejected, WorkerTypeOK, Operation
    <3>6. /\ generation'.id = generation.id
          /\ generation' = generation \/ generation'.callbackError
      BY <3>4 DEF Rejected, WorkerTypeOK, Operation
    <3>7. WorkerStops'
      BY <3>5, <3>6 DEF StopsInv, WorkerStops, NamesStopped, clientVars
    <3>8. QED  BY <3>3, <3>7
  <2>5. QED  BY <2>1, <2>2, <2>3, <2>4 DEF WorkerNext
<1>4. toClient' \in Seq(StopReport)
  BY <1>3, SequenceTypes DEF ReportsStop, Post, StopsInv
<1>5. QED  BY <1>1, <1>2, <1>3, <1>4 DEF StopsInv

\* What a step of the client that starts no worker does to the ids it waits
\* for: none is left, or they are the same, or a job with a new id starts.
ActiveEffect ==
  /\ stopped \subseteq stopped'
  /\ active'.cancelRequested => active'.op \in stopped'
  /\ \/ active'.initReq = NoId /\ active'.job = NoId /\ nextJobId' = nextJobId
     \/ /\ active'.op = active.op /\ active'.initReq = active.initReq
        /\ active'.job = active.job /\ nextJobId' = nextJobId
     \/ active'.initReq = NoId /\ active'.job = nextJobId /\ nextJobId' = nextJobId + 1

SendsStop ==
  \/ toWorker' = toWorker \/ toWorker' = <<>>
  \/ \E m \in StopMessage' : toWorker' = Append(toWorker, m)

LEMMA NamesStoppedKept ==
  ASSUME ClientTypeOK, ActiveEffect
  PROVE  /\ nextJobId <= nextJobId' /\ {nextJobId, nextJobId'} \subseteq Nat \ {0}
         /\ \A id : NamesStopped(id, active.initReq) => NamesStopped(id, active.initReq)'
         /\ \A id \in Nat : id < nextJobId /\ NamesStopped(id, active.job) =>
                            NamesStopped(id, active.job)'
<1>1. nextJobId \in Nat \ {0} /\ active.job \in Nat
  BY DEF ClientTypeOK
<1>2. nextJobId <= nextJobId' /\ {nextJobId, nextJobId'} \subseteq Nat \ {0}
  BY <1>1 DEF ActiveEffect
<1>3. \A id : NamesStopped(id, active.initReq) => NamesStopped(id, active.initReq)'
  BY DEF ActiveEffect, NamesStopped, Correlates
<1>4. ASSUME NEW id \in Nat, id < nextJobId, NamesStopped(id, active.job)
      PROVE  NamesStopped(id, active.job)'
  <2>1. id # nextJobId
    BY <1>1, <1>4
  <2>2. QED  BY <1>4, <2>1 DEF ActiveEffect, NamesStopped, Correlates
<1>5. QED  BY <1>2, <1>3, <1>4

LEMMA ClientKeepsStops ==
  ASSUME ClientTypeOK, WorkerTypeOK, StopsInv, ActiveEffect, SendsStop,
         Takes \/ toClient' = <<>>, WorkerFollows
  PROVE  StopsInv'
<1>1. /\ nextJobId <= nextJobId' /\ {nextJobId, nextJobId'} \subseteq Nat \ {0}
      /\ \A id : NamesStopped(id, active.initReq) => NamesStopped(id, active.initReq)'
      /\ \A id \in Nat : id < nextJobId /\ NamesStopped(id, active.job) =>
                         NamesStopped(id, active.job)'
  BY NamesStoppedKept
<1>2. \A id \in Nat : id < nextJobId => id < nextJobId'
  BY <1>1
<1>3. StopMessage \subseteq StopMessage'
  BY <1>1, <1>2 DEF StopMessage, ClientMessage
<1>4. StopReport \subseteq StopReport'
  BY <1>1, <1>2 DEF StopReport, WorkerMessage
<1>5. toWorker' \in Seq(StopMessage')
  <2>1. toWorker \in Seq(StopMessage')
    BY <1>3, SequenceGrows DEF StopsInv
  <2>2. QED  BY <2>1, SequenceTypes DEF SendsStop
<1>6. toClient' \in Seq(StopReport')
  <2>1. toClient \in Seq(StopReport')
    BY <1>4, SequenceGrows DEF StopsInv
  <2>2. QED  BY <2>1, SequenceTypes DEF Takes
<1>7. WorkerStops'
  <2>1. CASE WorkerRestarts
    <3>1. initialization'.phase = "none" /\ generation'.phase = "none" /\ generation'.id = 0
      BY <2>1 DEF WorkerRestarts, NoOperation, NoId
    <3>2. QED  BY <1>1, <3>1 DEF WorkerStops
  <2>2. CASE UNCHANGED workerVars
    <3>1. generation.id \in Nat /\ initialization.id \in Nat
      BY DEF WorkerTypeOK, Operation
    <3>2. UNCHANGED <<initialization, generation>>
      BY <2>2 DEF workerVars, runtimeVars
    <3>3. generation'.id < nextJobId'
      BY <1>2, <3>1, <3>2 DEF StopsInv, WorkerStops
    <3>4. QED  BY <1>1, <3>1, <3>2, <3>3 DEF StopsInv, WorkerStops
  <2>3. QED  BY <2>1, <2>2 DEF WorkerFollows
<1>8. active'.job < nextJobId'
  <2>1. active.job \in Nat /\ active.job < nextJobId
    BY DEF ClientTypeOK, StopsInv
  <2>2. QED  BY <1>1, <2>1 DEF ActiveEffect, NoId
<1>9. QED  BY <1>5, <1>6, <1>7, <1>8 DEF StopsInv, ActiveEffect

\* What it does to the calls: nothing, or a step of the service.
CallEffect == Service!CallStep \/ UNCHANGED <<outcome, stopped>>

LEMMA SettlingEnds ==
  ASSUME ClientTypeOK, OutcomeInv, NEW result \in {"resolved", "aborted", "failed"},
         SettleActive(result), nextJobId' = nextJobId, MarkStopped \/ stopped' = stopped,
         result = "aborted" /\ Busy => active.op \in stopped'
  PROVE  ActiveEffect /\ CallEffect
<1>1. active' = NoActive
  BY DEF SettleActive
<1>2. stopped' = stopped \/ (Busy /\ stopped' = stopped \cup {active.op})
  BY DEF MarkStopped
<1>3. ActiveEffect
  BY <1>1, <1>2, ActiveFields DEF ActiveEffect
<1>4. CASE Busy
  <2>1. active.op \in Operations /\ outcome[active.op] = "pending"
    BY <1>4 DEF ClientTypeOK, OutcomeInv, Busy
  <2>2. outcome' = [outcome EXCEPT ![active.op] = result]
    BY <1>4 DEF SettleActive
  <2>3. Service!End(active.op)
    BY <1>2, <1>4, <2>1, <2>2 DEF Service!End
  <2>4. QED  BY <1>3, <2>1, <2>3 DEF CallEffect, Service!CallStep
<1>5. CASE ~Busy
  BY <1>2, <1>3, <1>5 DEF CallEffect, SettleActive
<1>6. QED  BY <1>4, <1>5

ClientEffect == ActiveEffect /\ SendsStop /\ CallEffect

LEMMA StopMessages ==
  ASSUME ClientTypeOK, ActiveEffect
  PROVE  /\ \A n \in Nat : /\ RequestMessage("dispose", n) \in StopMessage'
                           /\ n < nextJobId' => JobMessage("generate", n) \in StopMessage'
                           /\ NamesStopped(n, active.initReq)' =>
                                RequestMessage("cancel-initialization", n) \in StopMessage'
                           /\ n < nextJobId' /\ NamesStopped(n, active.job)' =>
                                JobMessage("cancel", n) \in StopMessage'
<1>1. 0 < nextJobId'
  BY NamesStoppedKept
<1>2. \A t, n : RequestMessage(t, n).jobId = 0 /\ RequestMessage(t, n).requestId = n
                /\ RequestMessage(t, n).type = t
                /\ JobMessage(t, n).jobId = n /\ JobMessage(t, n).type = t
  BY DEF RequestMessage, JobMessage, NoId
<1>3. QED  BY <1>1, <1>2, ClientMessageTypes DEF StopMessage

LEMMA StartingEffect ==
  ASSUME ClientTypeOK, NEW o \in Operations, StartGeneration(o), stopped' = stopped
  PROVE  ActiveEffect /\ SendsStop
<1>1. active'.initReq = NoId /\ active'.job = nextJobId /\ ~active'.cancelRequested
      /\ nextJobId' = nextJobId + 1
  BY DEF StartGeneration
<1>2. ActiveEffect
  BY <1>1 DEF ActiveEffect
<1>3. nextJobId \in Nat /\ nextJobId < nextJobId'
  BY <1>1 DEF ClientTypeOK
<1>4. JobMessage("generate", nextJobId) \in StopMessage'
  BY <1>2, <1>3, StopMessages
<1>5. QED  BY <1>2, <1>4 DEF StartGeneration, PostToWorker, SendsStop

LEMMA PageEffect ==
  ASSUME SessionInv, StopsInv, Page
  PROVE  ClientEffect
<1> USE DEF SessionInv, SessionTypeOK, ClientInv
<1>1. ASSUME NEW o \in Operations, Generate(o)  PROVE ClientEffect
  <2>1. stopped' = stopped /\ outcome' = [outcome EXCEPT ![o] = "pending"]
        /\ outcome[o] = "none" /\ ~Busy
    BY <1>1 DEF Generate
  <2>2. \A p \in Operations : outcome[p] # "pending"
    BY <2>1, RecordTypes DEF OutcomeInv, Busy
  <2>3. CallEffect
    <3>1. Service!Begin(o)
      BY <2>1, <2>2 DEF Service!Begin
    <3>2. QED  BY <3>1 DEF CallEffect, Service!CallStep
  <2>4. CASE workerReady /\ worker # 0
    BY <1>1, <2>1, <2>3, <2>4, StartingEffect DEF Generate, ClientEffect
  <2>5. CASE ~(workerReady /\ worker # 0)
    <3>1. active' = [NoActive EXCEPT !.op = o] /\ nextJobId' = nextJobId
          /\ toWorker' = toWorker
      BY <1>1, <2>5 DEF Generate
    <3>2. QED
      BY <2>1, <2>3, <3>1, ActiveFields DEF ActiveEffect, SendsStop, ClientEffect
  <2>6. QED  BY <2>4, <2>5
<1>2. CASE (Cancel /\ ResetWorker("aborted")) \/ Terminate
  <2>1. /\ SettleActive("aborted") /\ nextJobId' = nextJobId /\ MarkStopped
        /\ toWorker' = <<>>
    BY <1>2 DEF Cancel, Terminate, ResetWorker, DropWorker, DropWorkerAnd, callVars
  <2>2. Busy => active.op \in stopped'
    BY <2>1 DEF MarkStopped
  <2>3. QED  BY <2>1, <2>2, SettlingEnds DEF SendsStop, ClientEffect
<1>3. CASE Cancel /\ CancelWorker
  <2>1. /\ Busy /\ stopped' = stopped \cup {active.op} /\ outcome' = outcome
        /\ nextJobId' = nextJobId
    BY <1>3 DEF Cancel, CancelWorker, MarkStopped, callVars
  <2>2. /\ active'.op = active.op /\ active'.initReq = active.initReq
        /\ active'.job = active.job
    BY <1>3 DEF CancelWorker, ClientTypeOK
  <2>3. ActiveEffect
    BY <2>1, <2>2 DEF ActiveEffect
  <2>4. CallEffect
    <3>1. active.op \in Operations /\ outcome[active.op] = "pending"
      BY <2>1 DEF OutcomeInv, Busy, ClientTypeOK
    <3>2. Service!Ask(active.op)
      BY <2>1, <3>1 DEF Service!Ask
    <3>3. QED  BY <3>1, <3>2 DEF CallEffect, Service!CallStep
  <2>5. SendsStop
    <3>1. active.initReq \in Nat /\ active.job \in Nat /\ active.job < nextJobId'
      BY <2>1 DEF ClientTypeOK, StopsInv
    <3>2. \A id, expected : NamesStopped(id, expected)'
      BY <2>1, <2>2 DEF NamesStopped
    <3>3. /\ RequestMessage("cancel-initialization", active.initReq) \in StopMessage'
          /\ JobMessage("cancel", active.job) \in StopMessage'
      BY <2>3, <3>1, <3>2, StopMessages
    <3>4. QED  BY <1>3, <3>3 DEF CancelWorker, PostToWorker, SendsStop
  <2>6. QED  BY <2>3, <2>4, <2>5 DEF ClientEffect
<1>4. CASE Dispose
  <2>1. SettleActive("aborted") /\ nextJobId' = nextJobId /\ MarkStopped
    BY <1>4 DEF Dispose
  <2>2. Busy => active.op \in stopped'
    BY <2>1 DEF MarkStopped
  <2>3. ActiveEffect /\ CallEffect
    BY <2>1, <2>2, SettlingEnds
  <2>4. SendsStop
    <3>1. nextRequestId \in Nat
      BY DEF ClientTypeOK
    <3>2. RequestMessage("dispose", nextRequestId) \in StopMessage'
      BY <2>3, <3>1, StopMessages
    <3>3. QED
      BY <1>4, <3>2
      DEF Dispose, PostToWorker, DropWorker, DropWorkerAnd, channelVars, SendsStop
  <2>5. QED  BY <2>3, <2>4 DEF ClientEffect
<1>5. QED  BY <1>1, <1>2, <1>3, <1>4 DEF Page, Cancel

LEMMA IdleEffect ==
  ASSUME UNCHANGED <<active, nextJobId, outcome, stopped>>, StopsInv,
         toWorker' = toWorker \/ toWorker' = <<>>
  PROVE  ClientEffect
BY DEF ClientEffect, ActiveEffect, SendsStop, CallEffect, StopsInv

LEMMA ContinuationEffect ==
  ASSUME SessionInv, StopsInv, Continuation
  PROVE  \/ ClientEffect
         \/ \E o \in Operations : ~Superseded(o) /\ AcquisitionReturns(o)
<1> USE DEF SessionInv, SessionTypeOK, ClientInv
<1>1. CASE DisposalTimesOut \/ DisposeFinishes \/ DisposeSettles
  BY <1>1, IdleEffect
  DEF DisposalTimesOut, DisposeFinishes, DisposeSettles, DropWorker, DropWorkerAnd,
      callVars, channelVars
<1>2. ASSUME NEW o \in Operations, LeaseGranted(o)  PROVE ClientEffect
  BY <1>2, IdleEffect DEF LeaseGranted, callVars, channelVars
<1>3. ASSUME NEW o \in Operations, Superseded(o), AcquisitionReturns(o) \/ AcquisitionFails(o)
      PROVE  ClientEffect
  BY <1>3, IdleEffect DEF AcquisitionReturns, AcquisitionFails, channelVars
<1>4. ASSUME NEW o \in Operations, ~Superseded(o), AcquisitionFails(o)  PROVE ClientEffect
  <2>1. /\ SettleActive("failed") /\ UNCHANGED <<nextJobId, stopped>> /\ toWorker' = <<>>
    BY <1>4 DEF AcquisitionFails, DropWorkerAnd
  <2>2. QED  BY <2>1, SettlingEnds DEF SendsStop, ClientEffect
<1>5. QED  BY <1>1, <1>2, <1>3, <1>4 DEF Continuation

LEMMA MessagesEffect ==
  ASSUME SessionInv, StopsInv, OnMessage \/ OnWorkerError
  PROVE  ClientEffect
<1> USE DEF SessionInv, SessionTypeOK, ClientInv
<1>1. CASE OnIgnored \/ OnDiagnostic \/ OnDisposed \/ OnDisposalError
  BY <1>1, IdleEffect
  DEF OnIgnored, OnDiagnostic, OnDisposed, OnDisposalError, clientVars, callVars
<1>2. CASE OnReady /\ active.cancelRequested
  <2>1. SettleActive("aborted") /\ UNCHANGED <<nextJobId, stopped, toWorker>>
    BY <1>2 DEF OnReady
  <2>2. active.op \in stopped'
    BY <1>2, <2>1 DEF StopsInv
  <2>3. QED  BY <2>1, <2>2, SettlingEnds DEF SendsStop, ClientEffect
<1>3. CASE OnReady /\ ~active.cancelRequested
  <2>1. Busy /\ active.op \in Operations
    BY <1>3, ActiveFields
    DEF OnReady, Ignored, Arrived, Correlates, ActiveInv, Busy, ClientTypeOK
  <2>2. StartGeneration(active.op) /\ UNCHANGED <<outcome, stopped>>
    BY <1>3 DEF OnReady
  <2>3. QED  BY <2>1, <2>2, StartingEffect DEF CallEffect, ClientEffect
<1>4. toClient # <<>> => Head(toClient) \in StopReport
  BY DEF StopsInv
<1>5. CASE OnInitializationCancelled
  <2>1. /\ SettleActive("aborted") /\ UNCHANGED <<nextJobId, stopped>> /\ toWorker' = <<>>
    BY <1>5 DEF OnInitializationCancelled, ResetWorker, DropWorker, DropWorkerAnd, callVars
  <2>2. active.op \in stopped'
    BY <1>4, <1>5, <2>1
    DEF OnInitializationCancelled, Arrived, Ignored, Message, StopReport, NamesStopped
  <2>3. QED  BY <2>1, <2>2, SettlingEnds DEF SendsStop, ClientEffect
<1>6. CASE OnOutcome
  <2>1. /\ SettleActive(IF Message.type = "result" THEN "resolved" ELSE "aborted")
        /\ UNCHANGED <<nextJobId, stopped, toWorker>>
    BY <1>6 DEF OnOutcome, callVars
  <2>2. Message.type # "result" => active.op \in stopped'
    BY <1>4, <1>6, <2>1
    DEF OnOutcome, Arrived, Ignored, Message, StopReport, NamesStopped
  <2>3. QED  BY <2>1, <2>2, SettlingEnds DEF SendsStop, ClientEffect
<1>7. CASE OnError \/ OnWorkerError
  <2>1. /\ SettleActive("failed") /\ UNCHANGED <<nextJobId, stopped>>
        /\ toWorker' = toWorker \/ toWorker' = <<>>
    BY <1>7
    DEF OnError, OnWorkerError, ResetWorker, FailKeepingWorker, DropWorker, DropWorkerAnd,
        callVars
  <2>2. QED  BY <2>1, SettlingEnds DEF SendsStop, ClientEffect
<1>8. QED  BY <1>1, <1>2, <1>3, <1>5, <1>6, <1>7 DEF OnMessage

\* A new worker has been told nothing yet.
LEMMA StartWorkerKeepsStops ==
  ASSUME SessionInv, StopsInv, NEW o \in Operations, ~Superseded(o), AcquisitionReturns(o),
         WorkerFollows
  PROVE  StopsInv' /\ CallEffect
<1> USE DEF SessionInv, SessionTypeOK, ClientInv
<1>1. StartWorker(o) /\ o \in acquiring /\ active.op = o /\ UNCHANGED <<nextJobId, stopped>>
  BY DEF AcquisitionReturns, Superseded
<1>2. Busy /\ o # 0
  BY <1>1, RecordTypes DEF Busy
<1>3. worker = 0 /\ active = [NoActive EXCEPT !.op = o]
  BY <1>1, <1>2 DEF AcquisitionInv
<1>4. /\ worker' # worker /\ active'.job = NoId /\ ~active'.cancelRequested
      /\ nextRequestId \in Nat /\ nextJobId \in Nat \ {0}
  <2>1. budget.workers \in Nat /\ nextRequestId \in Nat /\ nextJobId \in Nat \ {0}
    BY DEF ClientTypeOK
  <2>2. active'.job = active.job /\ active'.cancelRequested = active.cancelRequested
    BY <1>1 DEF StartWorker, ClientTypeOK
  <2>3. QED  BY <1>1, <1>3, <2>1, <2>2, ActiveFields DEF StartWorker
<1>5. toWorker' \in Seq(StopMessage') /\ toClient' \in Seq(StopReport')
  <2>1. RequestMessage("initialize", nextRequestId) \in StopMessage'
    <3>1. RequestMessage("initialize", nextRequestId) \in ClientMessage
      BY <1>4, ClientMessageTypes
    <3>2. /\ RequestMessage("initialize", nextRequestId).type = "initialize"
          /\ RequestMessage("initialize", nextRequestId).jobId = 0
      BY DEF RequestMessage, NoId
    <3>3. 0 < nextJobId'
      BY <1>1, <1>4
    <3>4. QED  BY <3>1, <3>2, <3>3 DEF StopMessage
  <2>2. toWorker' = <<RequestMessage("initialize", nextRequestId)>> /\ toClient' = <<>>
    BY <1>1 DEF StartWorker
  <2>3. QED  BY <2>1, <2>2
<1>6. WorkerStops'
  <2>1. initialization'.phase = "none" /\ generation'.phase = "none" /\ generation'.id = 0
    BY <1>4 DEF WorkerFollows, WorkerRestarts, NoOperation, NoId
  <2>2. QED  BY <1>1, <1>4, <2>1 DEF WorkerStops
<1>7. CallEffect
  BY <1>1 DEF StartWorker, CallEffect
<1>8. QED  BY <1>1, <1>4, <1>5, <1>6, <1>7 DEF StopsInv, NoId

\* The lock is held whenever a worker starts, lives or ends.
LEMMA LockEffect ==
  ASSUME LeaseWhileWorker, LeaseWhileWorker',
         \/ leases' = leases
         \/ worker' = worker
         \/ worker' = 0
  PROVE  \/ Service!LockStep
         \/ /\ (worker # 0)' <=> worker # 0
            /\ (leases # {})' <=> leases # {}
<1>1. CASE worker = 0 /\ worker' = 0
  BY <1>1 DEF Service!LockStep
<1>2. CASE worker = 0 /\ worker' # 0
  <2>1. leases # {} /\ leases' # {}
    BY <1>2 DEF LeaseWhileWorker
  <2>2. (worker # 0)' = ~(worker # 0)
    BY <1>2
  <2>3. QED  BY <2>1, <2>2 DEF Service!LockStep
<1>3. CASE worker # 0 /\ worker' = 0
  <2>1. leases # {}
    BY <1>3 DEF LeaseWhileWorker
  <2>2. (worker # 0)' = ~(worker # 0)
    BY <1>3
  <2>3. QED  BY <1>3, <2>1, <2>2 DEF Service!LockStep
<1>4. CASE worker # 0 /\ worker' # 0
  BY <1>4 DEF LeaseWhileWorker
<1>5. QED  BY <1>1, <1>2, <1>3, <1>4

LEMMA ClientLeases ==
  ASSUME Page \/ Continuation \/ OnMessage \/ OnWorkerError
  PROVE  \/ leases' = leases
         \/ worker' = worker
         \/ worker' = 0
<1>1. CASE Page
  BY <1>1
  DEF Page, Generate, Cancel, CancelWorker, Terminate, Dispose, ResetWorker, DropWorker,
      DropWorkerAnd, channelVars
<1>2. CASE Continuation
  BY <1>2
  DEF Continuation, DisposalTimesOut, DisposeFinishes, DisposeSettles, LeaseGranted,
      AcquisitionReturns, AcquisitionFails, StartWorker, DropWorker, DropWorkerAnd,
      channelVars
<1>3. CASE OnMessage \/ OnWorkerError
  BY <1>3
  DEF OnMessage, OnIgnored, OnReady, OnInitializationCancelled, OnOutcome, OnDiagnostic,
      OnDisposed, OnDisposalError, OnError, OnWorkerError, ResetWorker, FailKeepingWorker,
      DropWorker, DropWorkerAnd, clientVars
<1>4. QED  BY <1>1, <1>2, <1>3

ServiceInv == ExchangeInv /\ StopsInv

LEMMA ServiceInitEstablishes == SessionInit => ServiceInv /\ Service!ServiceInit
<1> SUFFICES ASSUME SessionInit  PROVE StopsInv /\ Service!ServiceInit
  BY ExchangeInitEstablishes DEF ServiceInv
<1>1. /\ toWorker = <<>> /\ toClient = <<>> /\ active = NoActive /\ nextJobId = 1
      /\ outcome = [o \in Operations |-> "none"] /\ stopped = {} /\ worker = 0 /\ leases = {}
      /\ initialization = NoOperation /\ generation = NoOperation
  BY DEF SessionInit, ChannelInit, ClientInit, WorkerInit
<1>2. StopsInv
  <2>1. NoOperation.phase = "none" /\ NoOperation.id = 0 /\ NoActive.job = 0
    BY DEF NoOperation, NoActive, NoId
  <2>2. WorkerStops
    BY <1>1, <2>1 DEF WorkerStops
  <2>3. QED  BY <1>1, <2>1, <2>2, ActiveFields DEF StopsInv
<1>3. Service!ServiceInit
  BY <1>1 DEF Service!ServiceInit
<1>4. QED  BY <1>2, <1>3

LEMMA ServiceStep ==
  ServiceInv /\ [SessionNext]_sessionVars =>
    ServiceInv' /\ [Service!ServiceNext]_(Service!serviceVars)
<1> SUFFICES ASSUME ServiceInv, [SessionNext]_sessionVars
             PROVE  StopsInv' /\ [Service!ServiceNext]_(Service!serviceVars)
  BY ExchangeStepKeepsInv DEF ServiceInv
<1> USE DEF ServiceInv, ExchangeInv
<1>1. SessionInv /\ SessionInv'
  BY SessionStepKeepsInv
<1>2. LeaseWhileWorker /\ LeaseWhileWorker'
  BY <1>1 DEF SessionInv, ClientInv, LeaseInv, LeaseWhileWorker
<1>3. ClientTypeOK /\ WorkerTypeOK
  BY <1>1 DEF SessionInv, SessionTypeOK
<1>4. CASE (Page \/ Continuation \/ OnMessage \/ OnWorkerError) /\ WorkerFollows
  <2>1. StopsInv' /\ CallEffect
    <3>1. CASE ClientEffect
      BY <1>3, <1>4, <3>1, ClientKeepsStops, ClientTakes DEF ClientEffect
    <3>2. CASE \E o \in Operations : ~Superseded(o) /\ AcquisitionReturns(o)
      BY <1>1, <1>4, <3>2, StartWorkerKeepsStops
    <3>3. QED  BY <1>1, <1>4, <3>1, <3>2, PageEffect, ContinuationEffect, MessagesEffect
  <2>2. \/ Service!LockStep
        \/ /\ (worker # 0)' <=> worker # 0
           /\ (leases # {})' <=> leases # {}
    BY <1>2, <1>4, ClientLeases, LockEffect
  <2>3. QED  BY <2>1, <2>2 DEF CallEffect, Service!ServiceNext
<1>5. CASE WorkerStep(WorkerNext) \/ UNCHANGED sessionVars
  <2>1. StopsInv'
    <3>1. CASE WorkerStep(WorkerNext)
      BY <1>1, <3>1, WorkerKeepsStops DEF WorkerStep
    <3>2. CASE UNCHANGED sessionVars
      BY <3>2
      DEF sessionVars, channelVars, clientVars, workerVars, runtimeVars, StopsInv, StopMessage,
          StopReport, WorkerStops, NamesStopped
    <3>3. QED  BY <1>5, <3>1, <3>2
  <2>2. UNCHANGED (Service!serviceVars)
    BY <1>5 DEF WorkerStep, sessionVars, clientVars, Service!serviceVars
  <2>3. QED  BY <2>1, <2>2
<1>6. QED  BY <1>4, <1>5 DEF SessionNext, ClientStep

(* The client over its worker implements the abstract service: calls run    *)
(* one at a time, an abort is always one the page asked for - also when the *)
(* answer to an earlier cancel comes late - and no worker lives unlocked.   *)
THEOREM SessionImplementsService == HungWorkerSpec => ImplementsMusicService
BY ServiceInitEstablishes, ServiceStep, PTL
DEF HungWorkerSpec, ImplementsMusicService, Service!ServiceSpec
=============================================================================
