------------------------------ MODULE MusicPage ------------------------------
(***************************************************************************)
(* The music page's controls (src/src/music.ts): Generate, Cancel and      *)
(* Delete model, the worker's messages, and the continuations they leave   *)
(* behind, which all share one set of page variables.  A click on Generate *)
(* is the request 1, 2, ... it makes; its number also names the            *)
(* initialization, the job and the disposal made for it.  Progress, texts, *)
(* the closing of the page, and the model cache (CacheLifecycle) and the   *)
(* songs (SongStorage) behind the awaited calls are left out.              *)
(***************************************************************************)
EXTENDS Naturals, Sequences

CONSTANTS
  Variants,      \* the model variants a visitor can choose
  MaxRequests,   \* bound: clicks on Generate
  MaxFaults,     \* bound: calls that fail, errors and failing operations
  MayDelete,     \* whether the visitor deletes the model
  Overlap,       \* whether a worker's error may come while a song is released
                 \* or published
  None

\* What the constants must be.
PageConstants == MaxRequests \in Nat /\ MaxFaults \in Nat /\ {MayDelete, Overlap} \subseteq BOOLEAN

VARIABLES
  page,          \* the page's variables, and where its continuations stand
  inbox,         \* messages posted to the page's worker
  outbox,        \* messages of the page's worker on their way to the page
  runtime,       \* what the worker is doing, and for which job
  posted,        \* history: the requests posted to a worker as jobs
  cancelled,     \* history: the requests the page has heard cancelled
  requests,      \* the clicks so far
  faults         \* what is left of MaxFaults

vars == <<page, inbox, outbox, runtime, posted, cancelled, requests, faults>>

Requests == 1..MaxRequests
Delete == 0                    \* the continuation of deleteDownloadedModel
Id == Requests \cup {None}

FreshRuntime == [at |-> "new", job |-> None]

TypeOK ==
  /\ page \in
       [busy : BOOLEAN, deleting : BOOLEAN, preparation : Id, aborted : SUBSET Requests,
        pending : Id, acquisition : Id, worker : Id, ready : BOOLEAN,
        variant : Variants \cup {None}, initializing : Id, cancelRequested : BOOLEAN,
        active : Id, publishing : SUBSET Requests, disposal : Id \cup {Delete},
        wanted : [Requests -> Variants \cup {None}],
        captured : [Requests \cup {Delete} -> Id],
        flow : [Requests \cup {Delete} ->
                 {"none", "preparing", "disposing", "resolved", "rejected",
                  "unlocking", "failing", "acquiring", "erasing"}]]
  /\ posted \in SUBSET Requests /\ cancelled \in SUBSET Requests
  /\ requests \in 0..MaxRequests /\ faults \in 0..MaxFaults
  /\ runtime.at \in {"new", "initializing", "ready", "generating", "cancelling",
                     "ending", "closed"}

Init ==
  /\ page = [busy |-> FALSE, deleting |-> FALSE, preparation |-> None, aborted |-> {},
             pending |-> None, acquisition |-> None, worker |-> None, ready |-> FALSE,
             variant |-> None, initializing |-> None, cancelRequested |-> FALSE,
             active |-> None, publishing |-> {}, disposal |-> None,
             wanted |-> [r \in Requests |-> None],
             captured |-> [f \in Requests \cup {Delete} |-> None],
             flow |-> [f \in Requests \cup {Delete} |-> "none"]]
  /\ inbox = <<>> /\ outbox = <<>> /\ runtime = FreshRuntime
  /\ posted = {} /\ cancelled = {}
  /\ requests = 0 /\ faults = MaxFaults

Fault == faults > 0 /\ faults' = faults - 1

Message(type, id) == [type |-> type, id |-> id]

(***************************************************************************)
(* What several handlers do to the page p.                                 *)
(***************************************************************************)
RejectDisposal(p) ==
  IF p.disposal = None THEN p
  ELSE [p EXCEPT !.flow[p.disposal] = "rejected", !.disposal = None]

ResetWorker(p) ==
  [RejectDisposal(p) EXCEPT
     !.acquisition = None, !.worker = None, !.ready = FALSE, !.variant = None,
     !.cancelRequested = FALSE]

FailOperation(p, reset) ==
  LET failed == [RejectDisposal(p) EXCEPT
                   !.initializing = None, !.cancelRequested = FALSE, !.active = None,
                   !.pending = None, !.busy = FALSE]
  IN IF reset THEN ResetWorker(failed) ELSE failed

StartWorkerInitialization(p, r) ==
  [ResetWorker(p) EXCEPT !.acquisition = r, !.flow[r] = "acquiring"]

CanStartPending(p) == p.worker # None /\ p.ready /\ p.pending # None

StartPendingGeneration(p) ==
  IF CanStartPending(p) THEN [p EXCEPT !.active = p.pending, !.pending = None] ELSE p

AwaitDisposal(p, f) ==
  [p EXCEPT !.disposal = f, !.captured[f] = p.worker, !.flow[f] = "disposing"]

\* A handler leaves the page p, has posted the messages sent, and leaves the
\* events rest unhandled; a worker that was terminated leaves none of its own.
Become(p, sent, rest) ==
  LET same == p.worker = page.worker
      jobs == {sent[i].id : i \in {j \in DOMAIN sent : sent[j].type = "generate"}}
  IN /\ page' = p
     /\ inbox' = IF same THEN inbox \o sent ELSE sent
     /\ outbox' = IF same THEN rest ELSE <<>>
     /\ runtime' = IF same THEN runtime ELSE FreshRuntime
     /\ posted' = posted \cup jobs

PostPending(p) ==
  IF CanStartPending(p) THEN <<Message("generate", p.pending)>> ELSE <<>>

(***************************************************************************)
(* A settled disposal continues before the page handles anything else.     *)
(***************************************************************************)
Settled == {f \in DOMAIN page.flow : page.flow[f] \in {"resolved", "rejected"}}

\* What awaits disposeWorker() goes on: the switch of models, or the deletion.
AfterDisposal(p, f, ok) ==
  IF f = Delete
  THEN IF ok THEN [p EXCEPT !.flow[f] = "erasing"]
       ELSE [p EXCEPT !.flow[f] = "none", !.deleting = FALSE]
  ELSE IF ~ok THEN FailOperation([p EXCEPT !.flow[f] = "none"], TRUE)
  ELSE IF p.busy /\ p.pending # None THEN StartWorkerInitialization(p, f)
  ELSE [p EXCEPT !.flow[f] = "none"]

\* disposeWorker's finally: the worker asked to go is terminated, if it is
\* still the page's, and its lease is given back.
FinishDisposal(f) ==
  LET ok == page.flow[f] = "resolved"
      p == IF page.disposal = f THEN [page EXCEPT !.disposal = None] ELSE page
      terminated == [p EXCEPT !.worker = None, !.ready = FALSE, !.variant = None,
                              !.flow[f] = IF ok THEN "unlocking" ELSE "failing"]
  IN /\ f \in Settled
     /\ Become(IF p.worker = p.captured[f] THEN terminated ELSE AfterDisposal(p, f, ok),
               <<>>, outbox)
     /\ UNCHANGED <<cancelled, requests, faults>>

LeaseReleased(f) ==
  /\ page.flow[f] \in {"unlocking", "failing"}
  /\ Become(AfterDisposal(page, f, page.flow[f] = "unlocking"), <<>>, outbox)
  /\ UNCHANGED <<cancelled, requests, faults>>

\* The 30 seconds waitForWorkerDisposal allows are over.
DisposalTimesOut(f) ==
  /\ page.flow[f] = "disposing"
  /\ Become([page EXCEPT !.flow[f] = "rejected"], <<>>, outbox)
  /\ UNCHANGED <<cancelled, requests, faults>>

(***************************************************************************)
(* Generate, Cancel and Delete model.                                      *)
(***************************************************************************)
BeginGeneration(v) ==
  LET r == requests + 1
  IN /\ requests < MaxRequests /\ ~page.busy /\ ~page.deleting
     /\ requests' = r
     /\ Become([page EXCEPT !.busy = TRUE, !.preparation = r, !.wanted[r] = v,
                            !.flow[r] = "preparing"], <<>>, outbox)
     /\ UNCHANGED <<cancelled, faults>>

\* The previous song could not be released.
PreparationFails(r) ==
  /\ page.flow[r] = "preparing" /\ Fault
  /\ Become([page EXCEPT !.busy = FALSE, !.preparation = None, !.flow[r] = "none"], <<>>, outbox)
  /\ UNCHANGED <<cancelled, requests>>

\* initializeSelectedModel, up to its first await that takes time.
InitializeSelectedModel(p, r) ==
  IF p.worker # None /\ p.ready THEN AwaitDisposal(p, r)
  ELSE StartWorkerInitialization(p, r)

\* Cancel was pressed while the page released the previous song for r.
IsAborted(r) == r \in page.aborted

Prepared(r) ==
  LET p == [page EXCEPT !.preparation = None, !.flow[r] = "none"]
      wanting == [p EXCEPT !.pending = r, !.busy = TRUE]
      serves == p.ready /\ p.worker # None /\ p.variant = p.wanted[r]
      initial == InitializeSelectedModel(wanting, r)
  IN /\ page.flow[r] = "preparing"
     /\ IF IsAborted(r) THEN Become([p EXCEPT !.busy = FALSE], <<>>, outbox)
        ELSE IF serves
        THEN Become(StartPendingGeneration(wanting), PostPending(wanting), outbox)
        ELSE Become(initial,
                    IF initial.flow[r] = "disposing" THEN <<Message("dispose", r)>> ELSE <<>>,
                    outbox)
     /\ UNCHANGED <<cancelled, requests, faults>>

\* acquireAceDemoModelCache returned; an abandoned acquisition gives the lease back.
Acquired(r) ==
  LET p == [page EXCEPT !.flow[r] = "none"]
  IN /\ page.flow[r] = "acquiring"
     /\ IF page.acquisition # r THEN Become(p, <<>>, outbox)
        ELSE Become([p EXCEPT !.acquisition = None, !.worker = r, !.variant = p.wanted[r],
                              !.initializing = r],
                    <<Message("initialize", r)>>, outbox)
     /\ UNCHANGED <<cancelled, requests, faults>>

AcquisitionFails(r) ==
  LET p == [page EXCEPT !.flow[r] = "none"]
  IN /\ page.flow[r] = "acquiring" /\ Fault
     /\ Become(IF page.acquisition # r THEN p ELSE FailOperation(p, TRUE), <<>>, outbox)
     /\ UNCHANGED <<cancelled, requests>>

CancelActiveOperation ==
  /\ page.busy
  /\ \/ /\ page.preparation # None
        /\ Become([page EXCEPT !.aborted = @ \cup {page.preparation}], <<>>, outbox)
        /\ cancelled' = cancelled \cup {page.preparation}
     \/ /\ page.preparation = None /\ page.acquisition # None
        /\ Become([ResetWorker(page) EXCEPT !.pending = None, !.busy = FALSE], <<>>, outbox)
        /\ cancelled' = cancelled \cup ({page.pending} \ {None})
     \/ /\ page.preparation = None /\ page.acquisition = None
        /\ page.worker # None /\ page.initializing # None /\ ~page.cancelRequested
        /\ Become([page EXCEPT !.cancelRequested = TRUE, !.pending = None],
                  <<Message("cancel-initialization", page.initializing)>>, outbox)
        /\ cancelled' = cancelled \cup ({page.pending} \ {None})
     \/ /\ page.preparation = None /\ page.acquisition = None
        /\ page.worker # None /\ page.initializing = None /\ page.active # None
        /\ Message("cancel", page.active) \notin {inbox[i] : i \in DOMAIN inbox}
        /\ Become(page, <<Message("cancel", page.active)>>, outbox)
        /\ UNCHANGED cancelled
  /\ UNCHANGED <<requests, faults>>

\* deleteDownloadedModel, with disposeWorker up to its first await.
DeleteModel ==
  /\ MayDelete /\ ~page.busy /\ ~page.deleting
  /\ LET p == [page EXCEPT !.deleting = TRUE]
     IN IF p.worker # None /\ p.ready
        THEN Become(AwaitDisposal(p, Delete), <<Message("dispose", Delete)>>, outbox)
        ELSE Become([IF p.worker = None THEN p ELSE ResetWorker(p) EXCEPT
                       !.flow[Delete] = "erasing"], <<>>, outbox)
  /\ UNCHANGED <<cancelled, requests, faults>>

\* deleteAceDemoModelCache returned or threw.
ModelErased ==
  /\ page.flow[Delete] = "erasing"
  /\ Become([page EXCEPT !.deleting = FALSE, !.flow[Delete] = "none"], <<>>, outbox)
  /\ UNCHANGED <<cancelled, requests, faults>>

(***************************************************************************)
(* The worker's messages and errors.                                       *)
(***************************************************************************)
Rest == Tail(outbox)

Handles(type) == outbox # <<>> /\ Head(outbox).type = type

\* Mutant: a cancellation that was asked for meanwhile is not looked at.
OnReadyAnyway ==
  /\ Handles("ready")
  /\ LET p == [page EXCEPT !.initializing = None, !.ready = TRUE]
     IN IF Head(outbox).id # page.initializing THEN Become(page, <<>>, Rest)
        ELSE Become(StartPendingGeneration(p), PostPending(p), Rest)
  /\ UNCHANGED <<cancelled, requests, faults>>

OnReady ==
  /\ Handles("ready")
  /\ LET p == [page EXCEPT !.initializing = None, !.ready = TRUE]
     IN IF Head(outbox).id # page.initializing THEN Become(page, <<>>, Rest)
        ELSE IF page.cancelRequested
        THEN Become([p EXCEPT !.cancelRequested = FALSE, !.busy = FALSE], <<>>, Rest)
        ELSE Become(StartPendingGeneration(p), PostPending(p), Rest)
  /\ UNCHANGED <<cancelled, requests, faults>>

OnInitializationCancelled ==
  /\ Handles("initialization-cancelled")
  /\ LET p == [page EXCEPT !.initializing = None, !.cancelRequested = FALSE, !.pending = None]
     IN IF Head(outbox).id # page.initializing THEN Become(page, <<>>, Rest)
        ELSE Become([ResetWorker(p) EXCEPT !.busy = FALSE], <<>>, Rest)
  /\ UNCHANGED <<cancelled, requests, faults>>

OnResult ==
  /\ Handles("result")
  /\ LET j == Head(outbox).id
     IN IF j # page.active THEN Become(page, <<>>, Rest)
        ELSE Become([page EXCEPT !.active = None, !.publishing = @ \cup {j}], <<>>, Rest)
  /\ UNCHANGED <<cancelled, requests, faults>>

OnCancelled ==
  /\ Handles("cancelled")
  /\ IF Head(outbox).id # page.active THEN Become(page, <<>>, Rest)
     ELSE Become([page EXCEPT !.active = None, !.pending = None, !.busy = FALSE], <<>>, Rest)
  /\ UNCHANGED <<cancelled, requests, faults>>

OnDisposed ==
  /\ Handles("disposed")
  /\ LET f == Head(outbox).id
     IN IF f # page.disposal THEN Become(page, <<>>, Rest)
        ELSE Become([page EXCEPT !.flow[f] = "resolved", !.disposal = None, !.ready = FALSE],
                    <<>>, Rest)
  /\ UNCHANGED <<cancelled, requests, faults>>

\* An error that is not the pending disposal's fails whatever the page does:
\* its request or job is not looked at.
OnError ==
  /\ Handles("error") \/ Handles("dispose-error")
  /\ \E fatal \in BOOLEAN :
       IF Handles("dispose-error") /\ Head(outbox).id = page.disposal
       THEN Become(RejectDisposal(page), <<>>, Rest)
       ELSE Become(FailOperation(page, fatal \/ ~page.ready), <<>>, Rest)
  /\ UNCHANGED <<cancelled, requests, faults>>

Preparing == {r \in Requests : page.flow[r] = "preparing"}

\* The worker's error event, or a message that cannot be read.
OnWorkerError ==
  /\ page.worker # None /\ Fault
  /\ Overlap \/ Preparing \cup page.publishing = {}
  /\ Become(FailOperation(page, TRUE), <<>>, outbox)
  /\ UNCHANGED <<cancelled, requests>>

\* publishResult returned, or failed: it frees the page either way.
Published(j) ==
  /\ j \in page.publishing
  /\ Become([page EXCEPT !.publishing = @ \ {j}, !.busy = FALSE], <<>>, outbox)
  /\ UNCHANGED <<cancelled, requests, faults>>

PublishingFails(j) ==
  /\ j \in page.publishing /\ Fault
  /\ Become(FailOperation([page EXCEPT !.publishing = @ \ {j}], FALSE), <<>>, outbox)
  /\ UNCHANGED <<cancelled, requests>>

(***************************************************************************)
(* The page's worker (AceWorker), as the page sees it.                     *)
(***************************************************************************)
pageVars == <<page, posted, cancelled, requests>>

Receives(type) == inbox # <<>> /\ Head(inbox).type = type

Answer(type, id) == outbox' = Append(outbox, Message(type, id))

WorkerInitializes ==
  /\ Receives("initialize")
  /\ runtime' = [at |-> "initializing", job |-> Head(inbox).id]
  /\ inbox' = Tail(inbox)
  /\ UNCHANGED <<pageVars, outbox, faults>>

WorkerIsReady ==
  /\ runtime.at = "initializing"
  /\ runtime' = [at |-> "ready", job |-> None]
  /\ Answer("ready", runtime.job)
  /\ UNCHANGED <<pageVars, inbox, faults>>

WorkerInitializationFails ==
  /\ runtime.at = "initializing" /\ Fault
  /\ runtime' = [at |-> "new", job |-> None]
  /\ Answer("error", runtime.job)
  /\ UNCHANGED <<pageVars, inbox>>

WorkerCancelsInitialization ==
  /\ Receives("cancel-initialization")
  /\ inbox' = Tail(inbox)
  /\ IF runtime.at = "initializing"
     THEN runtime' = FreshRuntime /\ Answer("initialization-cancelled", runtime.job)
     ELSE UNCHANGED <<runtime, outbox>>
  /\ UNCHANGED <<pageVars, faults>>

\* A job that comes before the last one is cleaned up finds the worker busy.
WorkerGenerates ==
  /\ Receives("generate")
  /\ inbox' = Tail(inbox)
  /\ IF runtime.at = "ready"
     THEN runtime' = [at |-> "generating", job |-> Head(inbox).id] /\ UNCHANGED outbox
     ELSE Answer("error", Head(inbox).id) /\ UNCHANGED runtime
  /\ UNCHANGED <<pageVars, faults>>

WorkerHearsCancel ==
  /\ Receives("cancel")
  /\ inbox' = Tail(inbox)
  /\ runtime' = IF runtime = [at |-> "generating", job |-> Head(inbox).id]
                THEN [runtime EXCEPT !.at = "cancelling"] ELSE runtime
  /\ UNCHANGED <<pageVars, outbox, faults>>

WorkerEndsJob ==
  /\ \/ /\ runtime.at = "generating" /\ UNCHANGED faults
        /\ Answer("result", runtime.job)
        /\ runtime' = [at |-> "ready", job |-> None]
     \/ /\ runtime.at = "cancelling" /\ UNCHANGED faults
        /\ Answer("cancelled", runtime.job)
        /\ runtime' = [at |-> "ending", job |-> None]
     \/ /\ runtime.at \in {"generating", "cancelling"} /\ Fault
        /\ Answer("error", runtime.job)
        /\ runtime' = [at |-> "ending", job |-> None]
  /\ UNCHANGED <<pageVars, inbox>>

\* The cancelled job's output is released.
WorkerEndsCleanup ==
  /\ runtime.at = "ending"
  /\ runtime' = [at |-> "ready", job |-> None]
  /\ UNCHANGED <<pageVars, inbox, outbox, faults>>

\* dispose() ends a running job without a word about it.
WorkerDisposes ==
  /\ Receives("dispose")
  /\ inbox' = Tail(inbox)
  /\ runtime' = [at |-> "closed", job |-> None]
  /\ \/ Answer("disposed", Head(inbox).id) /\ UNCHANGED faults
     \/ Answer("dispose-error", Head(inbox).id) /\ Fault
  /\ UNCHANGED pageVars

(***************************************************************************)
(* Between two tasks of the page its settled promises continue.            *)
(***************************************************************************)
Idle == Settled = {}

Click ==
  \/ \E v \in Variants : Idle /\ BeginGeneration(v)
  \/ Idle /\ CancelActiveOperation
  \/ Idle /\ DeleteModel

Continue ==
  \/ \E f \in Settled : FinishDisposal(f)
  \/ \E f \in Requests \cup {Delete} : Idle /\ LeaseReleased(f)
  \/ \E f \in Requests \cup {Delete} : Idle /\ DisposalTimesOut(f)
  \/ \E r \in Requests : Idle /\ Prepared(r)
  \/ \E r \in Requests : Idle /\ Acquired(r)
  \/ \E j \in Requests : Idle /\ Published(j)
  \/ Idle /\ ModelErased

Fail ==
  \/ \E r \in Requests : Idle /\ PreparationFails(r)
  \/ \E r \in Requests : Idle /\ AcquisitionFails(r)
  \/ \E j \in Requests : Idle /\ PublishingFails(j)
  \/ Idle /\ OnWorkerError

Hear ==
  \/ Idle /\ OnReady
  \/ Idle /\ OnInitializationCancelled
  \/ Idle /\ OnResult
  \/ Idle /\ OnCancelled
  \/ Idle /\ OnDisposed
  \/ Idle /\ OnError

Receive ==
  \/ WorkerInitializes
  \/ WorkerCancelsInitialization
  \/ WorkerGenerates
  \/ WorkerHearsCancel
  \/ WorkerDisposes

Run ==
  \/ WorkerIsReady
  \/ WorkerEndsJob
  \/ WorkerEndsCleanup

Next == Click \/ Continue \/ Fail \/ Hear \/ Receive \/ Run \/ WorkerInitializationFails

\* Awaited calls settle, messages arrive and the worker works; nothing says
\* that anyone clicks or that anything fails.
Fairness == WF_vars(Continue) /\ WF_vars(Hear) /\ WF_vars(Receive) /\ WF_vars(Run)

Spec == Init /\ [][Next]_vars

FairSpec == Spec /\ Fairness

(***************************************************************************)
(* A click on Generate is answered.  The page that it made busy is freed   *)
(* again, whatever workers, disposals and late continuations of other      *)
(* operations do in between; and a request the page has heard cancelled,   *)
(* in whichever phase, is never posted to a worker as a job: not by the    *)
(* continuation of the click, nor by a ready that was under way, nor by an *)
(* acquisition that comes late (music.ts 415, 466, 518, 547, 563, 620).    *)
(***************************************************************************)
ClickIsAnswered ==
  /\ page.busy ~> ~page.busy
  /\ [](posted \cap cancelled = {})
=============================================================================
