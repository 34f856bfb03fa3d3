----------------------------- MODULE AceBackend -----------------------------
(***************************************************************************)
(* AceWebGpuPipelineBackend (runtime/webgpu-pipeline.ts): the object the   *)
(* worker runtime drives.  What is kept is its busy flag, whether a GPU    *)
(* device is loaded, and who owns each audio output in OPFS.  A method is  *)
(* a synchronous prologue (Call...) and a completion (Finish...); between  *)
(* the two the backend awaits.  Numerics, weights and stages are left out. *)
(* An output is named by the job that produces it.                         *)
(***************************************************************************)
EXTENDS Naturals

VARIABLES
  operation,        \* this.operation
  deviceReady,      \* this.ready !== undefined: a device and weights are held
  committed,        \* committedAudioIds
  pendingRollback,  \* pendingRollbacks: transactions whose rollback failed
  pendingRelease,   \* pendingUnpublishedAudioIds
  stored            \* OPFS: outputs (partial or committed) present on disk

backendVars ==
  <<operation, deviceReady, committed, pendingRollback, pendingRelease, stored>>

BackendTypeOK ==
  /\ operation \in {"idle", "initializing", "generating", "disposing"}
  /\ deviceReady \in BOOLEAN
  /\ committed \in SUBSET Nat
  /\ pendingRollback \in SUBSET Nat
  /\ pendingRelease \in SUBSET Nat
  /\ stored \in SUBSET Nat

BackendInit ==
  /\ operation = "idle"
  /\ deviceReady = FALSE
  /\ committed = {}
  /\ pendingRollback = {}
  /\ pendingRelease = {}
  /\ stored = {}

outputVars == <<committed, pendingRollback, pendingRelease, stored>>

-----------------------------------------------------------------------------
(* Each method first refuses a call it cannot serve: an InvalidStateError   *)
(* (or NotFoundError) rejects its promise and changes nothing.              *)

AcceptsInitialize == operation = "idle" /\ ~deviceReady
AcceptsGenerate   == operation = "idle" /\ deviceReady
AcceptsDispose    == operation = "idle"
AcceptsRelease(j) == j \in committed

CallInitialize ==
  /\ operation' = IF AcceptsInitialize THEN "initializing" ELSE operation
  /\ UNCHANGED <<deviceReady, outputVars>>

CallGenerate ==
  /\ operation' = IF AcceptsGenerate THEN "generating" ELSE operation
  /\ UNCHANGED <<deviceReady, outputVars>>

\* Mutant: dispose() does not let go of the device.
CallDisposeKeepsDevice ==
  /\ operation' = IF AcceptsDispose THEN "disposing" ELSE operation
  /\ UNCHANGED <<deviceReady, outputVars>>

CallDispose ==
  /\ operation' = IF AcceptsDispose THEN "disposing" ELSE operation
  /\ deviceReady' = (deviceReady /\ ~AcceptsDispose)
  /\ UNCHANGED outputVars

(* retryPendingCleanup tries every owed rollback and release; those in      *)
(* rolled and released succeed.                                             *)
RetryPendingCleanup(rolled, released) ==
  /\ pendingRollback' = pendingRollback \ rolled
  /\ pendingRelease' = pendingRelease \ released
  /\ committed' = committed \ released
  /\ stored' = stored \ (rolled \cup released)

NothingOwed == pendingRollback = {} /\ pendingRelease = {}
CleanupComplete == pendingRollback' = {} /\ pendingRelease' = {}

-----------------------------------------------------------------------------
(* Completions of accepted calls.                                           *)

\* Mutant: the disposal of a cancelled initialization does not clear ready.
FinishInitializeKeepsDevice(ok, disposeNext) ==
  /\ UNCHANGED outputVars
  /\ operation' = IF disposeNext THEN "disposing" ELSE "idle"
  /\ deviceReady' = ok

\* disposeNext: the caller goes on to dispose() in the same turn, which an
\* idle backend accepts.
FinishInitialize(ok, disposeNext) ==
  /\ \E rolled \in SUBSET pendingRollback, released \in SUBSET pendingRelease :
       RetryPendingCleanup(rolled, released)
  /\ ok => CleanupComplete
  /\ operation' = IF disposeNext THEN "disposing" ELSE "idle"
  /\ deviceReady' = (ok /\ ~disposeNext)

FinishDispose(ok) ==
  /\ \E rolled \in SUBSET pendingRollback, released \in SUBSET pendingRelease :
       RetryPendingCleanup(rolled, released)
  /\ ok <=> CleanupComplete
  /\ operation' = "idle"
  /\ UNCHANGED deviceReady

\* A generation first retries what is owed, and goes on once nothing is.
RetryInGenerate ==
  /\ operation = "generating" /\ ~NothingOwed
  /\ RetryPendingCleanup(pendingRollback, pendingRelease)
  /\ UNCHANGED <<operation, deviceReady>>

\* It opens its audio transaction once denoising is done.
OpenTransaction(j) ==
  /\ operation = "generating" /\ NothingOwed
  /\ j \notin stored
  /\ stored' = stored \cup {j}
  /\ UNCHANGED <<operation, deviceReady, committed, pendingRollback, pendingRelease>>

FinishGenerateOk(j) ==
  /\ j \in stored
  /\ committed' = committed \cup {j}
  /\ operation' = "idle"
  /\ UNCHANGED <<deviceReady, pendingRollback, pendingRelease, stored>>

(* A failure may be that of the retry, which did part of its work.  It      *)
(* undoes the transaction if one is open: rolled back, or kept for a later  *)
(* rollback; or, when it failed after the durable commit, released, or kept *)
(* for a later release (the id may or may not have been entered in          *)
(* committedAudioIds yet).                                                  *)
FinishGenerateFailed(j) ==
  /\ operation' = "idle"
  /\ UNCHANGED deviceReady
  /\ \/ /\ j \notin stored
        /\ \E rolled \in SUBSET pendingRollback, released \in SUBSET pendingRelease :
             RetryPendingCleanup(rolled, released)
     \/ /\ stored' = stored \ {j}
        /\ UNCHANGED <<committed, pendingRollback, pendingRelease>>
     \/ /\ j \in stored
        /\ pendingRollback' = pendingRollback \cup {j}
        /\ UNCHANGED <<committed, pendingRelease, stored>>
     \/ /\ j \in stored
        /\ pendingRelease' = pendingRelease \cup {j}
        /\ committed' \in {committed, committed \cup {j}}
        /\ UNCHANGED <<pendingRollback, stored>>

\* What generate(), as job j, may do to the backend: its calls and its steps.
GenerateNext(j) ==
  \/ CallGenerate
  \/ RetryInGenerate
  \/ operation = "generating" /\ (OpenTransaction(j) \/ FinishGenerateOk(j) \/ FinishGenerateFailed(j))

\* Mutant: a failed release is not remembered.
FinishReleaseForgets(j, ok) ==
  /\ stored' = IF ok THEN stored \ {j} ELSE stored
  /\ committed' = committed \ {j}
  /\ UNCHANGED <<operation, deviceReady, pendingRollback, pendingRelease>>

FinishRelease(j, ok) ==
  /\ stored' = IF ok THEN stored \ {j} ELSE stored
  /\ committed' = IF ok THEN committed \ {j} ELSE committed
  /\ pendingRelease' = IF ok THEN pendingRelease \ {j} ELSE pendingRelease \cup {j}
  /\ UNCHANGED <<operation, deviceReady, pendingRollback>>
=============================================================================
