---------------------------- MODULE GpuScheduler ----------------------------
(***************************************************************************)
(* AceCooperativeGpuScheduler (runtime/scheduler.ts) over a WebGPU device: *)
(* graphs take turns through GraphOwner; the holder submits one command    *)
(* buffer at a time and awaits a fence for each, either one by one         *)
(* (cooperatively) or with one successor in flight and a true drain after  *)
(* each epoch (depth 2, epoch 4).  Buffers are numbered from 1.            *)
(*                                                                         *)
(* An encoder, a progress callback, the clock or queue.submit may throw at *)
(* every point where the code calls it; a fence may reject, and taking one *)
(* may throw, at most MaxFenceFailures times.                              *)
(***************************************************************************)
EXTENDS GraphOwner

CONSTANTS
  Cooperative,       \* graphs run by run and runLazy; the others by runLazyDepth2Epoch4
  EpochsOf,          \* the completion epochs of each graph
  MaxFenceFailures,  \* bound: fences that reject or cannot be taken
  Conforming         \* device.destroy() does not throw and device.lost resolves

Epoch == [phase : Nat, first : Nat \ {0}, last : Nat \ {0}]

IsPlan(epochs) ==
  /\ epochs # <<>>
  /\ epochs[1].first = 1
  /\ \A i \in 1..Len(epochs) :
       /\ epochs[i].first <= epochs[i].last /\ epochs[i].last < epochs[i].first + 4
       /\ i < Len(epochs) => epochs[i + 1].first = epochs[i].last + 1

ASSUME SchedulerConstants ==
  /\ Cooperative \subseteq Graphs
  /\ EpochsOf \in [Graphs -> Seq(Epoch)]
  /\ \A g \in Graphs : IsPlan(EpochsOf[g])
  /\ MaxFenceFailures \in Nat
  /\ Conforming \in BOOLEAN

VARIABLES
  run,            \* the submission of the holder
  signalAborted,  \* graphs whose options.signal is aborted
  gpu,            \* command buffers the device has yet to finish, by graph
  lost,           \* the device is lost
  fenceFailures   \* what is left of MaxFenceFailures

gpuVars == <<gpu, lost, fenceFailures>>
vars == <<ownerVars, run, signalAborted, gpuVars>>

\* Fence of command buffer index: it covers the ahead oldest members of gpu.
Fence == [index : Nat, ahead : Nat, state : {"open", "fulfilled", "rejected"}]

Step == {"granted", "await", "idle", "settling", "recovering", "losing", "stuck"}

Run ==
  [step : Step, epoch : Nat \ {0}, next : Nat \ {0}, pending : Seq(Fence),
   uncaptured : BOOLEAN, confirmed : BOOLEAN]

FreshRun ==
  [step |-> "granted", epoch |-> 1, next |-> 1, pending |-> <<>>,
   uncaptured |-> FALSE, confirmed |-> FALSE]

TypeOK ==
  /\ OwnerTypeOK
  /\ run \in Run
  /\ signalAborted \subseteq Graphs
  /\ gpu \in Seq(Graphs)
  /\ lost \in BOOLEAN
  /\ fenceFailures \in Nat

Init ==
  /\ OwnerInit
  /\ run = FreshRun
  /\ signalAborted = {}
  /\ gpu = <<>>
  /\ lost = FALSE
  /\ fenceFailures = MaxFenceFailures

Plan == EpochsOf[holder]
LastBuffer == Plan[Len(Plan)].last
Settled(fence) == fence.state # "open"
AFenceRejected == \E i \in 1..Len(run.pending) : run.pending[i].state = "rejected"

\* The execution of the holder ends and its lease is released.
End(result) == Release(result) /\ run' = FreshRun

FenceFails == fenceFailures > 0 /\ fenceFailures' = fenceFailures - 1
-----------------------------------------------------------------------------
(* The device and its queue (external).                                     *)

CountDown(ahead) == IF ahead = 0 THEN 0 ELSE ahead - 1

\* The oldest command buffer finishes.
DeviceExecutes ==
  /\ gpu # <<>>
  /\ gpu' = Tail(gpu)
  /\ run' = [run EXCEPT !.pending =
       [i \in DOMAIN @ |-> [index |-> @[i].index, ahead |-> CountDown(@[i].ahead), state |-> @[i].state]]]
  /\ UNCHANGED <<ownerVars, signalAborted, lost, fenceFailures>>

DropGpuWork ==
  /\ lost' = TRUE
  /\ gpu' = <<>>

\* The device is lost; its fences resolve.
DeviceIsLost ==
  /\ ~lost
  /\ DropGpuWork
  /\ run' = [run EXCEPT !.pending = [i \in DOMAIN @ |-> [@[i] EXCEPT !.ahead = 0]]]
  /\ UNCHANGED <<ownerVars, signalAborted, fenceFailures>>

FenceSettles(i) ==
  /\ i <= Len(run.pending) /\ run.pending[i].state = "open"
  /\ \/ /\ run.pending[i].ahead = 0
        /\ run' = [run EXCEPT !.pending[i].state = "fulfilled"]
        /\ UNCHANGED fenceFailures
     \/ /\ FenceFails
        /\ run' = [run EXCEPT !.pending[i].state = "rejected"]
  /\ UNCHANGED <<ownerVars, signalAborted, gpu, lost>>
-----------------------------------------------------------------------------
(* submitAceCommandBufferFactoriesCooperatively.                            *)

\* A lost device takes no work, and its fences resolve.
NewFences(first, n) ==
  [i \in 1..n |-> [index |-> first + i - 1, ahead |-> IF lost THEN 0 ELSE Len(gpu) + i,
                   state |-> "open"]]

Submits(n) ==
  gpu' = IF lost THEN gpu ELSE gpu \o [i \in 1..n |-> holder]

\* The next buffer; the step in which it throws ends the execution.  So does
\* an idle turn that follows a progress callback that threw.
CooperativeSubmits ==
  /\ holder \in Cooperative
  /\ run.step \in {"granted", "idle"}
  /\ \/ /\ End("rejected")                              \* nothing submitted
        /\ UNCHANGED <<gpu, fenceFailures>>
     \/ /\ holder \notin signalAborted
        /\ run' = [run EXCEPT !.step = "await", !.next = @ + 1,
                              !.pending = NewFences(run.next, 1)]
        /\ Submits(1)
        /\ UNCHANGED <<ownerVars, fenceFailures>>
     \/ /\ holder \notin signalAborted                  \* no fence was taken
        /\ FenceFails
        /\ Submits(1)
        /\ End("rejected")
  /\ UNCHANGED <<signalAborted, lost>>

\* After the await of the fence.
CooperativeDrained ==
  /\ holder \in Cooperative
  /\ run.step = "await"
  /\ Settled(run.pending[1])
  /\ \/ End("rejected")
     \/ /\ run.pending[1].state = "fulfilled"
        /\ holder \notin signalAborted
        /\ IF run.next > LastBuffer THEN End("resolved")
           ELSE run' = [run EXCEPT !.step = "idle", !.pending = <<>>] /\ UNCHANGED ownerVars
  /\ UNCHANGED <<signalAborted, gpuVars>>
-----------------------------------------------------------------------------
(* submitAceCommandBufferFactoriesDepth2Epoch4.                             *)

\* Up to count calls of submitOne by the run r; the last one may throw before
\* its buffer is submitted, or after it when its fence cannot be taken.
SubmitBuffers(r, count) ==
  \E n \in 0..count, end \in {"ok", "before", "uncaptured"} :
    /\ end = "ok" <=> n = count
    /\ holder \in signalAborted => n = 0 /\ end = "before"
    /\ run' = [r EXCEPT !.pending = @ \o NewFences(r.next, n),
                        !.next = @ + n,
                        !.confirmed = @ /\ n = 0 /\ end # "uncaptured",
                        !.uncaptured = end = "uncaptured",
                        !.step = IF end = "ok" THEN "await" ELSE "settling"]
    /\ Submits(n + IF end = "uncaptured" THEN 1 ELSE 0)
    /\ IF end = "uncaptured" THEN FenceFails ELSE UNCHANGED fenceFailures

\* What an epoch submits before it awaits its first fence.
Window(size) == IF size < 2 THEN size ELSE 2

EpochBegins ==
  /\ holder \in Graphs \ Cooperative
  /\ run.step \in {"granted", "idle"}
  /\ LET epoch == IF run.step = "idle" THEN run.epoch + 1 ELSE run.epoch
         size == Plan[epoch].last - Plan[epoch].first + 1
     IN SubmitBuffers([run EXCEPT !.epoch = epoch], Window(size))
  /\ UNCHANGED <<ownerVars, signalAborted, lost>>

\* After the await of the oldest fence, r being the run without it.
EpochContinues(r, drained) ==
  \/ /\ ~drained /\ r.next <= Plan[r.epoch].last
     /\ SubmitBuffers(r, 1)
     /\ UNCHANGED ownerVars
  \/ /\ ~drained /\ r.next > Plan[r.epoch].last
     /\ run' = r
     /\ UNCHANGED <<ownerVars, gpu, fenceFailures>>
  \/ /\ drained /\ r.epoch < Len(Plan)
     /\ run' = [r EXCEPT !.step = "idle"]
     /\ UNCHANGED <<ownerVars, gpu, fenceFailures>>
  \/ /\ drained /\ r.epoch = Len(Plan)
     /\ End("resolved")
     /\ UNCHANGED <<gpu, fenceFailures>>

\* Mutant: the buffer before the last one counts as the true drain.
DrainsOneEarly(index) == index >= Plan[run.epoch].last - 1

\* The fence of this buffer is the true drain of its epoch.
Drains(index) == index = Plan[run.epoch].last

\* A rejection seen in any fence stops the run before the oldest is counted.
FenceObserved ==
  /\ holder \in Graphs \ Cooperative
  /\ run.step = "await"
  /\ Settled(run.pending[1])
  /\ LET drained == Drains(run.pending[1].index)
         r == [run EXCEPT !.pending = Tail(@), !.confirmed = @ \/ drained]
     IN
     \/ /\ AFenceRejected
        /\ run' = [run EXCEPT !.step = "settling"]
        /\ UNCHANGED <<ownerVars, gpu, fenceFailures>>
     \/ /\ ~AFenceRejected
        /\ run' = [r EXCEPT !.step = "settling"]     \* abort, callback or clock
        /\ UNCHANGED <<ownerVars, gpu, fenceFailures>>
     \/ /\ ~AFenceRejected
        /\ holder \notin signalAborted
        /\ EpochContinues(r, drained)
  /\ UNCHANGED <<signalAborted, lost>>
-----------------------------------------------------------------------------
(* settleDepth2Failure.                                                     *)

HasSubmittedWork == run.next > 1 \/ run.uncaptured

\* Mutant: any fulfilled fence counts, not only the youngest.
AnyFenceConfirms ==
  \/ run.confirmed
  \/ ~run.uncaptured /\ \E i \in 1..Len(run.pending) : run.pending[i].state = "fulfilled"

\* The youngest fence covers all that was submitted.
TerminalConfirmed ==
  \/ run.confirmed
  \/ /\ ~run.uncaptured /\ run.pending # <<>>
     /\ run.pending[Len(run.pending)].state = "fulfilled"

DestroyDevice ==
  /\ \/ DropGpuWork
     \/ ~Conforming /\ UNCHANGED <<gpu, lost>>
  /\ run' = [run EXCEPT !.step = "losing", !.pending = <<>>]
  /\ UNCHANGED ownerVars

\* After the await of every pending outcome.
FailureSettles ==
  /\ run.step = "settling"
  /\ \A i \in 1..Len(run.pending) : Settled(run.pending[i])
  /\ IF HasSubmittedWork /\ ~TerminalConfirmed
     THEN \/ /\ run' = [run EXCEPT !.step = "recovering",
                          !.pending = <<[index |-> 0, ahead |-> Len(gpu), state |-> "open"]>>]
             /\ UNCHANGED <<ownerVars, gpuVars>>
          \/ FenceFails /\ DestroyDevice
     ELSE End("rejected") /\ UNCHANGED gpuVars
  /\ UNCHANGED signalAborted

RecoverySettles ==
  /\ run.step = "recovering"
  /\ Settled(run.pending[1])
  /\ IF run.pending[1].state = "fulfilled"
     THEN End("rejected") /\ UNCHANGED <<gpu, lost>>
     ELSE DestroyDevice
  /\ UNCHANGED <<signalAborted, fenceFailures>>

\* device.lost settles; were it to reject, the execution would never end.
LossSettles ==
  /\ run.step = "losing"
  /\ \/ lost /\ End("rejected")
     \/ ~Conforming /\ run' = [run EXCEPT !.step = "stuck"] /\ UNCHANGED ownerVars
  /\ UNCHANGED <<signalAborted, gpuVars>>
-----------------------------------------------------------------------------
AbortSignal(g) ==
  /\ g \notin signalAborted
  /\ signalAborted' = signalAborted \cup {g}
  /\ UNCHANGED <<ownerVars, run, gpuVars>>

OwnerCall ==
  /\ \/ \E g \in Graphs : Acquire(g) \/ AbortOwner(g)
     \/ DisposeOwner
  /\ UNCHANGED <<run, signalAborted, gpuVars>>

Submission ==
  \/ CooperativeSubmits \/ CooperativeDrained
  \/ EpochBegins \/ FenceObserved
  \/ FailureSettles \/ RecoverySettles \/ LossSettles

Device == DeviceExecutes \/ (\E i \in 1..2 : FenceSettles(i))

Next ==
  \/ OwnerCall
  \/ \E g \in Graphs : AbortSignal(g)
  \/ Submission
  \/ Device
  \/ DeviceIsLost

\* The device finishes what is submitted and settles its fences; the code
\* after an await that ended, and after the 1 ms idle timer, runs.
Fairness == WF_vars(Submission) /\ WF_vars(Device)

Spec == Init /\ [][Next]_vars /\ Fairness
-----------------------------------------------------------------------------
(* "One FIFO owner for aliased graph storage": while the device works on a  *)
(* graph's command buffers that graph holds the lease, so no other encodes  *)
(* over its storage - unless the device is lost.  dit-graph.ts 1641: the    *)
(* lease "is released only after drain".                                    *)
ReleasedOnlyAfterDrain ==
  ~lost => \A i \in 1..Len(gpu) : gpu[i] = holder

(* At most two command buffers are in flight, over all graphs.              *)
QueueDepth == Len(gpu) <= 2

(* What is reported as a true queue drain is one: in the idle turn between  *)
(* epochs the device has nothing left of the graph.                         *)
IdleIsDrained == run.step = "idle" => gpu = <<>>

(* A graph that reports success had all its buffers submitted and done, so  *)
(* "scheduling diagnostics did not reconcile" cannot be thrown.             *)
SuccessMeansComplete ==
  [][\A g \in Graphs :
       lease[g] # "resolved" /\ lease'[g] = "resolved" =>
         /\ run.next = LastBuffer + 1
         /\ gpu = <<>> /\ Len(run.pending) = 1]_vars

(* dispose() resolves only when no graph runs and none is queued, and then  *)
(* the caller destroys buffers (dit-graph.ts 1643-1649).                    *)
DisposalMeansIdle ==
  disposal = "resolved" => holder = 0 /\ waiting = <<>> /\ (gpu = <<>> \/ lost)

(* Whatever the scheduler reports as idle is idle.                          *)
ReportsAreTrue == IdleIsDrained /\ DisposalMeansIdle

(* Every acquire() settles and every dispose() resolves, whatever fails.    *)
AcquireSettles == \A g \in Graphs : (lease[g] = "waiting") ~> (lease[g] # "waiting")
DisposeResolves == (disposal = "pending") ~> (disposal = "resolved")
OwnerSettles == AcquireSettles /\ DisposeResolves
=============================================================================
