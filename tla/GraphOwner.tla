----------------------------- MODULE GraphOwner -----------------------------
(***************************************************************************)
(* AceFifoGraphOwner (runtime/scheduler.ts): one first-come first-served   *)
(* owner of the GPU storage that several graph executions alias.  A graph  *)
(* here is one execution; it acquires the lease once.                      *)
(***************************************************************************)
EXTENDS Naturals, Sequences, SequencesExt

CONSTANT Graphs   \* executions, by number

ASSUME GraphConstants == Graphs \subseteq Nat \ {0}

VARIABLES
  waiting,       \* queue of PendingLease, by graph
  holder,        \* the graph whose lease is not released; 0: not active
  disposal,      \* the promise of dispose(); "none" while not disposed
  nextSequence,
  sequence,      \* PendingLease.sequence of each graph; 0: not queued yet
  lease,         \* how the execution of each graph stands
  ownerAborted   \* graphs whose ownerSignal is aborted

ownerVars == <<waiting, holder, disposal, nextSequence, sequence, lease, ownerAborted>>

LeaseState == {"none", "waiting", "held", "resolved", "rejected"}

OwnerTypeOK ==
  /\ waiting \in Seq(Graphs)
  /\ holder \in Graphs \cup {0}
  /\ disposal \in {"none", "pending", "resolved"}
  /\ nextSequence \in Nat \ {0}
  /\ sequence \in [Graphs -> Nat]
  /\ lease \in [Graphs -> LeaseState]
  /\ ownerAborted \subseteq Graphs

OwnerInit ==
  /\ waiting = <<>>
  /\ holder = 0
  /\ disposal = "none"
  /\ nextSequence = 1
  /\ sequence = [g \in Graphs |-> 0]
  /\ lease = [g \in Graphs |-> "none"]
  /\ ownerAborted = {}

\* Mutant: the newest request is granted first.
GrantNewest(queue, leases) ==
  IF queue = <<>>
  THEN waiting' = <<>> /\ holder' = 0 /\ lease' = leases
  ELSE /\ holder' = queue[Len(queue)]
       /\ waiting' = SubSeq(queue, 1, Len(queue) - 1)
       /\ lease' = [leases EXCEPT ![queue[Len(queue)]] = "held"]

\* grantNext over the queue, leases settled so far.  (Its test for an aborted
\* request never succeeds: the abort has taken the request from the queue.)
GrantNext(queue, leases) ==
  IF queue = <<>>
  THEN waiting' = <<>> /\ holder' = 0 /\ lease' = leases
  ELSE /\ holder' = Head(queue)
       /\ waiting' = Tail(queue)
       /\ lease' = [leases EXCEPT ![Head(queue)] = "held"]

\* acquire(signal)
Acquire(g) ==
  /\ lease[g] = "none"
  /\ IF disposal # "none" \/ g \in ownerAborted
     THEN /\ lease' = [lease EXCEPT ![g] = "rejected"]
          /\ UNCHANGED <<waiting, holder, nextSequence, sequence>>
     ELSE /\ sequence' = [sequence EXCEPT ![g] = nextSequence]
          /\ nextSequence' = nextSequence + 1
          /\ LET queued == [lease EXCEPT ![g] = "waiting"] IN
             IF holder # 0
             THEN waiting' = Append(waiting, g) /\ lease' = queued /\ UNCHANGED holder
             ELSE GrantNext(Append(waiting, g), queued)
  /\ UNCHANGED <<disposal, ownerAborted>>

\* The owner signal aborts: a request that waits leaves the queue (onAbort);
\* a lease that is held is not revoked.
AbortOwner(g) ==
  /\ g \notin ownerAborted
  /\ ownerAborted' = ownerAborted \cup {g}
  /\ \/ \E index \in 1..Len(waiting) :
          /\ waiting[index] = g
          /\ waiting' = RemoveAt(waiting, index)
          /\ lease' = [lease EXCEPT ![g] = "rejected"]
     \/ g \notin ToSet(waiting) /\ UNCHANGED <<waiting, lease>>
  /\ UNCHANGED <<holder, disposal, nextSequence, sequence>>

\* Mutant: a release after dispose() does not resolve its promise.
ReleaseForgetsDisposal(result) ==
  LET settled == [lease EXCEPT ![holder] = result] IN
  /\ IF disposal = "none" THEN GrantNext(waiting, settled)
     ELSE holder' = 0 /\ lease' = settled /\ UNCHANGED waiting
  /\ UNCHANGED <<disposal, nextSequence, sequence, ownerAborted>>

\* The holder's lease.release() and the end of its execution.
Release(result) ==
  LET settled == [lease EXCEPT ![holder] = result] IN
  /\ IF disposal = "none" THEN GrantNext(waiting, settled) /\ UNCHANGED disposal
     ELSE /\ holder' = 0 /\ lease' = settled /\ disposal' = "resolved"
          /\ UNCHANGED waiting
  /\ UNCHANGED <<nextSequence, sequence, ownerAborted>>

\* Mutant: dispose() resolves at once.
DisposeOwnerAtOnce ==
  /\ disposal = "none"
  /\ disposal' = "resolved"
  /\ lease' = [g \in Graphs |-> IF lease[g] = "waiting" THEN "rejected" ELSE lease[g]]
  /\ waiting' = <<>>
  /\ UNCHANGED <<holder, nextSequence, sequence, ownerAborted>>

\* dispose(), the first time.
DisposeOwner ==
  /\ disposal = "none"
  /\ disposal' = IF holder = 0 THEN "resolved" ELSE "pending"
  /\ lease' = [g \in Graphs |-> IF lease[g] = "waiting" THEN "rejected" ELSE lease[g]]
  /\ waiting' = <<>>
  /\ UNCHANGED <<holder, nextSequence, sequence, ownerAborted>>
-----------------------------------------------------------------------------
(* First come, first served, whatever aborts in between.                    *)
ServedInOrder ==
  /\ \A g, h \in Graphs :
       lease[g] = "waiting" /\ sequence[h] > sequence[g] => lease[h] \in {"waiting", "rejected"}
  /\ \A i, j \in 1..Len(waiting) : i < j => sequence[waiting[i]] < sequence[waiting[j]]

(* A lease is never idle while a request waits for it, and a request that   *)
(* waits is in the queue.                                                   *)
NoLostWakeup ==
  \A g \in Graphs :
    lease[g] = "waiting" => holder # 0 /\ \E i \in 1..Len(waiting) : waiting[i] = g
=============================================================================
