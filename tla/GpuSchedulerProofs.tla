------------------------- MODULE GpuSchedulerProofs -------------------------
(***************************************************************************)
(* Proofs about GpuScheduler: the owner serves in order and never leaves a *)
(* request behind; and, where a cooperative graph meets no fence failure,  *)
(* a lease is released only when the device has drained or is lost.  The   *)
(* plans of EpochPlan tile their phases and are what the scheduler takes.  *)
(***************************************************************************)
EXTENDS GpuScheduler, EpochTiling, SequenceTheorems, FiniteSetTheorems, WellFoundedInduction, TLAPS

-----------------------------------------------------------------------------
(* GraphOwner: every operation of the FIFO owner keeps its queue in order   *)
(* and leaves no request behind.                                            *)

Waits(g) == \E i \in 1..Len(waiting) : waiting[i] = g

\* The queue holds exactly the requests that wait, in order of arrival.
OwnerInv ==
  /\ \A g \in Graphs : lease[g] = "waiting" <=> Waits(g)
  /\ \A g \in Graphs : lease[g] = "held" <=> g = holder
  /\ waiting # <<>> => holder # 0 /\ disposal = "none"
  /\ disposal = "resolved" => holder = 0
  /\ \A g \in Graphs : sequence[g] < nextSequence
  /\ \A g \in Graphs : lease[g] = "none" => sequence[g] = 0
  /\ \A g \in Graphs : lease[g] = "waiting" => sequence[g] > 0
  /\ ServedInOrder

OwnerOK == OwnerTypeOK /\ OwnerInv

(* A queue without its element at position i.                               *)
LEMMA RemovedAt ==
  ASSUME NEW S, NEW s \in Seq(S), NEW i \in 1..Len(s)
  PROVE  /\ RemoveAt(s, i) \in Seq(S)
         /\ Len(RemoveAt(s, i)) = Len(s) - 1
         /\ \A j \in 1..(Len(s) - 1) :
              RemoveAt(s, i)[j] = IF j < i THEN s[j] ELSE s[j + 1]
<1> DEFINE a == SubSeq(s, 1, i - 1)
           b == SubSeq(s, i + 1, Len(s))
<1>0. Len(s) \in Nat
  BY LenProperties
<1>1. \A j \in 1..Len(s) : s[j] \in S
  BY ElementOfSeq
<1>2. /\ a \in Seq(S) /\ Len(a) = i - 1
      /\ \A j \in 1..(i - 1) : a[j] = s[j]
  <2>1. \A j \in 1..(i - 1) : s[j] \in S
    BY <1>0, <1>1
  <2>2. /\ a \in Seq(S)
        /\ Len(a) = IF 1 <= i - 1 THEN i - 1 - 1 + 1 ELSE 0
        /\ \A j \in 1..(i - 1 - 1 + 1) : a[j] = s[1 + j - 1]
    BY <2>1, <1>0, SubSeqProperties
  <2> QED  BY <2>2, <1>0
<1>3. /\ b \in Seq(S) /\ Len(b) = Len(s) - i
      /\ \A j \in 1..(Len(s) - i) : b[j] = s[i + j]
  <2>1. \A j \in (i + 1)..Len(s) : s[j] \in S
    BY <1>0, <1>1
  <2>2. /\ b \in Seq(S)
        /\ Len(b) = IF i + 1 <= Len(s) THEN Len(s) - (i + 1) + 1 ELSE 0
        /\ \A j \in 1..(Len(s) - (i + 1) + 1) : b[j] = s[i + 1 + j - 1]
    BY <2>1, <1>0, SubSeqProperties
  <2> QED  BY <2>2, <1>0
<1>4. /\ a \o b \in Seq(S)
      /\ Len(a \o b) = Len(a) + Len(b)
      /\ \A j \in 1..(Len(a) + Len(b)) : (a \o b)[j] = IF j <= Len(a) THEN a[j] ELSE b[j - Len(a)]
  BY <1>2, <1>3, ConcatProperties
<1>5. RemoveAt(s, i) = a \o b
  BY DEF RemoveAt
<1> HIDE DEF a, b
<1>6. ASSUME NEW j \in 1..(Len(s) - 1)
      PROVE  (a \o b)[j] = IF j < i THEN s[j] ELSE s[j + 1]
  <2>1. CASE j < i
    <3>1. j \in 1..(i - 1) /\ j <= Len(a) /\ j \in 1..(Len(a) + Len(b))
      BY <2>1, <1>0, <1>2, <1>3
    <3> QED  BY <2>1, <3>1, <1>2, <1>4
  <2>2. CASE ~(j < i)
    <3> DEFINE k == j - Len(a)
    <3>1. /\ k \in 1..(Len(s) - i) /\ ~(j <= Len(a)) /\ j \in 1..(Len(a) + Len(b))
          /\ i + k = j + 1
      BY <2>2, <1>0, <1>2, <1>3
    <3>2. (a \o b)[j] = b[k]
      BY <3>1, <1>4
    <3>3. b[k] = s[i + k]
      BY <3>1, <1>3
    <3> QED  BY <2>2, <3>1, <3>2, <3>3
  <2> QED  BY <2>1, <2>2
<1>7. Len(a \o b) = Len(s) - 1
  BY <1>0, <1>2, <1>3, <1>4
<1> QED  BY <1>4, <1>5, <1>6, <1>7

LEMMA OwnerStarts == OwnerInit => OwnerOK
  BY GraphConstants DEF OwnerInit, OwnerOK, OwnerTypeOK, OwnerInv, Waits, LeaseState, ServedInOrder

(* A request is granted at once, queued behind the others, or refused.      *)
LEMMA AcquireKeeps ==
  ASSUME OwnerOK, NEW g \in Graphs, Acquire(g)
  PROVE  OwnerOK'
<1> USE DEF OwnerOK, OwnerTypeOK, OwnerInv
<1>1. CASE disposal # "none" \/ g \in ownerAborted
  <2>1. /\ lease' = [lease EXCEPT ![g] = "rejected"] /\ lease[g] = "none"
        /\ UNCHANGED <<waiting, holder, nextSequence, sequence, disposal, ownerAborted>>
    BY <1>1 DEF Acquire
  <2>2. /\ lease' \in [Graphs -> LeaseState] /\ lease'[g] = "rejected"
        /\ \A h \in Graphs : h # g => lease'[h] = lease[h]
    BY <2>1 DEF LeaseState
  <2>3. OwnerTypeOK'
    BY <2>1, <2>2
  <2>4. \A h \in Graphs : Waits(h)' <=> Waits(h)
    BY <2>1 DEF Waits
  <2>5. ServedInOrder'
    BY <2>1, <2>2 DEF ServedInOrder
  <2>6. /\ \A h \in Graphs : lease'[h] = "waiting" <=> Waits(h)'
        /\ \A h \in Graphs : lease'[h] = "held" <=> h = holder'
    BY <2>1, <2>2, <2>4
  <2>7. /\ \A h \in Graphs : lease'[h] = "none" => sequence'[h] = 0
        /\ \A h \in Graphs : lease'[h] = "waiting" => sequence'[h] > 0
        /\ \A h \in Graphs : sequence'[h] < nextSequence'
    BY <2>1, <2>2
  <2> QED  BY <2>1, <2>3, <2>5, <2>6, <2>7
<1>2. CASE ~(disposal # "none" \/ g \in ownerAborted) /\ holder # 0
  <2>1. /\ waiting' = Append(waiting, g)
        /\ lease' = [lease EXCEPT ![g] = "waiting"]
        /\ sequence' = [sequence EXCEPT ![g] = nextSequence]
        /\ nextSequence' = nextSequence + 1
        /\ lease[g] = "none"
        /\ UNCHANGED <<holder, disposal, ownerAborted>>
    BY <1>2 DEF Acquire
  <2>2. /\ waiting' \in Seq(Graphs) /\ waiting' # <<>>
        /\ Len(waiting') = Len(waiting) + 1 /\ Len(waiting) \in Nat
        /\ \A i \in 1..Len(waiting) : waiting'[i] = waiting[i]
        /\ waiting'[Len(waiting) + 1] = g
    BY <2>1, AppendProperties, LenProperties
  <2>3. \A i \in 1..Len(waiting) : waiting[i] \in Graphs /\ waiting[i] # g
    BY <2>1, ElementOfSeq DEF Waits
  <2>4. OwnerTypeOK'
    BY <2>1, <2>2 DEF LeaseState
  <2>5. \A h \in Graphs : Waits(h)' <=> (Waits(h) \/ h = g)
    <3> TAKE h \in Graphs
    <3>1. Waits(h) => Waits(h)'
      BY <2>2 DEF Waits
    <3>2. Waits(g)'
      BY <2>2 DEF Waits
    <3>3. ASSUME NEW i \in 1..Len(waiting'), waiting'[i] = h, h # g
          PROVE  i \in 1..Len(waiting) /\ waiting[i] = h
      BY <3>3, <2>2
    <3> QED  BY <3>1, <3>2, <3>3 DEF Waits
  <2>6. ServedInOrder'
    BY <2>1, <2>2, <2>3 DEF ServedInOrder
  <2> QED
    BY <1>2, <2>1, <2>2, <2>4, <2>5, <2>6, GraphConstants
<1>3. CASE ~(disposal # "none" \/ g \in ownerAborted) /\ holder = 0
  <2>1. waiting = <<>>
    BY <1>3
  <2>2. Append(waiting, g) = <<g>> /\ <<g>> # <<>> /\ Head(<<g>>) = g /\ Tail(<<g>>) = <<>>
    BY <2>1
  <2>3. /\ waiting' = <<>> /\ holder' = g
        /\ lease' = [lease EXCEPT ![g] = "held"]
        /\ sequence' = [sequence EXCEPT ![g] = nextSequence]
        /\ nextSequence' = nextSequence + 1
        /\ lease[g] = "none"
        /\ UNCHANGED <<disposal, ownerAborted>>
    <3>1. GrantNext(<<g>>, [lease EXCEPT ![g] = "waiting"])
      BY <1>3, <2>2 DEF Acquire
    <3>2. lease' = [[lease EXCEPT ![g] = "waiting"] EXCEPT ![g] = "held"]
      BY <3>1, <2>2 DEF GrantNext
    <3>3. lease' = [lease EXCEPT ![g] = "held"]
      BY <3>2
    <3> QED  BY <1>3, <2>2, <3>1, <3>3 DEF Acquire, GrantNext
  <2>4. \A h \in Graphs : lease[h] # "waiting" /\ ~Waits(h)'
    BY <2>1, <2>3 DEF Waits
  <2>5. OwnerTypeOK'
    BY <2>3 DEF LeaseState
  <2>6. ServedInOrder'
    BY <2>3, <2>4 DEF ServedInOrder
  <2> QED
    BY <1>3, <2>3, <2>4, <2>5, <2>6, GraphConstants
<1> QED  BY <1>1, <1>2, <1>3

(* The lease passes to the oldest request, or nobody waits.                 *)
LEMMA ReleaseKeeps ==
  ASSUME OwnerOK, holder \in Graphs, NEW result \in {"resolved", "rejected"}, Release(result)
  PROVE  OwnerOK'
<1> USE DEF OwnerOK, OwnerTypeOK, OwnerInv
<1> DEFINE settled == [lease EXCEPT ![holder] = result]
<1>0. UNCHANGED <<nextSequence, sequence, ownerAborted>>
  BY DEF Release
<1>1. CASE waiting = <<>>
  <2>1. /\ waiting' = <<>> /\ holder' = 0 /\ lease' = settled
        /\ disposal' \in {"none", "resolved"}
    BY <1>1 DEF Release, GrantNext
  <2>2. \A h \in Graphs : lease[h] # "waiting" /\ ~Waits(h)'
    BY <1>1, <2>1 DEF Waits
  <2>3. OwnerTypeOK'
    BY <1>0, <2>1 DEF LeaseState
  <2>4. ServedInOrder'
    BY <1>0, <2>1, <2>2 DEF ServedInOrder
  <2> QED
    BY <1>0, <2>1, <2>2, <2>3, <2>4, GraphConstants
<1>2. CASE waiting # <<>>
  <2> DEFINE g == Head(waiting)
  <2>1. /\ Len(waiting) \in Nat /\ Len(waiting) >= 1
        /\ g = waiting[1] /\ g \in Graphs
        /\ Tail(waiting) \in Seq(Graphs) /\ Len(Tail(waiting)) = Len(waiting) - 1
        /\ \A i \in 1..(Len(waiting) - 1) : Tail(waiting)[i] = waiting[i + 1]
    BY <1>2, HeadTailProperties, LenProperties, EmptySeq
  <2>2. lease[g] = "waiting" /\ g # holder /\ disposal = "none"
    BY <1>2, <2>1 DEF Waits
  <2>3. /\ waiting' = Tail(waiting) /\ holder' = g
        /\ lease' = [settled EXCEPT ![g] = "held"]
        /\ disposal' = "none"
    BY <1>2, <2>2 DEF Release, GrantNext
  <2> HIDE DEF g
  <2>4. /\ lease'[g] = "held" /\ lease'[holder] = result
        /\ \A h \in Graphs \ {g, holder} : lease'[h] = lease[h]
        /\ lease' \in [Graphs -> LeaseState]
    BY <2>1, <2>2, <2>3 DEF LeaseState
  <2>5. \A i, j \in 1..Len(waiting) : i < j => sequence[waiting[i]] < sequence[waiting[j]]
    BY DEF ServedInOrder
  <2>6. \A i \in 2..Len(waiting) : waiting[i] # g /\ sequence[g] < sequence[waiting[i]]
    <3>1. \A i \in 2..Len(waiting) : sequence[waiting[1]] < sequence[waiting[i]]
      BY <2>1, <2>5
    <3>2. \A i \in 1..Len(waiting) : waiting[i] \in Graphs
      BY ElementOfSeq
    <3> QED  BY <2>1, <3>1, <3>2
  <2>7. \A h \in Graphs : Waits(h)' <=> (Waits(h) /\ h # g)
    <3>1. \A h \in Graphs : Waits(h)' <=> \E i \in 2..Len(waiting) : waiting[i] = h
      <4> TAKE h \in Graphs
      <4>1. ASSUME NEW i \in 2..Len(waiting), waiting[i] = h
            PROVE  Waits(h)'
        <5>1. i - 1 \in 1..Len(waiting') /\ waiting'[i - 1] = h
          BY <4>1, <2>1, <2>3
        <5> QED  BY <5>1 DEF Waits
      <4>2. ASSUME NEW i \in 1..Len(waiting'), waiting'[i] = h
            PROVE  \E k \in 2..Len(waiting) : waiting[k] = h
        <5>1. i + 1 \in 2..Len(waiting) /\ waiting[i + 1] = h
          BY <4>2, <2>1, <2>3
        <5> QED  BY <5>1
      <4> QED  BY <4>1, <4>2 DEF Waits
    <3> QED  BY SMTT(30), <2>1, <2>6, <3>1 DEF Waits
  <2>8. OwnerTypeOK'
    BY <1>0, <2>1, <2>3, <2>4
  <2>9. ServedInOrder'
    <3>1. ASSUME NEW a \in Graphs, NEW h \in Graphs,
                 lease'[a] = "waiting", sequence'[h] > sequence'[a]
          PROVE  lease'[h] \in {"waiting", "rejected"}
      <4>1. lease[a] = "waiting" /\ a # g
        BY <3>1, <2>4, <2>2
      <4>2. sequence[g] < sequence[a]
        BY <4>1, <2>1, <2>6 DEF Waits
      <4>3. h # g
        BY <4>2, <3>1, <1>0
      <4>4. lease[h] \in {"waiting", "rejected"}
        BY <4>1, <3>1, <1>0 DEF ServedInOrder
      <4>5. h # holder
        BY <4>4
      <4> QED  BY <4>3, <4>4, <4>5, <2>4
    <3>2. ASSUME NEW i \in 1..Len(waiting'), NEW j \in 1..Len(waiting'), i < j
          PROVE  sequence'[waiting'[i]] < sequence'[waiting'[j]]
      <4>1. /\ i + 1 \in 1..Len(waiting) /\ j + 1 \in 1..Len(waiting) /\ i + 1 < j + 1
            /\ waiting'[i] = waiting[i + 1] /\ waiting'[j] = waiting[j + 1]
        BY <3>2, <2>1, <2>3
      <4> QED  BY <4>1, <2>5, <1>0
    <3> QED  BY <3>1, <3>2 DEF ServedInOrder
  <2>10. \A a \in Graphs : lease'[a] = "waiting" <=> (lease[a] = "waiting" /\ a # g)
    BY <2>2, <2>4
  <2>11. \A a \in Graphs : lease'[a] = "held" <=> a = holder'
    BY <2>2, <2>3, <2>4
  <2>12. \A a \in Graphs : lease'[a] = "none" => lease[a] = "none"
    BY <2>2, <2>4
  <2>13. holder' # 0
    BY <2>1, <2>3, GraphConstants
  <2> QED
    BY <1>0, <2>3, <2>7, <2>8, <2>9, <2>10, <2>11, <2>12, <2>13
<1> QED  BY <1>1, <1>2

(* An abort takes at most the one request from the queue.                   *)
LEMMA AbortKeeps ==
  ASSUME OwnerOK, NEW g \in Graphs, AbortOwner(g)
  PROVE  OwnerOK'
<1> USE DEF OwnerOK, OwnerTypeOK, OwnerInv
<1>0. /\ UNCHANGED <<holder, disposal, nextSequence, sequence>>
      /\ ownerAborted' \subseteq Graphs
  BY DEF AbortOwner
<1>1. CASE UNCHANGED <<waiting, lease>>
  BY <1>0, <1>1 DEF Waits, ServedInOrder
<1>2. ASSUME NEW k \in 1..Len(waiting), waiting[k] = g,
             waiting' = RemoveAt(waiting, k), lease' = [lease EXCEPT ![g] = "rejected"]
      PROVE  OwnerOK'
  <2> DEFINE n == Len(waiting)
  <2>1. /\ waiting' \in Seq(Graphs) /\ Len(waiting') = n - 1
        /\ \A j \in 1..(n - 1) : waiting'[j] = IF j < k THEN waiting[j] ELSE waiting[j + 1]
    <3>1. /\ RemoveAt(waiting, k) \in Seq(Graphs)
          /\ Len(RemoveAt(waiting, k)) = Len(waiting) - 1
          /\ \A j \in 1..(Len(waiting) - 1) :
               RemoveAt(waiting, k)[j] = IF j < k THEN waiting[j] ELSE waiting[j + 1]
      BY RemovedAt
    <3> QED  BY <3>1, <1>2
  <2>2. n \in Nat /\ \A i \in 1..n : waiting[i] \in Graphs
    BY ElementOfSeq, LenProperties
  <2> HIDE DEF n
  <2>3. \A i, j \in 1..n : i < j => sequence[waiting[i]] < sequence[waiting[j]]
    BY DEF ServedInOrder, n
  <2>4. \A i \in 1..n : i # k => waiting[i] # g
    <3>1. \A i \in 1..n : sequence[waiting[i]] \in Nat
      BY <2>2
    <3>2. k \in 1..n
      BY <1>2 DEF n
    <3>3. \A i \in 1..n : i # k => i < k \/ k < i
      BY <3>2
    <3>4. \A i \in 1..n : i # k => sequence[waiting[i]] # sequence[waiting[k]]
      BY <2>3, <3>1, <3>2, <3>3
    <3> QED  BY <3>4, <1>2
  <2>5. lease[g] = "waiting" /\ n >= 1
    BY <1>2, <2>2 DEF Waits, n
  <2>6. \A h \in Graphs : Waits(h)' <=> (Waits(h) /\ h # g)
    <3> TAKE h \in Graphs
    <3>1. ASSUME NEW i \in 1..Len(waiting'), waiting'[i] = h
          PROVE  \E m \in 1..n : waiting[m] = h /\ h # g
      <4>1. CASE i < k
        <5>1. i \in 1..n /\ i # k /\ waiting[i] = h
          BY <4>1, <3>1, <2>1, <2>2
        <5> QED  BY <5>1, <2>4
      <4>2. CASE ~(i < k)
        <5>1. i + 1 \in 1..n /\ i + 1 # k /\ waiting[i + 1] = h
          BY <4>2, <3>1, <2>1, <2>2
        <5> QED  BY <5>1, <2>4
      <4> QED  BY <4>1, <4>2
    <3>2. ASSUME NEW m \in 1..n, waiting[m] = h, h # g
          PROVE  Waits(h)'
      <4>1. m # k
        BY <3>2, <1>2
      <4>2. CASE m < k
        <5>1. m \in 1..Len(waiting') /\ waiting'[m] = h
          BY <4>2, <3>2, <2>1, <2>2 DEF n
        <5> QED  BY <5>1 DEF Waits
      <4>3. CASE m > k
        <5>1. m - 1 \in 1..Len(waiting') /\ waiting'[m - 1] = h
          BY SMTT(30), <4>3, <3>2, <2>1, <2>2 DEF n
        <5> QED  BY <5>1 DEF Waits
      <4> QED  BY <4>1, <4>2, <4>3, <2>2 DEF n
    <3> QED  BY <3>1, <3>2 DEF Waits, n
  <2>7. OwnerTypeOK'
    BY <1>0, <1>2, <2>1 DEF LeaseState
  <2>8. ServedInOrder'
    <3>1. ASSUME NEW a \in Graphs, NEW h \in Graphs,
                 lease'[a] = "waiting", sequence'[h] > sequence'[a]
          PROVE  lease'[h] \in {"waiting", "rejected"}
      <4>1. lease[a] = "waiting"
        BY <3>1, <1>2
      <4>2. lease[h] \in {"waiting", "rejected"}
        BY <4>1, <3>1, <1>0 DEF ServedInOrder
      <4> QED  BY <4>2, <1>2
    <3>2. ASSUME NEW i \in 1..Len(waiting'), NEW j \in 1..Len(waiting'), i < j
          PROVE  sequence'[waiting'[i]] < sequence'[waiting'[j]]
      <4> DEFINE a == IF i < k THEN i ELSE i + 1
                 b == IF j < k THEN j ELSE j + 1
      <4>0. i \in 1..(n - 1) /\ j \in 1..(n - 1) /\ k \in 1..n
        BY <2>1, <1>2 DEF n
      <4>1. a \in 1..n /\ b \in 1..n /\ a < b
        BY <4>0, <3>2, <2>2
      <4>2. waiting'[i] = waiting[a] /\ waiting'[j] = waiting[b]
        BY <4>0, <2>1
      <4> HIDE DEF a, b
      <4> QED  BY <4>1, <4>2, <2>3, <1>0
    <3> QED  BY <3>1, <3>2 DEF ServedInOrder
  <2>9. waiting' # <<>> => waiting # <<>>
    BY <2>5 DEF n
  <2>10. \A a \in Graphs : lease'[a] = IF a = g THEN "rejected" ELSE lease[a]
    BY <1>2
  <2> QED
    BY <1>0, <2>5, <2>6, <2>7, <2>8, <2>9, <2>10
<1> QED  BY <1>1, <1>2 DEF AbortOwner

(* dispose() rejects all that waits.                                        *)
LEMMA DisposeKeeps ==
  ASSUME OwnerOK, DisposeOwner
  PROVE  OwnerOK'
<1> USE DEF OwnerOK, OwnerTypeOK, OwnerInv
<1>1. /\ waiting' = <<>> /\ UNCHANGED <<holder, nextSequence, sequence, ownerAborted>>
      /\ disposal' \in {"pending", "resolved"} /\ (disposal' = "resolved" => holder = 0)
      /\ \A g \in Graphs : lease'[g] = IF lease[g] = "waiting" THEN "rejected" ELSE lease[g]
      /\ lease' \in [Graphs -> LeaseState]
  BY DEF DisposeOwner, LeaseState
<1>2. \A g \in Graphs : ~Waits(g)' /\ lease'[g] # "waiting"
  BY <1>1 DEF Waits
<1>3. ServedInOrder'
  BY <1>1, <1>2 DEF ServedInOrder
<1> QED  BY <1>1, <1>2, <1>3, GraphConstants

(* An order of arrival that is kept wakes every request.                    *)
LEMMA OwnerWakes == OwnerOK => NoLostWakeup
  BY DEF OwnerOK, OwnerInv, NoLostWakeup, Waits

-----------------------------------------------------------------------------
(* GpuScheduler.                                                            *)

Depth2 == holder \in Graphs \ Cooperative

\* Where a run stands in the plan of its graph.
RunInPlan ==
  /\ holder = 0 => run = FreshRun
  /\ run.step = "granted" => run = FreshRun
  /\ Depth2 => run.epoch \in 1..Len(Plan)
  /\ Depth2 /\ run.step = "idle" => run.epoch < Len(Plan)
  /\ holder \in Cooperative /\ run.step \in {"granted", "idle"} => run.next <= LastBuffer
  /\ holder \in Cooperative /\ run.step = "await" => run.next <= LastBuffer + 1

\* The fences that are pending are those of the youngest buffers.
PendingAreYoungest ==
  \A i \in 1..Len(run.pending) :
    run.pending[i].index = run.next - Len(run.pending) + i - 1

YoungestCovers == run.pending[Len(run.pending)].ahead = Len(gpu)

FencesTellTruth ==
  \A i \in 1..Len(run.pending) :
    /\ run.pending[i].state = "fulfilled" => run.pending[i].ahead = 0
    /\ run.pending[i].state = "rejected" => MaxFenceFailures > 0

\* What the fences of the holder say of the work of the device.
DrainInv ==
  /\ fenceFailures <= MaxFenceFailures
  /\ lost => gpu = <<>>
  /\ \A i \in 1..Len(gpu) : gpu[i] = holder
  /\ Len(gpu) <= 2
  /\ FencesTellTruth
  /\ run.confirmed => gpu = <<>> /\ holder \notin Cooperative
  /\ run.step \in {"granted", "idle"} => gpu = <<>> /\ run.pending = <<>> /\ ~run.uncaptured
  /\ run.step = "await" =>
       /\ Len(run.pending) \in {1, 2} /\ ~run.uncaptured /\ YoungestCovers
       /\ PendingAreYoungest /\ run.next > Len(run.pending)
       /\ Len(run.pending) = 2 => run.pending[2].ahead <= run.pending[1].ahead + 1
       /\ holder \in Cooperative => Len(run.pending) = 1
  /\ Depth2 /\ run.step = "idle" => run.next = Plan[run.epoch].last + 1
  /\ Depth2 /\ run.step = "await" => run.next <= Plan[run.epoch].last + 1
  /\ run.step = "settling" =>
       /\ ~run.uncaptured /\ run.pending # <<>> => YoungestCovers
       /\ ~HasSubmittedWork => gpu = <<>>
  /\ run.step = "recovering" => Len(run.pending) = 1 /\ YoungestCovers

\* A lease that ends with work on the device needs a cooperative graph, and
\* a fence that fails.
FencesSuffice == Cooperative = {} \/ MaxFenceFailures = 0

Inv == TypeOK /\ OwnerInv /\ RunInPlan
-----------------------------------------------------------------------------
(* Lemmas about plans and sequences.                                        *)

LEMMA PlanFacts ==
  ASSUME NEW g \in Graphs
  PROVE  LET plan == EpochsOf[g] IN
         /\ Len(plan) \in Nat \ {0}
         /\ \A i \in 1..Len(plan) :
              /\ plan[i].first \in Nat \ {0} /\ plan[i].last \in Nat \ {0}
              /\ plan[i].first <= plan[i].last
              /\ i < Len(plan) => plan[i + 1].first = plan[i].last + 1
         /\ plan[1].first = 1
<1> DEFINE plan == EpochsOf[g]
<1>1. plan \in Seq(Epoch) /\ IsPlan(plan)
  BY SchedulerConstants
<1> HIDE DEF plan
<1>2. Len(plan) \in Nat \ {0}
  BY <1>1, EmptySeq DEF IsPlan
<1>3. \A i \in 1..Len(plan) : plan[i] \in Epoch
  BY <1>1, ElementOfSeq
<1>4. \A i \in 1..Len(plan) : plan[i].first \in Nat \ {0} /\ plan[i].last \in Nat \ {0}
  BY <1>3 DEF Epoch
<1>5. QED
  BY <1>1, <1>2, <1>4 DEF IsPlan, plan

LEMMA FunctionIsSeq ==
  ASSUME NEW S, NEW n \in Nat, NEW f \in [1..n -> S]
  PROVE  f \in Seq(S) /\ Len(f) = n
<1>1. f \in Seq(S)
  BY SeqDef
<1>2. Len(f) \in Nat /\ 1..Len(f) = 1..n
  BY <1>1, LenProperties
<1> QED  BY <1>1, <1>2

LEMMA NewFencesFacts ==
  ASSUME TypeOK, NEW first \in Nat \ {0}, NEW n \in Nat
  PROVE  /\ NewFences(first, n) \in Seq(Fence)
         /\ Len(NewFences(first, n)) = n
         /\ \A i \in 1..n :
              /\ NewFences(first, n)[i].index = first + i - 1
              /\ NewFences(first, n)[i].ahead = IF lost THEN 0 ELSE Len(gpu) + i
              /\ NewFences(first, n)[i].state = "open"
<1>1. Len(gpu) \in Nat
  BY LenProperties DEF TypeOK
<1>2. \A i \in 1..n : first + i - 1 \in Nat /\ (IF lost THEN 0 ELSE Len(gpu) + i) \in Nat
  BY <1>1
<1>3. NewFences(first, n) \in [1..n -> Fence]
  BY <1>2 DEF NewFences, Fence
<1> QED  BY <1>3, FunctionIsSeq DEF NewFences

LEMMA SubmitsFacts ==
  ASSUME TypeOK, holder \in Graphs, NEW n \in Nat, Submits(n)
  PROVE  /\ gpu' \in Seq(Graphs)
         /\ Len(gpu') = IF lost THEN Len(gpu) ELSE Len(gpu) + n
         /\ \A i \in 1..Len(gpu') : gpu'[i] = IF i <= Len(gpu) THEN gpu[i] ELSE holder
         /\ lost => gpu' = gpu
<1> DEFINE new == [i \in 1..n |-> holder]
<1>1. new \in Seq(Graphs) /\ Len(new) = n /\ \A i \in 1..n : new[i] = holder
  BY FunctionIsSeq
<1>2. gpu \in Seq(Graphs) /\ Len(gpu) \in Nat /\ lost \in BOOLEAN
  BY LenProperties DEF TypeOK
<1>3. gpu' = IF lost THEN gpu ELSE gpu \o new
  BY DEF Submits
<1> HIDE DEF new
<1>4. /\ gpu \o new \in Seq(Graphs) /\ Len(gpu \o new) = Len(gpu) + n
      /\ \A i \in 1..(Len(gpu) + n) :
           (gpu \o new)[i] = IF i <= Len(gpu) THEN gpu[i] ELSE new[i - Len(gpu)]
  BY <1>1, <1>2, ConcatProperties
<1>5. \A i \in 1..(Len(gpu) + n) : (gpu \o new)[i] = IF i <= Len(gpu) THEN gpu[i] ELSE holder
  <2> TAKE i \in 1..(Len(gpu) + n)
  <2>1. ~(i <= Len(gpu)) => i - Len(gpu) \in 1..n
    BY <1>2
  <2> QED  BY <2>1, <1>1, <1>4
<1>6. CASE lost
  BY <1>2, <1>3, <1>6
<1>7. CASE ~lost
  BY <1>2, <1>3, <1>4, <1>5, <1>7
<1> QED  BY <1>6, <1>7, <1>2

(* The fences that are pending after the device has moved on.               *)
LEMMA MovedFences ==
  ASSUME TypeOK, NEW moved, moved \in [1..Len(run.pending) -> Nat],
         run' = [run EXCEPT !.pending =
                   [i \in DOMAIN run.pending |-> [run.pending[i] EXCEPT !.ahead = moved[i]]]]
  PROVE  /\ run' \in Run
         /\ Len(run'.pending) = Len(run.pending)
         /\ \A i \in 1..Len(run.pending) :
              /\ run'.pending[i].index = run.pending[i].index
              /\ run'.pending[i].ahead = moved[i]
              /\ run'.pending[i].state = run.pending[i].state
         /\ run'.step = run.step /\ run'.epoch = run.epoch /\ run'.next = run.next
         /\ run'.uncaptured = run.uncaptured /\ run'.confirmed = run.confirmed
<1> DEFINE fences == [i \in DOMAIN run.pending |-> [run.pending[i] EXCEPT !.ahead = moved[i]]]
<1>1. /\ run \in Run /\ run.pending \in Seq(Fence)
      /\ Len(run.pending) \in Nat /\ DOMAIN run.pending = 1..Len(run.pending)
      /\ \A i \in 1..Len(run.pending) : run.pending[i] \in Fence
  <2>1. run.pending \in Seq(Fence)
    BY DEF TypeOK, Run
  <2> QED  BY <2>1, LenProperties, ElementOfSeq DEF TypeOK
<1>2. \A i \in 1..Len(run.pending) :
        /\ fences[i].index = run.pending[i].index
        /\ fences[i].ahead = moved[i]
        /\ fences[i].state = run.pending[i].state
        /\ fences[i] \in Fence
  BY <1>1 DEF Fence
<1>3. fences \in [1..Len(run.pending) -> Fence]
  BY <1>1, <1>2
<1>4. fences \in Seq(Fence) /\ Len(fences) = Len(run.pending)
  BY <1>1, <1>3, FunctionIsSeq
<1> HIDE DEF fences
<1>5. run' = [run EXCEPT !.pending = fences]
  BY DEF fences
<1>6. /\ run' \in Run /\ run'.pending = fences
      /\ run'.step = run.step /\ run'.epoch = run.epoch /\ run'.next = run.next
      /\ run'.uncaptured = run.uncaptured /\ run'.confirmed = run.confirmed
  BY <1>1, <1>4, <1>5 DEF Run
<1> QED  BY <1>2, <1>4, <1>6

(* What a call of submitOne, or two, leave behind.                          *)
LEMMA SubmitBuffersFacts ==
  ASSUME TypeOK, holder \in Graphs, NEW r \in Run, NEW count \in Nat, SubmitBuffers(r, count)
  PROVE  \E n \in 0..count, end \in {"ok", "before", "uncaptured"} :
           /\ end = "ok" <=> n = count
           /\ run' \in Run
           /\ run'.pending = r.pending \o NewFences(r.next, n)
           /\ run'.next = r.next + n /\ run'.epoch = r.epoch
           /\ run'.confirmed = (r.confirmed /\ n = 0 /\ end # "uncaptured")
           /\ run'.uncaptured = (end = "uncaptured")
           /\ run'.step = IF end = "ok" THEN "await" ELSE "settling"
           /\ Submits(n + IF end = "uncaptured" THEN 1 ELSE 0)
           /\ gpu' \in Seq(Graphs)
           /\ IF end = "uncaptured" THEN FenceFails ELSE UNCHANGED fenceFailures
<1>1. PICK n \in 0..count, end \in {"ok", "before", "uncaptured"} :
        /\ end = "ok" <=> n = count
        /\ run' = [r EXCEPT !.pending = r.pending \o NewFences(r.next, n),
                            !.next = r.next + n,
                            !.confirmed = r.confirmed /\ n = 0 /\ end # "uncaptured",
                            !.uncaptured = end = "uncaptured",
                            !.step = IF end = "ok" THEN "await" ELSE "settling"]
        /\ Submits(n + IF end = "uncaptured" THEN 1 ELSE 0)
        /\ IF end = "uncaptured" THEN FenceFails ELSE UNCHANGED fenceFailures
  BY DEF SubmitBuffers
<1>2. r.next \in Nat \ {0} /\ r.pending \in Seq(Fence)
  BY DEF Run
<1>3. NewFences(r.next, n) \in Seq(Fence)
  <2>1. n \in Nat
    OBVIOUS
  <2> QED  BY <1>2, <2>1, NewFencesFacts
<1>4. r.pending \o NewFences(r.next, n) \in Seq(Fence)
  BY <1>2, <1>3, ConcatProperties
<1> DEFINE pending == r.pending \o NewFences(r.next, n)
           confirmed == r.confirmed /\ n = 0 /\ end # "uncaptured"
           uncaptured == end = "uncaptured"
           step == IF end = "ok" THEN "await" ELSE "settling"
           next == r.next + n
<1>5. next \in Nat \ {0} /\ confirmed \in BOOLEAN /\ uncaptured \in BOOLEAN /\ step \in Step
  BY <1>2 DEF Step
<1> HIDE DEF pending, confirmed, uncaptured, step, next
<1>6. run' = [r EXCEPT !.pending = pending, !.next = next, !.confirmed = confirmed,
                      !.uncaptured = uncaptured, !.step = step]
  BY <1>1 DEF pending, confirmed, uncaptured, step, next
<1>7. /\ run' \in Run
      /\ run'.pending = pending /\ run'.next = next /\ run'.epoch = r.epoch
      /\ run'.confirmed = confirmed /\ run'.uncaptured = uncaptured /\ run'.step = step
  BY <1>4, <1>5, <1>6 DEF Run, pending
<1>8. gpu' \in Seq(Graphs)
  <2> DEFINE m == n + IF end = "uncaptured" THEN 1 ELSE 0
  <2>1. m \in Nat /\ Submits(m)
    BY <1>1
  <2> QED  BY <2>1, SubmitsFacts
<1>9. /\ run'.pending = r.pending \o NewFences(r.next, n)
      /\ run'.next = r.next + n
      /\ run'.confirmed = (r.confirmed /\ n = 0 /\ end # "uncaptured")
      /\ run'.uncaptured = (end = "uncaptured")
      /\ run'.step = IF end = "ok" THEN "await" ELSE "settling"
  <2>1. run'.confirmed = (r.confirmed /\ n = 0 /\ end # "uncaptured")
    BY <1>7 DEF confirmed
  <2>2. run'.uncaptured = (end = "uncaptured")
    BY <1>7 DEF uncaptured
  <2> QED  BY <1>7, <2>1, <2>2 DEF pending, step, next
<1> HIDE DEF Submits, FenceFails
<1> QED  BY <1>1, <1>7, <1>8, <1>9

(* The end of an execution: the next graph starts afresh.                   *)
LEMMA FreshFits == TypeOK /\ run = FreshRun => RunInPlan
<1> SUFFICES ASSUME TypeOK, run = FreshRun PROVE RunInPlan
  OBVIOUS
<1>1. CASE holder = 0
  BY <1>1, GraphConstants, SchedulerConstants DEF RunInPlan, FreshRun, Depth2
<1>2. CASE holder \in Graphs
  <2>1. /\ Len(Plan) \in Nat \ {0} /\ Plan[Len(Plan)].last \in Nat \ {0}
    BY <1>2, PlanFacts DEF Plan
  <2> QED  BY <1>2, <2>1, GraphConstants DEF RunInPlan, FreshRun, Depth2, LastBuffer
<1> QED  BY <1>1, <1>2 DEF TypeOK, OwnerTypeOK

LEMMA FreshRunIsRun == FreshRun \in Run
  BY EmptySeq DEF FreshRun, Run, Step

LEMMA EndKeeps ==
  ASSUME Inv, holder \in Graphs, NEW result \in {"resolved", "rejected"}, End(result),
         gpu' \in Seq(Graphs), lost' \in BOOLEAN, fenceFailures' \in Nat,
         signalAborted' = signalAborted
  PROVE  Inv'
<1>1. OwnerOK'
  BY ReleaseKeeps DEF Inv, TypeOK, OwnerOK, End
<1>2. run' = FreshRun /\ run' \in Run
  BY FreshRunIsRun DEF End
<1>3. TypeOK'
  BY <1>1, <1>2 DEF Inv, TypeOK, OwnerOK
<1>4. (TypeOK /\ run = FreshRun => RunInPlan)'
  BY FreshFits, PTL
<1>5. FreshRun' = FreshRun
  BY DEF FreshRun
<1> QED  BY <1>1, <1>2, <1>3, <1>4, <1>5 DEF Inv, OwnerOK

(* Owner calls leave the run alone, unless they start it.                   *)
LEMMA OwnerCallKeeps ==
  ASSUME Inv, OwnerCall
  PROVE  Inv' /\ (holder' = holder \/ holder = 0)
<1>1. /\ UNCHANGED <<run, signalAborted, gpu, lost, fenceFailures>>
      /\ OwnerOK
  BY DEF OwnerCall, gpuVars, Inv, OwnerOK, TypeOK
<1>2. OwnerOK'
  BY <1>1, AcquireKeeps, AbortKeeps, DisposeKeeps DEF OwnerCall
<1>3. TypeOK'
  BY <1>1, <1>2 DEF Inv, TypeOK, OwnerOK
<1>4. holder' = holder \/ holder = 0
  BY DEF OwnerCall, Acquire, AbortOwner, DisposeOwner
<1>5. RunInPlan'
  <2>1. CASE holder' = holder
    BY <1>1, <2>1 DEF Inv, RunInPlan, Depth2, Plan, LastBuffer, FreshRun
  <2>2. CASE holder = 0
    <3>1. (TypeOK /\ run = FreshRun => RunInPlan)'
      BY FreshFits, PTL
    <3>2. run' = FreshRun /\ FreshRun' = FreshRun
      BY <1>1, <2>2 DEF Inv, RunInPlan, FreshRun
    <3> QED  BY <1>3, <3>1, <3>2
  <2> QED  BY <1>4, <2>1, <2>2
<1> QED  BY <1>2, <1>3, <1>4, <1>5 DEF Inv, OwnerOK

LeaseCoversWork == FencesSuffice => DrainInv

LEMMA EndDrains ==
  ASSUME run' = FreshRun, gpu' = <<>>, fenceFailures' <= MaxFenceFailures
  PROVE  DrainInv'
<1> QED
  BY EmptySeq DEF DrainInv, FreshRun, FencesTellTruth, YoungestCovers, PendingAreYoungest,
     HasSubmittedWork

LEMMA CooperativeSubmitsKeeps ==
  ASSUME Inv, DrainInv, FencesSuffice, CooperativeSubmits
  PROVE  DrainInv'
<1>0. /\ holder \in Cooperative /\ holder \in Graphs /\ run.step \in {"granted", "idle"}
      /\ lost' = lost /\ signalAborted' = signalAborted
  BY SchedulerConstants DEF CooperativeSubmits
<1>1. gpu = <<>> /\ fenceFailures = 0 /\ fenceFailures <= MaxFenceFailures /\ ~FenceFails
  BY <1>0, SchedulerConstants DEF DrainInv, FencesSuffice, Inv, TypeOK, FenceFails
<1>2. CASE End("rejected") /\ UNCHANGED <<gpu, fenceFailures>>
  BY <1>1, <1>2, EndDrains DEF End
<1>3. CASE /\ run' = [run EXCEPT !.step = "await", !.next = run.next + 1,
                                 !.pending = NewFences(run.next, 1)]
           /\ Submits(1)
           /\ UNCHANGED <<ownerVars, fenceFailures>>
  <2>1. run \in Run /\ run.next \in Nat \ {0}
    BY DEF Inv, TypeOK, Run
  <2>2. /\ Len(NewFences(run.next, 1)) = 1
        /\ NewFences(run.next, 1)[1].index = run.next
        /\ NewFences(run.next, 1)[1].ahead = IF lost THEN 0 ELSE Len(gpu) + 1
        /\ NewFences(run.next, 1)[1].state = "open"
    <3>1. 1 \in Nat /\ 1 \in 1..1 /\ TypeOK
      BY DEF Inv
    <3>2. /\ Len(NewFences(run.next, 1)) = 1
          /\ \A i \in 1..1 :
              /\ NewFences(run.next, 1)[i].index = run.next + i - 1
              /\ NewFences(run.next, 1)[i].ahead = IF lost THEN 0 ELSE Len(gpu) + i
              /\ NewFences(run.next, 1)[i].state = "open"
      BY <2>1, <3>1, NewFencesFacts
    <3>3. NewFences(run.next, 1)[1].index = run.next + 1 - 1
      BY <3>2
    <3> QED  BY <2>1, <3>2, <3>3
  <2>3. /\ run'.step = "await" /\ run'.next = run.next + 1
        /\ run'.pending = NewFences(run.next, 1)
        /\ run'.uncaptured = run.uncaptured /\ run'.confirmed = run.confirmed
    BY <1>3, <2>1 DEF Run
  <2>4. /\ Len(gpu') = IF lost THEN Len(gpu) ELSE Len(gpu) + 1
        /\ \A i \in 1..Len(gpu') : gpu'[i] = IF i <= Len(gpu) THEN gpu[i] ELSE holder
        /\ lost => gpu' = gpu
    BY <1>0, <1>3, SubmitsFacts DEF Inv
  <2>5. Len(gpu) = 0
    BY <1>1
  <2>6. holder' = holder /\ fenceFailures' = fenceFailures /\ ~run.uncaptured /\ ~run.confirmed
    BY <1>0, <1>3 DEF ownerVars, DrainInv
  <2>7. Len(run'.pending) = 1 /\ run'.pending[1].ahead = Len(gpu') /\ Len(gpu') <= 2
    BY <2>2, <2>3, <2>4, <2>5
  <2>8. \A i \in 1..Len(gpu') : gpu'[i] = holder'
    BY <2>4, <2>5, <2>6
  <2>9. \A i \in 1..Len(run'.pending) : i = 1
    BY <2>7
  <2>10. FencesTellTruth'
    BY <2>2, <2>3, <2>9 DEF FencesTellTruth
  <2>11. PendingAreYoungest'
    <3>1. run'.pending[1].index = run'.next - Len(run'.pending) + 1 - 1
      <4>1. run'.next - Len(run'.pending) + 1 - 1 = run.next
        <5>1. run'.next = run.next + 1 /\ run.next \in Nat \ {0}
          BY <2>1, <2>3
        <5>2. Len(run'.pending) = 1
          BY <2>7
        <5> QED  BY <5>1, <5>2
      <4>2. run'.pending[1].index = run.next
        BY <2>2, <2>3
      <4> QED  BY <4>1, <4>2
    <3> QED  BY <2>9, <3>1 DEF PendingAreYoungest
  <2>12. run'.next > Len(run'.pending)
    <3>1. run'.next = run.next + 1 /\ run.next \in Nat \ {0}
      BY <2>1, <2>3
    <3>2. Len(run'.pending) = 1
      BY <2>7
    <3> QED  BY <3>1, <3>2
  <2>13. (lost' => gpu' = <<>>) /\ fenceFailures' <= MaxFenceFailures
    BY <1>0, <1>1, <2>4, <2>6
  <2>14. ~run'.confirmed /\ ~run'.uncaptured /\ run'.step = "await"
    BY <2>3, <2>6
  <2> QED
    BY <1>0, <2>6, <2>7, <2>8, <2>10, <2>11, <2>12, <2>13, <2>14 DEF DrainInv, YoungestCovers, Depth2
<1> QED  BY <1>1, <1>2, <1>3 DEF CooperativeSubmits

LEMMA CooperativeDrainedKeeps ==
  ASSUME Inv, DrainInv, FencesSuffice, CooperativeDrained
  PROVE  DrainInv'
<1>0. /\ holder \in Cooperative /\ run.step = "await" /\ Settled(run.pending[1])
      /\ UNCHANGED <<signalAborted, gpu, lost, fenceFailures>>
  BY DEF CooperativeDrained, gpuVars
<1>1. fenceFailures <= MaxFenceFailures /\ MaxFenceFailures = 0 /\ Len(run.pending) = 1
  BY <1>0 DEF DrainInv, FencesSuffice
<1>2. run.pending[1] \in Fence
  BY <1>1, ElementOfSeq DEF Inv, TypeOK, Run
<1>3. run.pending[1].state = "fulfilled"
  BY <1>0, <1>1, <1>2 DEF DrainInv, FencesTellTruth, Settled, Fence
<1>4. gpu = <<>>
  <2>1. Len(gpu) = 0
    BY <1>0, <1>1, <1>3 DEF DrainInv, FencesTellTruth, YoungestCovers
  <2> QED  BY <2>1, EmptySeq DEF Inv, TypeOK
<1>5. ASSUME NEW result, End(result) PROVE DrainInv'
  BY <1>0, <1>1, <1>4, <1>5, EndDrains DEF End
<1>6. CASE run' = [run EXCEPT !.step = "idle", !.pending = <<>>] /\ UNCHANGED ownerVars
  <2>1. /\ run'.step = "idle" /\ run'.pending = <<>>
        /\ run'.uncaptured = run.uncaptured /\ run'.confirmed = run.confirmed
    BY <1>6 DEF Inv, TypeOK, Run
  <2> QED
    BY <1>0, <1>4, <1>6, <2>1 DEF DrainInv, FencesTellTruth, ownerVars, Depth2
<1> QED  BY <1>3, <1>5, <1>6 DEF CooperativeDrained

(* The depth-2 window: what is submitted on top of at most one fence that   *)
(* is pending keeps the invariant, whatever throws in the middle.           *)
LEMMA SubmitBuffersKeeps ==
  ASSUME TypeOK, holder \in Graphs \ Cooperative, NEW r \in Run, NEW count \in {1, 2},
         SubmitBuffers(r, count), holder' = holder, lost' = lost,
         fenceFailures <= MaxFenceFailures,
         lost => gpu = <<>>,
         \A i \in 1..Len(gpu) : gpu[i] = holder,
         r.confirmed => gpu = <<>>,
         r.next + count <= Plan[r.epoch].last + 1, Plan[r.epoch].last \in Nat,
         Len(r.pending) + count <= 2, Len(gpu) <= Len(r.pending), r.next > Len(r.pending),
         \A i \in 1..Len(r.pending) :
           /\ r.pending[i].ahead = Len(gpu) /\ r.pending[i].index = r.next - 1
           /\ r.pending[i].state = "fulfilled" => r.pending[i].ahead = 0
           /\ r.pending[i].state = "rejected" => MaxFenceFailures > 0
  PROVE  DrainInv'
<1> DEFINE p == Len(r.pending)
           L == Len(gpu)
<1>1. count \in Nat /\ holder \in Graphs
  OBVIOUS
<1>2. PICK n \in 0..count, end \in {"ok", "before", "uncaptured"} :
        /\ end = "ok" <=> n = count
        /\ run' \in Run
        /\ run'.pending = r.pending \o NewFences(r.next, n)
        /\ run'.next = r.next + n /\ run'.epoch = r.epoch
        /\ run'.confirmed = (r.confirmed /\ n = 0 /\ end # "uncaptured")
        /\ run'.uncaptured = (end = "uncaptured")
        /\ run'.step = IF end = "ok" THEN "await" ELSE "settling"
        /\ Submits(n + IF end = "uncaptured" THEN 1 ELSE 0)
        /\ gpu' \in Seq(Graphs)
        /\ IF end = "uncaptured" THEN FenceFails ELSE UNCHANGED fenceFailures
  BY <1>1, SubmitBuffersFacts
<1>3. /\ n \in Nat /\ n <= count /\ L \in Nat /\ r.pending \in Seq(Fence)
      /\ p \in {0, 1} /\ r.next \in Nat /\ p + n <= 2 /\ r.next \in Nat \ {0}
      /\ fenceFailures \in Nat /\ MaxFenceFailures \in Nat
  <2>1. r.pending \in Seq(Fence) /\ r.next \in Nat \ {0} /\ gpu \in Seq(Graphs)
        /\ fenceFailures \in Nat
    BY DEF Run, TypeOK
  <2>2. p \in Nat /\ L \in Nat
    BY <2>1, LenProperties
  <2> HIDE DEF p, L
  <2>3. p + count <= 2
    BY DEF p
  <2> QED  BY <2>1, <2>2, <2>3, <1>2, SchedulerConstants
<1>4. /\ NewFences(r.next, n) \in Seq(Fence)
      /\ Len(NewFences(r.next, n)) = n
      /\ \A i \in 1..n :
           /\ NewFences(r.next, n)[i].index = r.next + i - 1
           /\ NewFences(r.next, n)[i].ahead = IF lost THEN 0 ELSE L + i
           /\ NewFences(r.next, n)[i].state = "open"
  BY <1>3, NewFencesFacts
<1>5. /\ Len(run'.pending) = p + n
      /\ \A i \in 1..(p + n) :
           run'.pending[i] = IF i <= p THEN r.pending[i] ELSE NewFences(r.next, n)[i - p]
  <2> DEFINE new == NewFences(r.next, n)
  <2>1. new \in Seq(Fence) /\ Len(new) = n
    BY <1>4
  <2> HIDE DEF new
  <2>2. /\ Len(r.pending \o new) = Len(r.pending) + Len(new)
        /\ \A i \in 1..(Len(r.pending) + Len(new)) :
             (r.pending \o new)[i] =
               IF i <= Len(r.pending) THEN r.pending[i] ELSE new[i - Len(r.pending)]
    BY <2>1, <1>3, ConcatProperties
  <2>3. run'.pending = r.pending \o new
    BY <1>2 DEF new
  <2> QED  BY <2>1, <2>2, <2>3 DEF new
<1> DEFINE m == n + IF end = "uncaptured" THEN 1 ELSE 0
<1>6. m \in Nat /\ m <= count /\ n <= m /\ Submits(m) /\ (end # "uncaptured" => m = n)
  BY <1>2, <1>3
<1>7. /\ Len(gpu') = IF lost THEN L ELSE L + m
      /\ \A i \in 1..Len(gpu') : gpu'[i] = IF i <= L THEN gpu[i] ELSE holder
      /\ lost => gpu' = gpu
  BY <1>1, <1>6, SubmitsFacts
<1> HIDE DEF m
<1>8. lost => L = 0
  BY EmptySeq
<1>9. Len(gpu') \in Nat /\ Len(gpu') <= 2 /\ (L = 0 /\ m = 0 => Len(gpu') = 0)
  <2>1. L <= p /\ p + count <= 2
    OBVIOUS
  <2> HIDE DEF p, L
  <2> QED  BY <1>3, <1>6, <1>7, <1>8, <2>1
<1>10. Len(gpu') = 0 => gpu' = <<>>
  BY <1>2, EmptySeq
<1>11. \A i \in 1..Len(gpu') : gpu'[i] = holder'
  <2> TAKE i \in 1..Len(gpu')
  <2>1. i <= L => i \in 1..L
    BY <1>3, <1>9
  <2> QED  BY <2>1, <1>7
<1>12. fenceFailures' <= MaxFenceFailures
  BY <1>2, <1>3 DEF FenceFails
<1>13. r.confirmed => L = 0
  BY EmptySeq
<1>14. \A i \in 1..p : i = 1
  BY <1>3
<1>15. /\ \A i \in 1..p :
            /\ run'.pending[i] = r.pending[i]
            /\ r.pending[i].ahead = L /\ r.pending[i].index = r.next - 1
       /\ \A i \in 1..n : run'.pending[p + i] = NewFences(r.next, n)[i]
  <2>1. ASSUME NEW i \in 1..p
        PROVE  run'.pending[i] = r.pending[i]
    <3>1. i \in 1..(p + n) /\ i <= p
      BY <1>3
    <3> QED  BY <3>1, <1>5
  <2>2. ASSUME NEW i \in 1..n
        PROVE  run'.pending[p + i] = NewFences(r.next, n)[i]
    <3> HIDE DEF p
    <3> DEFINE j == p + i
    <3>1. j \in 1..(p + n) /\ ~(j <= p) /\ j - p = i
      BY <1>3
    <3> HIDE DEF j
    <3>2. run'.pending[j] = NewFences(r.next, n)[j - p]
      BY <3>1, <1>5
    <3> QED  BY <3>1, <3>2 DEF j
  <2> QED  BY <2>1, <2>2
<1>16. FencesTellTruth'
  <2>1. ASSUME NEW i \in 1..(p + n)
        PROVE  /\ run'.pending[i].state = "fulfilled" => run'.pending[i].ahead = 0
               /\ run'.pending[i].state = "rejected" => MaxFenceFailures > 0
    <3>1. CASE i <= p
      <4>1. i \in 1..p
        BY <3>1, <1>3
      <4> QED  BY <4>1, <1>15
    <3>2. CASE ~(i <= p)
      <4> HIDE DEF p
      <4>1. i - p \in 1..n /\ p + (i - p) = i
        BY <3>2, <1>3
      <4>2. run'.pending[i].state = "open"
        BY <4>1, <1>4, <1>15
      <4> QED  BY <4>2
    <3> QED  BY <3>1, <3>2
  <2> QED  BY <2>1, <1>5 DEF FencesTellTruth
<1>17. PendingAreYoungest'
  <2>1. ASSUME NEW i \in 1..(p + n)
        PROVE  run'.pending[i].index = run'.next - (p + n) + i - 1
    <3>1. CASE i <= p
      <4>1. i \in 1..p /\ i = 1
        BY <3>1, <1>3
      <4>2. p = 1
        BY <4>1, <1>3
      <4>3. run'.pending[i].index = r.next - 1
        BY <4>1, <1>15
      <4>4. run'.next = r.next + n
        BY <1>2
      <4> HIDE DEF p
      <4> QED  BY <4>1, <4>2, <4>3, <4>4, <1>3
    <3>2. CASE ~(i <= p)
      <4> HIDE DEF p
      <4>1. i - p \in 1..n /\ p + (i - p) = i
        BY <3>2, <1>3
      <4>2. run'.pending[i].index = r.next + (i - p) - 1
        BY SMTT(30), <4>1, <1>4, <1>15
      <4>3. run'.next = r.next + n
        BY <1>2
      <4> QED  BY <4>2, <4>3, <1>3
    <3> QED  BY <3>1, <3>2
  <2> QED  BY <2>1, <1>5 DEF PendingAreYoungest
<1>18. m = n /\ p + n > 0 => YoungestCovers'
  <2> SUFFICES ASSUME m = n, p + n > 0 PROVE run'.pending[p + n].ahead = Len(gpu')
    BY <1>5 DEF YoungestCovers
  <2>1. CASE n = 0
    <3>1. p = 1 /\ p + n = 1 /\ 1 \in 1..p
      BY <2>1, <1>3
    <3>2. run'.pending[p + n].ahead = L
      BY <3>1, <1>15
    <3> HIDE DEF p, L
    <3> QED  BY <3>2, <2>1, <1>3, <1>7
  <2>2. CASE n # 0
    <3>1. n \in 1..n
      BY <2>2, <1>3
    <3>2. run'.pending[p + n].ahead = IF lost THEN 0 ELSE L + n
      BY <3>1, <1>4, <1>15
    <3> HIDE DEF p, L
    <3> QED  BY <3>2, <1>7, <1>8
  <2> QED  BY <2>1, <2>2
<1>19. p + n = 2 /\ n > 0 => run'.pending[2].ahead <= run'.pending[1].ahead + 1
  <2>1. CASE n = 1 /\ p = 1
    <3>1. 1 \in 1..p /\ 1 \in 1..n /\ p + 1 = 2
      BY <2>1
    <3>2. run'.pending[1].ahead = L
      BY <3>1, <1>15
    <3>3. run'.pending[2].ahead = IF lost THEN 0 ELSE L + 1
      BY <3>1, <1>4, <1>15
    <3> HIDE DEF p, L
    <3> QED  BY <3>2, <3>3, <1>3
  <2>2. CASE n = 2 /\ p = 0
    <3>1. 1 \in 1..n /\ 2 \in 1..n /\ p + 1 = 1 /\ p + 2 = 2
      BY <2>2
    <3>2. run'.pending[1].ahead = IF lost THEN 0 ELSE L + 1
      BY <3>1, <1>4, <1>15
    <3>3. run'.pending[2].ahead = IF lost THEN 0 ELSE L + 2
      BY <3>1, <1>4, <1>15
    <3> HIDE DEF p, L
    <3> QED  BY <3>2, <3>3, <1>3
  <2> QED  BY <2>1, <2>2, <1>3
<1>20. run'.confirmed => gpu' = <<>>
  <2> SUFFICES ASSUME run'.confirmed PROVE gpu' = <<>>
    OBVIOUS
  <2>1. r.confirmed /\ n = 0 /\ end # "uncaptured"
    BY <1>2
  <2> QED  BY <2>1, <1>6, <1>9, <1>10, <1>13
<1>21. run'.step = "await" =>
         /\ p + n \in {1, 2} /\ ~run'.uncaptured /\ m = n
         /\ run'.next > p + n /\ n > 0
  <2> SUFFICES ASSUME run'.step = "await"
               PROVE  p + n \in {1, 2} /\ ~run'.uncaptured /\ m = n /\ run'.next > p + n /\ n > 0
    OBVIOUS
  <2>1. end = "ok"
    BY <1>2
  <2>2. ~run'.uncaptured /\ n = count /\ run'.next = r.next + n /\ m = n /\ r.next > p
    BY <2>1, <1>2, <1>6
  <2> HIDE DEF p
  <2> QED  BY <2>2, <1>3
<1>22. run'.step = "settling" =>
         /\ ~run'.uncaptured /\ run'.pending # <<>> => m = n /\ p + n > 0
         /\ ~HasSubmittedWork' => gpu' = <<>>
  <2>1. ~run'.uncaptured => m = n
    BY <1>2, <1>6
  <2>2. run'.pending # <<>> => p + n > 0
    BY <1>2, <1>3, <1>5, EmptySeq DEF Run
  <2>3. ASSUME ~HasSubmittedWork' PROVE gpu' = <<>>
    <3>1. ~(r.next + n > 1) /\ ~run'.uncaptured /\ r.next > p
      BY <2>3, <1>2 DEF HasSubmittedWork
    <3>2. n = 0 /\ p = 0
      <4> HIDE DEF p
      <4> QED  BY <3>1, <1>3
    <3>3. L = 0
      BY <3>2, <1>3
    <3> QED  BY <2>1, <3>1, <3>2, <3>3, <1>9, <1>10
  <2> QED  BY <2>1, <2>2, <2>3
<1>23. run'.step \in {"await", "settling"}
  BY <1>2
<1>24. lost' => gpu' = <<>>
  BY <1>7
<1>25. run'.next <= Plan'[run'.epoch].last + 1
  <2>1. run'.next = r.next + n /\ run'.epoch = r.epoch /\ Plan' = Plan
    BY <1>2 DEF Plan
  <2> QED  BY SMTT(30), <2>1, <1>3
<1> HIDE DEF p, L
<1> QED
  BY <1>5, <1>9, <1>11, <1>12, <1>16, <1>17, <1>18, <1>19, <1>20, <1>21, <1>22, <1>23, <1>24,
     <1>25
  DEF DrainInv

LEMMA SubmissionsFit ==
  ASSUME Inv, holder \in Graphs \ Cooperative, NEW r \in Run, NEW count \in {1, 2},
         SubmitBuffers(r, count), r.epoch \in 1..Len(Plan),
         UNCHANGED <<ownerVars, signalAborted, lost>>
  PROVE  Inv'
<1>1. TypeOK /\ count \in Nat /\ holder \in Graphs
  BY DEF Inv
<1>2. PICK n \in 0..count, end \in {"ok", "before", "uncaptured"} :
        /\ end = "ok" <=> n = count
        /\ run' \in Run
        /\ run'.pending = r.pending \o NewFences(r.next, n)
        /\ run'.next = r.next + n /\ run'.epoch = r.epoch
        /\ run'.confirmed = (r.confirmed /\ n = 0 /\ end # "uncaptured")
        /\ run'.uncaptured = (end = "uncaptured")
        /\ run'.step = IF end = "ok" THEN "await" ELSE "settling"
        /\ Submits(n + IF end = "uncaptured" THEN 1 ELSE 0)
        /\ gpu' \in Seq(Graphs)
        /\ IF end = "uncaptured" THEN FenceFails ELSE UNCHANGED fenceFailures
  BY <1>1, SubmitBuffersFacts
<1>3. OwnerTypeOK' /\ OwnerInv'
  BY DEF ownerVars, Inv, TypeOK, OwnerTypeOK, OwnerInv, Waits, ServedInOrder
<1>4. fenceFailures' \in Nat
  BY <1>2 DEF FenceFails, Inv, TypeOK
<1>5. TypeOK'
  BY <1>2, <1>3, <1>4 DEF Inv, TypeOK
<1>6. Plan' = Plan /\ holder' = holder /\ holder # 0 /\ holder \notin Cooperative
  BY GraphConstants DEF Plan, ownerVars
<1>7. run'.step \in {"await", "settling"} /\ run'.epoch = r.epoch
  BY <1>2
<1> QED
  BY <1>3, <1>5, <1>6, <1>7 DEF Inv, RunInPlan, Depth2

(* The epoch that begins, and the window that it submits.                   *)
LEMMA EpochBeginsFacts ==
  ASSUME Inv, EpochBegins
  PROVE  \E epoch \in 1..Len(Plan), count \in {1, 2} :
           /\ holder \in Graphs \ Cooperative
           /\ UNCHANGED <<ownerVars, signalAborted, lost>>
           /\ [run EXCEPT !.epoch = epoch] \in Run
           /\ SubmitBuffers([run EXCEPT !.epoch = epoch], count)
           /\ Plan[epoch].last \in Nat
           /\ DrainInv => run.next + count <= Plan[epoch].last + 1
<1> DEFINE epoch == IF run.step = "idle" THEN run.epoch + 1 ELSE run.epoch
           size == Plan[epoch].last - Plan[epoch].first + 1
<1>1. /\ holder \in Graphs \ Cooperative /\ run.step \in {"granted", "idle"}
      /\ UNCHANGED <<ownerVars, signalAborted, lost>>
      /\ SubmitBuffers([run EXCEPT !.epoch = epoch], Window(size))
  BY DEF EpochBegins
<1>2. /\ Len(Plan) \in Nat \ {0}
      /\ \A i \in 1..Len(Plan) :
           /\ Plan[i].first \in Nat \ {0} /\ Plan[i].last \in Nat \ {0}
           /\ Plan[i].first <= Plan[i].last
           /\ i < Len(Plan) => Plan[i + 1].first = Plan[i].last + 1
      /\ Plan[1].first = 1
  BY <1>1, PlanFacts DEF Plan
<1>3. run \in Run /\ run.next \in Nat \ {0} /\ run.epoch \in Nat \ {0}
  BY DEF Inv, TypeOK, Run
<1>4. epoch \in 1..Len(Plan) /\ (DrainInv => run.next = Plan[epoch].first)
  <2>1. CASE run.step = "idle"
    <3>1. /\ run.epoch \in 1..Len(Plan) /\ run.epoch < Len(Plan)
          /\ DrainInv => run.next = Plan[run.epoch].last + 1
      BY <1>1, <2>1 DEF Inv, RunInPlan, Depth2, DrainInv
    <3> QED  BY <2>1, <3>1, <1>2
  <2>2. CASE run.step = "granted"
    <3>1. run.epoch = 1 /\ run.next = 1
      BY <2>2 DEF Inv, RunInPlan, FreshRun
    <3> QED  BY <2>2, <3>1, <1>2
  <2> QED  BY <1>1, <2>1, <2>2
<1> HIDE DEF epoch
<1>5. /\ Window(size) \in {1, 2} /\ Plan[epoch].last \in Nat
      /\ DrainInv => run.next + Window(size) <= Plan[epoch].last + 1
  BY <1>2, <1>3, <1>4 DEF Window
<1>6. [run EXCEPT !.epoch = epoch] \in Run
  <2>1. epoch \in Nat \ {0}
    BY <1>2, <1>4
  <2> QED  BY <1>3, <2>1 DEF Run
<1> QED  BY <1>1, <1>3, <1>4, <1>5, <1>6

LEMMA EpochBeginsKeeps ==
  ASSUME Inv, EpochBegins
  PROVE  Inv' /\ (DrainInv => DrainInv')
<1>1. PICK epoch \in 1..Len(Plan), count \in {1, 2} :
        /\ holder \in Graphs \ Cooperative
        /\ UNCHANGED <<ownerVars, signalAborted, lost>>
        /\ [run EXCEPT !.epoch = epoch] \in Run
        /\ SubmitBuffers([run EXCEPT !.epoch = epoch], count)
        /\ Plan[epoch].last \in Nat
        /\ DrainInv => run.next + count <= Plan[epoch].last + 1
  BY EpochBeginsFacts
<1> DEFINE r == [run EXCEPT !.epoch = epoch]
<1>2. /\ r.pending = run.pending /\ r.next = run.next /\ r.epoch = epoch
      /\ r.confirmed = run.confirmed
  BY DEF Inv, TypeOK, Run
<1> HIDE DEF r
<1>3. r \in Run /\ SubmitBuffers(r, count) /\ holder \in Graphs \ Cooperative
  BY <1>1 DEF r
<1>4. UNCHANGED <<ownerVars, signalAborted, lost>>
  BY <1>1
<1>5. Inv'
  BY <1>1, <1>2, <1>3, <1>4, SubmissionsFit
<1>6. ASSUME DrainInv PROVE DrainInv'
  <2>1. run.step \in {"granted", "idle"}
    BY DEF EpochBegins
  <2>2. gpu = <<>> /\ run.pending = <<>> /\ fenceFailures <= MaxFenceFailures
    BY <1>6, <2>1 DEF DrainInv
  <2>3. r.pending = <<>> /\ Len(r.pending) = 0 /\ Len(gpu) = 0
    BY <1>2, <2>2
  <2>4. r.next > Len(r.pending) /\ Len(r.pending) + count <= 2 /\ Len(gpu) <= Len(r.pending)
    BY <1>2, <2>3 DEF Inv, TypeOK, Run
  <2>5. \A i \in 1..Len(r.pending) : FALSE
    BY <2>3
  <2>6. \A i \in 1..Len(gpu) : FALSE
    BY <2>3
  <2>7. r.next + count <= Plan[r.epoch].last + 1 /\ Plan[r.epoch].last \in Nat
    BY <1>1, <1>2, <1>6
  <2>8. holder' = holder /\ lost' = lost /\ TypeOK
    BY <1>4 DEF ownerVars, Inv
  <2> QED
    BY <1>3, <2>2, <2>4, <2>5, <2>6, <2>7, <2>8, SubmitBuffersKeeps
<1> QED  BY <1>5, <1>6

(* The step after the await of the oldest fence.                            *)
LEMMA FenceObservedKeeps ==
  ASSUME Inv, DrainInv, FenceObserved
  PROVE  Inv' /\ DrainInv'
<1> DEFINE drained == Drains(run.pending[1].index)
           r == [run EXCEPT !.pending = Tail(run.pending), !.confirmed = run.confirmed \/ drained]
           last == Plan[run.epoch].last
           L == Len(run.pending)
<1>1. /\ holder \in Graphs \ Cooperative /\ run.step = "await" /\ Settled(run.pending[1])
      /\ UNCHANGED <<signalAborted, lost>>
      /\ \/ /\ AFenceRejected
            /\ run' = [run EXCEPT !.step = "settling"]
            /\ UNCHANGED <<ownerVars, gpu, fenceFailures>>
         \/ /\ ~AFenceRejected
            /\ run' = [r EXCEPT !.step = "settling"]
            /\ UNCHANGED <<ownerVars, gpu, fenceFailures>>
         \/ ~AFenceRejected /\ EpochContinues(r, drained)
  BY DEF FenceObserved
<1>2. /\ run \in Run /\ run.pending \in Seq(Fence) /\ run.next \in Nat \ {0}
      /\ gpu \in Seq(Graphs) /\ fenceFailures \in Nat /\ TypeOK /\ OwnerOK
      /\ Len(gpu) \in Nat
  BY LenProperties DEF Inv, TypeOK, Run, OwnerOK
<1>3. /\ run.epoch \in 1..Len(Plan) /\ last \in Nat /\ run.next <= last + 1
      /\ Len(Plan) \in Nat /\ Plan[Len(Plan)].last \in Nat
  <2>1. run.epoch \in 1..Len(Plan) /\ run.next <= last + 1
    BY <1>1 DEF Inv, RunInPlan, DrainInv, Depth2
  <2> QED  BY <1>1, <2>1, PlanFacts DEF Plan
<1>4. /\ L \in {1, 2} /\ ~run.uncaptured /\ run.pending[L].ahead = Len(gpu)
      /\ run.next > L
      /\ L = 2 => run.pending[2].ahead <= run.pending[1].ahead + 1
  BY <1>1 DEF DrainInv, YoungestCovers
<1>5. \A i \in 1..L :
        /\ run.pending[i] \in Fence
        /\ run.pending[i].index = run.next - L + i - 1
        /\ run.pending[i].state = "fulfilled" => run.pending[i].ahead = 0
        /\ run.pending[i].state = "rejected" => MaxFenceFailures > 0
  BY <1>1, <1>2, ElementOfSeq DEF DrainInv, PendingAreYoungest, FencesTellTruth
<1>0. run.pending # <<>>
  BY <1>4, EmptySeq
<1>6. /\ r \in Run /\ r.pending = Tail(run.pending) /\ r.next = run.next /\ r.epoch = run.epoch
      /\ r.confirmed = (run.confirmed \/ drained) /\ r.uncaptured = run.uncaptured
      /\ r.step = run.step
  <2>1. Tail(run.pending) \in Seq(Fence)
    BY <1>0, <1>2, HeadTailProperties
  <2>2. drained \in BOOLEAN
    BY DEF Drains
  <2> HIDE DEF drained
  <2> QED  BY <1>2, <2>1, <2>2 DEF Run
<1>7. /\ Len(r.pending) = L - 1
      /\ L = 2 => r.pending[1] = run.pending[2]
  <2>1. /\ Len(Tail(run.pending)) = L - 1
        /\ \A i \in 1..Len(Tail(run.pending)) : Tail(run.pending)[i] = run.pending[i + 1]
    BY <1>0, <1>2, HeadTailProperties
  <2> QED  BY <1>6, <2>1
<1> HIDE DEF r
<1>8. run.pending[1].index = run.next - L
  <2>1. 1 \in 1..L
    BY SMTT(30), <1>4
  <2>2. run.pending[1].index = run.next - L + 1 - 1
    BY <2>1, <1>5
  <2> HIDE DEF L
  <2> QED  BY <2>2, <1>2, <1>4
<1>9. /\ drained => L = 1 /\ run.next = last + 1
      /\ ~drained /\ run.next > last => L = 2
  <2>1. drained <=> run.next - L = last
    BY <1>8 DEF Drains
  <2> HIDE DEF L, drained, last
  <2> QED  BY <2>1, <1>2, <1>3, <1>4
<1>10. ASSUME ~AFenceRejected
       PROVE  Len(gpu) <= L - 1 /\ (L = 1 => gpu = <<>>)
  <2>1. 1 \in 1..L /\ run.pending[1].state # "open"
    BY <1>1, <1>4 DEF Settled
  <2>2. run.pending[1].state = "fulfilled"
    BY <2>1, <1>5, <1>10 DEF AFenceRejected, Fence
  <2>3. run.pending[1].ahead = 0
    BY <2>1, <2>2, <1>5
  <2>4. CASE L = 1
    <3>1. Len(gpu) = 0
      BY <2>3, <2>4, <1>4
    <3> QED  BY <3>1, <2>4, <1>2, EmptySeq
  <2>5. CASE L = 2
    <3>1. Len(gpu) <= 1
      BY <2>3, <2>5, <1>4
    <3> QED  BY <3>1, <2>5
  <2> QED  BY <2>4, <2>5, <1>4
<1>11. ASSUME ~AFenceRejected, r.confirmed PROVE gpu = <<>>
  <2>1. CASE run.confirmed
    BY <2>1 DEF DrainInv
  <2>2. CASE drained
    BY <2>2, <1>9, <1>10, <1>11
  <2> QED  BY <2>1, <2>2, <1>6, <1>11
<1>12. /\ fenceFailures <= MaxFenceFailures /\ (lost => gpu = <<>>)
       /\ \A i \in 1..Len(gpu) : gpu[i] = holder
       /\ Len(gpu) <= 2
  BY DEF DrainInv
<1>13. \A i \in 1..Len(r.pending) :
         /\ i = 1 /\ L = 2
         /\ r.pending[i].ahead = Len(gpu) /\ r.pending[i].index = run.next - 1
         /\ r.pending[i].state = "fulfilled" => r.pending[i].ahead = 0
         /\ r.pending[i].state = "rejected" => MaxFenceFailures > 0
  <2> TAKE i \in 1..Len(r.pending)
  <2>1. i = 1 /\ L = 2
    BY <1>4, <1>7
  <2>2. r.pending[i] = run.pending[2] /\ 2 \in 1..L
    BY <2>1, <1>7
  <2>3. run.pending[2].index = run.next - 2 + 2 - 1
    BY <2>1, <2>2, <1>5
  <2>4. run.pending[2].index = run.next - 1
    BY <2>3, <1>2
  <2> QED  BY <2>1, <2>2, <2>4, <1>4, <1>5
<1> HIDE DEF L, last, drained
\* What the run keeps when the owner is left alone.
<1>14. ASSUME UNCHANGED ownerVars, run' \in Run, run'.epoch = run.epoch,
              UNCHANGED <<gpu, fenceFailures>>,
              run'.step \in {"await", "settling", "idle"},
              run'.step = "idle" => run.epoch < Len(Plan)
       PROVE  Inv' /\ Plan' = Plan /\ holder' = holder
  <2>1. OwnerTypeOK' /\ OwnerInv'
    BY <1>2, <1>14 DEF ownerVars, OwnerOK, OwnerTypeOK, OwnerInv, Waits, ServedInOrder
  <2>2. TypeOK'
    BY <1>1, <1>2, <1>14, <2>1 DEF TypeOK
  <2>3. Plan' = Plan /\ holder' = holder /\ holder # 0 /\ holder \notin Cooperative
    BY <1>1, <1>14, GraphConstants DEF Plan, ownerVars
  <2> QED  BY <1>3, <1>14, <2>1, <2>2, <2>3 DEF Inv, RunInPlan, Depth2
<1>15. CASE /\ AFenceRejected
            /\ run' = [run EXCEPT !.step = "settling"]
            /\ UNCHANGED <<ownerVars, gpu, fenceFailures>>
  <2>1. /\ run' \in Run /\ run'.step = "settling" /\ run'.epoch = run.epoch
        /\ run'.pending = run.pending /\ run'.next = run.next
        /\ run'.confirmed = run.confirmed /\ run'.uncaptured = run.uncaptured
    BY <1>2, <1>15 DEF Run, Step
  <2>2. Inv' /\ Plan' = Plan /\ holder' = holder
    BY <1>14, <1>15, <2>1
  <2>3. HasSubmittedWork'
    BY <1>2, <1>4, <2>1 DEF HasSubmittedWork
  <2>4. YoungestCovers' /\ FencesTellTruth'
    BY <1>1, <1>15, <2>1 DEF DrainInv, YoungestCovers, FencesTellTruth
  <2>5. run'.confirmed => gpu' = <<>> /\ holder' \notin Cooperative
    BY <1>15, <2>1, <2>2 DEF DrainInv
  <2>6. fenceFailures' = fenceFailures /\ lost' = lost /\ gpu' = gpu
    BY <1>1, <1>15
  <2> QED
    BY <1>12, <2>1, <2>2, <2>3, <2>4, <2>5, <2>6 DEF DrainInv
<1>16. ASSUME ~AFenceRejected, UNCHANGED <<ownerVars, gpu, fenceFailures>>,
              NEW step \in {"await", "settling", "idle"}, run' = [r EXCEPT !.step = step],
              step = "await" => ~drained /\ run.next > last,
              step = "idle" => drained /\ run.epoch < Len(Plan)
       PROVE  Inv' /\ DrainInv'
  <2>1. /\ run' \in Run /\ run'.step = step /\ run'.epoch = run.epoch
        /\ run'.pending = r.pending /\ run'.next = run.next
        /\ run'.confirmed = r.confirmed /\ run'.uncaptured = run.uncaptured
    BY <1>6, <1>16 DEF Run, Step
  <2>2. Inv' /\ Plan' = Plan /\ holder' = holder
    BY <1>14, <1>16, <2>1
  <2>3. HasSubmittedWork' /\ ~run'.uncaptured
    BY <1>2, <1>4, <2>1 DEF HasSubmittedWork
  <2>4. FencesTellTruth'
    BY <1>13, <2>1 DEF FencesTellTruth
  <2>5. fenceFailures' = fenceFailures /\ lost' = lost /\ gpu' = gpu
    BY <1>1, <1>16
  <2>6. run'.confirmed => gpu' = <<>> /\ holder' \notin Cooperative
    BY <1>1, <1>11, <1>16, <2>1, <2>2, <2>5
  <2>7. run'.pending # <<>> => Len(r.pending) = 1 /\ L = 2
    <3>1. r.pending \in Seq(Fence)
      BY <1>6 DEF Run
    <3> QED  BY <3>1, <1>4, <1>7, <2>1, EmptySeq
  <2>8. run'.pending # <<>> => YoungestCovers'
    BY <1>13, <2>1, <2>5, <2>7 DEF YoungestCovers
  <2>9. CASE step = "settling"
    BY <1>12, <2>1, <2>2, <2>3, <2>4, <2>5, <2>6, <2>8, <2>9 DEF DrainInv
  <2>10. CASE step = "await"
    <3>1. L = 2 /\ Len(run'.pending) = 1 /\ run'.next > Len(run'.pending) /\ run'.pending # <<>>
      <4>1. L = 2
        BY <1>9, <1>16, <2>10
      <4>2. Len(run'.pending) = 1 /\ run'.next = run.next
        BY <4>1, <1>7, <2>1
      <4>3. run'.pending # <<>>
        BY <4>2, EmptySeq
      <4> QED  BY <4>1, <4>2, <4>3, <1>2, <1>4
    <3>2. PendingAreYoungest'
      <4>1. \A i \in 1..Len(run'.pending) : i = 1 /\ run'.pending[i].index = run'.next - 1
        BY <1>13, <2>1
      <4>2. run'.next - Len(run'.pending) + 1 - 1 = run'.next - 1
        BY <3>1, <1>2, <2>1
      <4> QED  BY <4>1, <4>2 DEF PendingAreYoungest
    <3>3. run'.next <= Plan'[run'.epoch].last + 1
      BY <1>3, <2>1, <2>2 DEF last
    <3> QED
      BY <1>1, <1>12, <2>1, <2>2, <2>3, <2>4, <2>5, <2>6, <2>8, <2>10, <3>1, <3>2, <3>3 DEF DrainInv
  <2>11. CASE step = "idle"
    <3>1. L = 1 /\ gpu = <<>> /\ run.next = last + 1
      BY <1>9, <1>10, <1>16, <2>11
    <3>2. run'.pending = <<>>
      BY <3>1, <2>7
    <3>3. run'.next = Plan'[run'.epoch].last + 1
      BY <3>1, <2>1, <2>2 DEF last
    <3> QED
      BY <1>12, <2>1, <2>2, <2>3, <2>4, <2>5, <2>6, <2>11, <3>1, <3>2, <3>3 DEF DrainInv
  <2> QED  BY <2>9, <2>10, <2>11
<1>17. CASE /\ ~AFenceRejected
            /\ run' = [r EXCEPT !.step = "settling"]
            /\ UNCHANGED <<ownerVars, gpu, fenceFailures>>
  BY <1>16, <1>17
<1>18. CASE ~AFenceRejected /\ EpochContinues(r, drained)
  <2>1. CASE /\ ~drained /\ r.next <= Plan[r.epoch].last
             /\ SubmitBuffers(r, 1)
             /\ UNCHANGED ownerVars
    <3>1. Inv'
      BY <1>1, <1>2, <1>3, <1>6, <2>1, SubmissionsFit DEF Inv
    <3>2. r.next + 1 <= Plan[r.epoch].last + 1 /\ Plan[r.epoch].last \in Nat
      BY <1>2, <1>3, <1>6, <2>1 DEF last
    <3>3. Len(r.pending) + 1 <= 2 /\ Len(gpu) <= Len(r.pending) /\ r.next > Len(r.pending)
      BY <1>2, <1>4, <1>6, <1>7, <1>10, <1>18
    <3>4. holder' = holder /\ lost' = lost
      BY <1>1, <2>1 DEF ownerVars
    <3>5. r.confirmed => gpu = <<>>
      BY <1>11, <1>18
    <3>6. \A i \in 1..Len(r.pending) :
            /\ r.pending[i].ahead = Len(gpu) /\ r.pending[i].index = r.next - 1
            /\ r.pending[i].state = "fulfilled" => r.pending[i].ahead = 0
            /\ r.pending[i].state = "rejected" => MaxFenceFailures > 0
      BY <1>6, <1>13
    <3> QED
      BY <1>1, <1>2, <1>6, <1>12, <2>1, <3>1, <3>2, <3>3, <3>4, <3>5, <3>6, SubmitBuffersKeeps
  <2>2. CASE /\ ~drained /\ r.next > Plan[r.epoch].last
             /\ run' = r
             /\ UNCHANGED <<ownerVars, gpu, fenceFailures>>
    <3>1. r = [r EXCEPT !.step = "await"]
      BY <1>1, <1>6 DEF Run
    <3> QED  BY <1>6, <1>16, <1>18, <2>2, <3>1 DEF last
  <2>3. CASE /\ drained /\ r.epoch < Len(Plan)
             /\ run' = [r EXCEPT !.step = "idle"]
             /\ UNCHANGED <<ownerVars, gpu, fenceFailures>>
    BY <1>6, <1>16, <1>18, <2>3
  <2>4. CASE /\ drained /\ r.epoch = Len(Plan)
             /\ End("resolved")
             /\ UNCHANGED <<gpu, fenceFailures>>
    <3>1. Inv'
      BY <1>1, <1>2, <2>4, EndKeeps DEF TypeOK
    <3>2. gpu' = <<>> /\ run' = FreshRun /\ fenceFailures' <= MaxFenceFailures
      BY <1>9, <1>10, <1>12, <1>18, <2>4 DEF End
    <3> QED  BY <3>1, <3>2, EndDrains
  <2> QED  BY <1>18, <2>1, <2>2, <2>3, <2>4 DEF EpochContinues
<1> QED  BY <1>1, <1>15, <1>17, <1>18

(* A failed run ends when the youngest fence, a recovery fence or the loss  *)
(* of the device says that nothing is left.                                 *)
LEMMA HolderOfStep ==
  ASSUME Inv, run.step # "granted"
  PROVE  holder \in Graphs
  BY DEF Inv, TypeOK, OwnerTypeOK, RunInPlan, FreshRun

\* The run changes, under the same holder, to a step outside the submission.
LEMMA RunChanges ==
  ASSUME Inv, run.step # "granted", UNCHANGED ownerVars, run' \in Run, run'.epoch = run.epoch,
         run'.step \in {"settling", "recovering", "losing", "stuck"},
         gpu' \in Seq(Graphs), lost' \in BOOLEAN, fenceFailures' \in Nat,
         signalAborted' = signalAborted
  PROVE  Inv' /\ Plan' = Plan /\ holder' = holder
<1>1. OwnerTypeOK' /\ OwnerInv'
  BY DEF ownerVars, Inv, TypeOK, OwnerTypeOK, OwnerInv, Waits, ServedInOrder
<1>2. TypeOK'
  BY <1>1 DEF Inv, TypeOK
<1>3. Plan' = Plan /\ holder' = holder /\ holder # 0
  BY HolderOfStep, GraphConstants DEF Plan, ownerVars
<1> QED  BY <1>1, <1>2, <1>3 DEF Inv, RunInPlan, Depth2

LEMMA DestroyKeeps ==
  ASSUME Inv, DrainInv, run.step \in {"settling", "recovering"}, DestroyDevice,
         signalAborted' = signalAborted, fenceFailures' \in Nat, fenceFailures' <= MaxFenceFailures
  PROVE  Inv' /\ DrainInv'
<1>1. /\ run' = [run EXCEPT !.step = "losing", !.pending = <<>>]
      /\ UNCHANGED ownerVars
      /\ DropGpuWork \/ UNCHANGED <<gpu, lost>>
  BY DEF DestroyDevice
<1>2. /\ gpu' \in Seq(Graphs) /\ lost' \in BOOLEAN /\ run \in Run
      /\ gpu' = <<>> \/ UNCHANGED <<gpu, lost>>
  BY <1>1, EmptySeq DEF DropGpuWork, Inv, TypeOK
<1>3. /\ run' \in Run /\ run'.step = "losing" /\ run'.epoch = run.epoch
      /\ run'.pending = <<>> /\ run'.confirmed = run.confirmed
  BY <1>1, <1>2, EmptySeq DEF Run, Step
<1>4. Inv' /\ holder' = holder
  BY <1>1, <1>2, <1>3, RunChanges
<1>5. FencesTellTruth'
  BY <1>3 DEF FencesTellTruth
<1>6. /\ lost' => gpu' = <<>>
      /\ \A i \in 1..Len(gpu') : gpu'[i] = holder'
      /\ Len(gpu') <= 2
      /\ run'.confirmed => gpu' = <<>> /\ holder' \notin Cooperative
  BY <1>2, <1>3, <1>4 DEF DrainInv
<1> QED  BY <1>3, <1>4, <1>5, <1>6 DEF DrainInv

LEMMA FailureSettlesKeeps ==
  ASSUME Inv, DrainInv, FailureSettles
  PROVE  Inv' /\ DrainInv'
<1>1. /\ run.step = "settling" /\ signalAborted' = signalAborted
      /\ \A i \in 1..Len(run.pending) : Settled(run.pending[i])
  BY DEF FailureSettles
<1>2. /\ run \in Run /\ run.pending \in Seq(Fence) /\ gpu \in Seq(Graphs)
      /\ lost \in BOOLEAN /\ fenceFailures \in Nat /\ Len(gpu) \in Nat /\ MaxFenceFailures \in Nat
  BY LenProperties, SchedulerConstants DEF Inv, TypeOK, Run
<1>3. holder \in Graphs
  BY <1>1, HolderOfStep
<1>4. /\ fenceFailures <= MaxFenceFailures /\ (lost => gpu = <<>>)
      /\ \A i \in 1..Len(gpu) : gpu[i] = holder
      /\ Len(gpu) <= 2
      /\ run.confirmed => gpu = <<>> /\ holder \notin Cooperative
  BY DEF DrainInv
<1>5. CASE HasSubmittedWork /\ ~TerminalConfirmed
  <2> DEFINE fence == [index |-> 0, ahead |-> Len(gpu), state |-> "open"]
  <2>1. CASE run' = [run EXCEPT !.step = "recovering", !.pending = <<fence>>]
             /\ UNCHANGED <<ownerVars, gpuVars>>
    <3>1. fence \in Fence /\ <<fence>> \in Seq(Fence) /\ Len(<<fence>>) = 1 /\ <<fence>>[1] = fence
      BY <1>2 DEF Fence
    <3>2. /\ run' \in Run /\ run'.step = "recovering" /\ run'.epoch = run.epoch
          /\ run'.pending = <<fence>> /\ run'.confirmed = run.confirmed
      BY <1>2, <2>1, <3>1 DEF Run, Step
    <3>3. UNCHANGED <<gpu, lost, fenceFailures>>
      BY <2>1 DEF gpuVars
    <3>4. Inv' /\ holder' = holder
      BY <1>1, <1>2, <2>1, <3>2, <3>3, RunChanges
    <3>5. YoungestCovers' /\ FencesTellTruth' /\ Len(run'.pending) = 1
      BY <3>1, <3>2, <3>3 DEF YoungestCovers, FencesTellTruth
    <3> QED  BY <1>4, <3>2, <3>3, <3>4, <3>5 DEF DrainInv
  <2>2. CASE FenceFails /\ DestroyDevice
    <3>1. fenceFailures' \in Nat /\ fenceFailures' <= MaxFenceFailures
      BY <1>2, <1>4, <2>2 DEF FenceFails
    <3> QED  BY <1>1, <2>2, <3>1, DestroyKeeps
  <2> QED  BY <1>5, <2>1, <2>2 DEF FailureSettles
<1>6. CASE ~(HasSubmittedWork /\ ~TerminalConfirmed)
  <2>1. End("rejected") /\ UNCHANGED <<gpu, lost, fenceFailures>>
    BY <1>6 DEF FailureSettles, gpuVars
  <2>2. gpu = <<>>
    <3>1. CASE ~HasSubmittedWork
      BY <1>1, <3>1 DEF DrainInv
    <3>2. CASE run.confirmed
      BY <1>4, <3>2
    <3>3. CASE /\ ~run.uncaptured /\ run.pending # <<>>
               /\ run.pending[Len(run.pending)].state = "fulfilled"
      <4>1. Len(run.pending) \in 1..Len(run.pending)
        BY <1>2, <3>3, EmptySeq
      <4>2. run.pending[Len(run.pending)].ahead = 0
        BY <3>3, <4>1 DEF DrainInv, FencesTellTruth
      <4>3. Len(gpu) = 0
        BY <1>1, <3>3, <4>2 DEF DrainInv, YoungestCovers
      <4> QED  BY <1>2, <4>3, EmptySeq
    <3> QED  BY <1>6, <3>1, <3>2, <3>3 DEF TerminalConfirmed
  <2>3. Inv'
    BY <1>1, <1>2, <1>3, <2>1, EndKeeps
  <2>4. run' = FreshRun /\ gpu' = <<>> /\ fenceFailures' <= MaxFenceFailures
    BY <1>4, <2>1, <2>2 DEF End
  <2> QED  BY <2>3, <2>4, EndDrains
<1> QED  BY <1>5, <1>6

LEMMA RecoverySettlesKeeps ==
  ASSUME Inv, DrainInv, RecoverySettles
  PROVE  Inv' /\ DrainInv'
<1>1. /\ run.step = "recovering" /\ signalAborted' = signalAborted /\ fenceFailures' = fenceFailures
  BY DEF RecoverySettles
<1>2. /\ gpu \in Seq(Graphs) /\ lost \in BOOLEAN /\ fenceFailures \in Nat
      /\ fenceFailures <= MaxFenceFailures
  BY DEF Inv, TypeOK, DrainInv
<1>3. CASE run.pending[1].state = "fulfilled"
  <2>1. End("rejected") /\ UNCHANGED <<gpu, lost>>
    BY <1>3 DEF RecoverySettles
  <2>2. Len(run.pending) = 1 /\ run.pending[1].ahead = Len(gpu)
    BY <1>1 DEF DrainInv, YoungestCovers
  <2>3. 1 \in 1..Len(run.pending)
    BY <2>2
  <2>4. Len(gpu) = 0
    BY <1>3, <2>2, <2>3 DEF DrainInv, FencesTellTruth
  <2>5. gpu = <<>> /\ holder \in Graphs
    BY <1>1, <1>2, <2>4, EmptySeq, HolderOfStep
  <2>6. Inv'
    BY <1>1, <1>2, <2>1, <2>5, EndKeeps
  <2> QED  BY <1>1, <1>2, <2>1, <2>5, <2>6, EndDrains DEF End
<1>4. CASE DestroyDevice
  BY <1>1, <1>2, <1>4, DestroyKeeps
<1> QED  BY <1>3, <1>4 DEF RecoverySettles

LEMMA LossSettlesKeeps ==
  ASSUME Inv, DrainInv, LossSettles
  PROVE  Inv' /\ DrainInv'
<1>1. run.step = "losing" /\ UNCHANGED <<signalAborted, gpu, lost, fenceFailures>>
  BY DEF LossSettles, gpuVars
<1>2. /\ gpu \in Seq(Graphs) /\ lost \in BOOLEAN /\ fenceFailures \in Nat
      /\ fenceFailures <= MaxFenceFailures /\ (lost => gpu = <<>>) /\ run \in Run
      /\ \A i \in 1..Len(gpu) : gpu[i] = holder
      /\ Len(gpu) <= 2
      /\ run.confirmed => gpu = <<>> /\ holder \notin Cooperative
      /\ FencesTellTruth
  BY DEF Inv, TypeOK, DrainInv
<1>3. CASE lost /\ End("rejected")
  <2>1. holder \in Graphs
    BY <1>1, HolderOfStep
  <2>2. Inv'
    BY <1>1, <1>2, <1>3, <2>1, EndKeeps
  <2> QED  BY <1>1, <1>2, <1>3, <2>2, EndDrains DEF End
<1>4. CASE run' = [run EXCEPT !.step = "stuck"] /\ UNCHANGED ownerVars
  <2>1. /\ run' \in Run /\ run'.step = "stuck" /\ run'.epoch = run.epoch
        /\ run'.pending = run.pending /\ run'.confirmed = run.confirmed
    BY <1>2, <1>4 DEF Run, Step
  <2>2. Inv' /\ holder' = holder
    BY <1>1, <1>2, <1>4, <2>1, RunChanges
  <2> QED  BY <1>1, <1>2, <2>1, <2>2 DEF DrainInv, FencesTellTruth
<1> QED  BY <1>3, <1>4 DEF LossSettles

(* A cooperative run never passes the last buffer of its plan.              *)
LEMMA CooperativeFits ==
  ASSUME Inv, CooperativeSubmits \/ CooperativeDrained
  PROVE  Inv'
<1>1. /\ holder \in Cooperative /\ holder \in Graphs /\ holder # 0
      /\ UNCHANGED <<signalAborted, lost>>
  BY SchedulerConstants, GraphConstants DEF CooperativeSubmits, CooperativeDrained, gpuVars
<1>2. /\ TypeOK /\ run \in Run /\ gpu \in Seq(Graphs) /\ fenceFailures \in Nat
      /\ lost \in BOOLEAN /\ run.next \in Nat \ {0}
  BY DEF Inv, TypeOK, Run
<1>3. LastBuffer \in Nat
  BY <1>1, PlanFacts DEF LastBuffer, Plan
<1>4. ASSUME UNCHANGED ownerVars, run' \in Run, gpu' \in Seq(Graphs), fenceFailures' = fenceFailures,
             \/ run'.step = "await" /\ run'.next <= LastBuffer + 1
             \/ run'.step = "idle" /\ run'.next <= LastBuffer
      PROVE  Inv'
  <2>1. OwnerTypeOK' /\ OwnerInv'
    BY <1>4 DEF ownerVars, Inv, TypeOK, OwnerTypeOK, OwnerInv, Waits, ServedInOrder
  <2>2. TypeOK'
    BY <1>1, <1>2, <1>4, <2>1 DEF TypeOK
  <2>3. LastBuffer' = LastBuffer /\ holder' = holder
    BY <1>4 DEF LastBuffer, Plan, ownerVars
  <2> QED  BY <1>1, <1>4, <2>1, <2>2, <2>3 DEF Inv, RunInPlan, Depth2
<1>5. ASSUME NEW result \in {"resolved", "rejected"}, End(result), gpu' \in Seq(Graphs), fenceFailures' \in Nat
      PROVE  Inv'
  BY <1>1, <1>2, <1>5, EndKeeps
<1>6. CASE CooperativeSubmits
  <2>1. Submits(1) => gpu' \in Seq(Graphs)
    BY <1>1, <1>2, SubmitsFacts
  <2>2. run.next <= LastBuffer
    BY <1>1, <1>6 DEF CooperativeSubmits, Inv, RunInPlan
  <2>3. CASE End("rejected") /\ UNCHANGED <<gpu, fenceFailures>>
    BY <1>2, <1>5, <2>3
  <2>4. CASE /\ run' = [run EXCEPT !.step = "await", !.next = run.next + 1,
                                   !.pending = NewFences(run.next, 1)]
             /\ Submits(1)
             /\ UNCHANGED <<ownerVars, fenceFailures>>
    <3>1. NewFences(run.next, 1) \in Seq(Fence)
      <4>1. 1 \in Nat
        OBVIOUS
      <4> QED  BY <1>2, <4>1, NewFencesFacts
    <3>2. run.next + 1 \in Nat \ {0} /\ run.next + 1 <= LastBuffer + 1
      BY <1>2, <1>3, <2>2
    <3>3. run' \in Run /\ run'.step = "await" /\ run'.next = run.next + 1
      BY <1>2, <2>4, <3>1, <3>2 DEF Run, Step
    <3> QED  BY <1>4, <2>1, <2>4, <3>2, <3>3
  <2>5. CASE FenceFails /\ Submits(1) /\ End("rejected")
    <3>1. fenceFailures' \in Nat
      BY <1>2, <2>5 DEF FenceFails
    <3> QED  BY <1>5, <2>1, <2>5, <3>1
  <2> QED  BY <1>6, <2>3, <2>4, <2>5 DEF CooperativeSubmits
<1>7. CASE CooperativeDrained
  <2>1. UNCHANGED <<gpu, fenceFailures>>
    BY <1>7 DEF CooperativeDrained, gpuVars
  <2>2. ASSUME NEW result \in {"resolved", "rejected"}, End(result) PROVE Inv'
    BY <1>2, <1>5, <2>1, <2>2
  <2>3. CASE /\ ~(run.next > LastBuffer)
             /\ run' = [run EXCEPT !.step = "idle", !.pending = <<>>]
             /\ UNCHANGED ownerVars
    <3>1. run' \in Run /\ run'.step = "idle" /\ run'.next = run.next
      BY <1>2, <2>3, EmptySeq DEF Run, Step
    <3> QED  BY <1>2, <1>3, <1>4, <2>1, <2>3, <3>1
  <2> QED  BY <1>7, <2>2, <2>3 DEF CooperativeDrained
<1> QED  BY <1>6, <1>7

(* The device: it works, its fences settle, it is lost.                     *)
LEMMA DeviceFits ==
  ASSUME Inv, UNCHANGED <<ownerVars, signalAborted>>, run' \in Run,
         run'.step = run.step, run'.epoch = run.epoch, run'.next = run.next,
         run.step = "granted" => run' = run,
         gpu' \in Seq(Graphs), lost' \in BOOLEAN, fenceFailures' \in Nat
  PROVE  Inv' /\ Plan' = Plan /\ holder' = holder
<1>1. OwnerTypeOK' /\ OwnerInv'
  BY DEF ownerVars, Inv, TypeOK, OwnerTypeOK, OwnerInv, Waits, ServedInOrder
<1>2. TypeOK'
  BY <1>1 DEF Inv, TypeOK
<1>3. Plan' = Plan /\ LastBuffer' = LastBuffer /\ holder' = holder
  BY DEF Plan, LastBuffer, ownerVars
<1>4. holder = 0 => run' = FreshRun
  BY DEF Inv, RunInPlan, FreshRun
<1>5. FreshRun' = FreshRun
  BY DEF FreshRun
<1> QED  BY <1>1, <1>2, <1>3, <1>4, <1>5 DEF Inv, RunInPlan, Depth2

LEMMA MovedFencesKeep ==
  ASSUME Inv, DrainInv, NEW moved \in [1..Len(run.pending) -> Nat],
         run' = [run EXCEPT !.pending =
                   [i \in DOMAIN run.pending |-> [run.pending[i] EXCEPT !.ahead = moved[i]]]],
         UNCHANGED <<ownerVars, signalAborted>>,
         gpu' \in Seq(Graphs), lost' \in BOOLEAN, fenceFailures' = fenceFailures,
         lost' => gpu' = <<>>, Len(gpu') <= Len(gpu), \A i \in 1..Len(gpu') : gpu'[i] = holder,
         gpu = <<>> => gpu' = <<>>,
         \A i \in 1..Len(run.pending) : run.pending[i].ahead = 0 => moved[i] = 0,
         \A i \in 1..Len(run.pending) : run.pending[i].ahead = Len(gpu) => moved[i] = Len(gpu'),
         \A i, j \in 1..Len(run.pending) :
           run.pending[j].ahead <= run.pending[i].ahead + 1 => moved[j] <= moved[i] + 1
  PROVE  Inv' /\ DrainInv'
<1>1. TypeOK /\ run \in Run /\ run.pending \in Seq(Fence) /\ Len(run.pending) \in Nat
      /\ fenceFailures \in Nat /\ Len(gpu) \in Nat /\ Len(gpu') \in Nat
  BY LenProperties DEF Inv, TypeOK, Run
<1>2. /\ run' \in Run
      /\ Len(run'.pending) = Len(run.pending)
      /\ \A i \in 1..Len(run.pending) :
           /\ run'.pending[i].index = run.pending[i].index
           /\ run'.pending[i].ahead = moved[i]
           /\ run'.pending[i].state = run.pending[i].state
      /\ run'.step = run.step /\ run'.epoch = run.epoch /\ run'.next = run.next
      /\ run'.uncaptured = run.uncaptured /\ run'.confirmed = run.confirmed
  BY <1>1, MovedFences
<1>3. run.pending = <<>> => run' = run
  <2> SUFFICES ASSUME run.pending = <<>> PROVE run' = run
    OBVIOUS
  <2>1. run'.pending = <<>>
    BY <1>2, EmptySeq DEF Run
  <2> QED  BY <1>1, <1>2, <2>1 DEF Run
<1>4. run.step = "granted" => run' = run
  BY <1>3 DEF Inv, RunInPlan, FreshRun
<1>5. Inv' /\ Plan' = Plan /\ holder' = holder
  BY <1>1, <1>2, <1>4, DeviceFits
<1>6. FencesTellTruth' /\ (PendingAreYoungest => PendingAreYoungest')
  BY <1>2 DEF DrainInv, FencesTellTruth, PendingAreYoungest
<1>7. Len(run.pending) >= 1 /\ YoungestCovers => YoungestCovers'
  <2>1. Len(run.pending) >= 1 => Len(run.pending) \in 1..Len(run.pending)
    BY <1>1
  <2> QED  BY <1>2, <2>1 DEF YoungestCovers
<1>8. run.pending # <<>> => Len(run.pending) >= 1
  BY <1>1, EmptySeq
<1>9. Len(run.pending) = 2 /\ run.pending[2].ahead <= run.pending[1].ahead + 1
        => run'.pending[2].ahead <= run'.pending[1].ahead + 1
  <2> SUFFICES ASSUME Len(run.pending) = 2, run.pending[2].ahead <= run.pending[1].ahead + 1
               PROVE  run'.pending[2].ahead <= run'.pending[1].ahead + 1
    OBVIOUS
  <2>1. 1 \in 1..Len(run.pending) /\ 2 \in 1..Len(run.pending)
    OBVIOUS
  <2>2. moved[2] <= moved[1] + 1
    BY <2>1
  <2> QED  BY <1>2, <2>1, <2>2
<1>10. /\ HasSubmittedWork' = HasSubmittedWork
       /\ run'.pending # <<>> => run.pending # <<>>
       /\ run.pending = <<>> => run'.pending = <<>>
  BY <1>2, <1>3 DEF HasSubmittedWork
<1>11. Len(gpu') <= 2
  BY <1>1 DEF DrainInv
<1> QED
  BY <1>1, <1>2, <1>5, <1>6, <1>7, <1>8, <1>9, <1>10, <1>11 DEF DrainInv, Depth2

LEMMA DeviceExecutesKeeps ==
  ASSUME Inv, DrainInv, DeviceExecutes
  PROVE  Inv' /\ DrainInv'
<1>1. /\ gpu \in Seq(Graphs) /\ gpu # <<>> /\ lost \in BOOLEAN /\ Len(gpu) \in Nat
      /\ run.pending \in Seq(Fence) /\ DOMAIN run.pending = 1..Len(run.pending)
      /\ gpu' = Tail(gpu) /\ UNCHANGED <<ownerVars, signalAborted, lost, fenceFailures>>
      /\ (lost => gpu = <<>>) /\ \A i \in 1..Len(gpu) : gpu[i] = holder
  BY LenProperties DEF Inv, TypeOK, Run, DeviceExecutes, DrainInv
<1>2. \A i \in 1..Len(run.pending) : run.pending[i].ahead \in Nat
  <2>1. \A i \in 1..Len(run.pending) : run.pending[i] \in Fence
    BY <1>1, ElementOfSeq
  <2> QED  BY <2>1 DEF Fence
<1> DEFINE moved == [i \in 1..Len(run.pending) |-> CountDown(run.pending[i].ahead)]
<1>3. moved \in [1..Len(run.pending) -> Nat]
      /\ \A i \in 1..Len(run.pending) :
           moved[i] = IF run.pending[i].ahead = 0 THEN 0 ELSE run.pending[i].ahead - 1
  BY <1>2 DEF CountDown
<1>4. run' = [run EXCEPT !.pending =
                [i \in DOMAIN run.pending |-> [run.pending[i] EXCEPT !.ahead = moved[i]]]]
  <2>1. \A i \in DOMAIN run.pending : moved[i] = CountDown(run.pending[i].ahead)
    BY <1>1
  <2> HIDE DEF moved
  <2>2. \A i \in DOMAIN run.pending :
          [run.pending[i] EXCEPT !.ahead = moved[i]]
            = [index |-> run.pending[i].index, ahead |-> CountDown(run.pending[i].ahead),
               state |-> run.pending[i].state]
    <3>1. \A i \in DOMAIN run.pending : run.pending[i] \in Fence
      BY <1>1, ElementOfSeq
    <3> QED  BY <2>1, <3>1 DEF Fence
  <2>3. run' = [run EXCEPT !.pending =
                 [i \in DOMAIN run.pending |->
                   [index |-> run.pending[i].index, ahead |-> CountDown(run.pending[i].ahead),
                    state |-> run.pending[i].state]]]
    BY DEF DeviceExecutes
  <2> QED  BY <2>2, <2>3
<1> HIDE DEF moved
<1>5. /\ gpu' \in Seq(Graphs) /\ Len(gpu') = Len(gpu) - 1 /\ Len(gpu) >= 1
      /\ \A i \in 1..Len(gpu') : gpu'[i] = holder
  <2>1. /\ Tail(gpu) \in Seq(Graphs) /\ Len(Tail(gpu)) = Len(gpu) - 1
        /\ \A i \in 1..Len(Tail(gpu)) : Tail(gpu)[i] = gpu[i + 1]
    BY <1>1, HeadTailProperties
  <2>2. Len(gpu) >= 1
    BY <1>1, EmptySeq
  <2> QED  BY <1>1, <2>1, <2>2
<1>6. \A i \in 1..Len(run.pending) : run.pending[i].ahead = 0 => moved[i] = 0
  BY <1>3
<1>7. \A i \in 1..Len(run.pending) : run.pending[i].ahead = Len(gpu) => moved[i] = Len(gpu')
  BY <1>1, <1>2, <1>3, <1>5
<1>8. \A i, j \in 1..Len(run.pending) :
        run.pending[j].ahead <= run.pending[i].ahead + 1 => moved[j] <= moved[i] + 1
  BY <1>2, <1>3
<1>9. Len(gpu') <= Len(gpu) /\ (lost' => gpu' = <<>>) /\ (gpu = <<>> => gpu' = <<>>)
      /\ lost' \in BOOLEAN /\ UNCHANGED <<ownerVars, signalAborted>> /\ fenceFailures' = fenceFailures
  BY <1>1, <1>5
<1> QED  BY <1>3, <1>4, <1>5, <1>6, <1>7, <1>8, <1>9, MovedFencesKeep

LEMMA DeviceIsLostKeeps ==
  ASSUME Inv, DrainInv, DeviceIsLost
  PROVE  Inv' /\ DrainInv'
<1>1. /\ gpu' = <<>> /\ lost' = TRUE /\ UNCHANGED <<ownerVars, signalAborted, fenceFailures>>
      /\ Len(gpu) \in Nat /\ DOMAIN run.pending = 1..Len(run.pending)
  BY LenProperties DEF Inv, TypeOK, Run, DeviceIsLost, DropGpuWork
<1> DEFINE moved == [i \in 1..Len(run.pending) |-> 0]
<1>2. moved \in [1..Len(run.pending) -> Nat] /\ \A i \in 1..Len(run.pending) : moved[i] = 0
  OBVIOUS
<1>3. run' = [run EXCEPT !.pending =
                [i \in DOMAIN run.pending |-> [run.pending[i] EXCEPT !.ahead = moved[i]]]]
  BY <1>1 DEF DeviceIsLost
<1> HIDE DEF moved
<1>4. gpu' \in Seq(Graphs) /\ Len(gpu') = 0 /\ \A i \in 1..Len(gpu') : gpu'[i] = holder
  BY <1>1, EmptySeq
<1>5. \A i \in 1..Len(run.pending) : run.pending[i].ahead = Len(gpu) => moved[i] = Len(gpu')
  BY <1>2, <1>4
<1>6. \A i, j \in 1..Len(run.pending) :
        run.pending[j].ahead <= run.pending[i].ahead + 1 => moved[j] <= moved[i] + 1
  BY <1>2
<1>7. /\ Len(gpu') <= Len(gpu) /\ (lost' => gpu' = <<>>) /\ (gpu = <<>> => gpu' = <<>>)
      /\ lost' \in BOOLEAN /\ UNCHANGED <<ownerVars, signalAborted>> /\ fenceFailures' = fenceFailures
      /\ \A i \in 1..Len(run.pending) : run.pending[i].ahead = 0 => moved[i] = 0
  BY <1>1, <1>2, <1>4
<1> QED  BY <1>2, <1>3, <1>4, <1>5, <1>6, <1>7, MovedFencesKeep

LEMMA FenceSettlesKeeps ==
  ASSUME Inv, DrainInv, NEW k \in 1..2, FenceSettles(k)
  PROVE  Inv' /\ DrainInv'
<1>1. /\ run \in Run /\ run.pending \in Seq(Fence) /\ Len(run.pending) \in Nat
      /\ UNCHANGED <<ownerVars, signalAborted, gpu, lost>>
      /\ gpu \in Seq(Graphs) /\ lost \in BOOLEAN /\ fenceFailures \in Nat
      /\ k \in 1..Len(run.pending) /\ MaxFenceFailures \in Nat
      /\ fenceFailures <= MaxFenceFailures
  BY LenProperties, SchedulerConstants DEF Inv, TypeOK, Run, FenceSettles, DrainInv
<1>2. PICK state \in {"fulfilled", "rejected"} :
        /\ run' = [run EXCEPT !.pending =
                     [run.pending EXCEPT ![k] = [run.pending[k] EXCEPT !.state = state]]]
        /\ state = "fulfilled" => run.pending[k].ahead = 0 /\ fenceFailures' = fenceFailures
        /\ state = "rejected" => fenceFailures > 0 /\ fenceFailures' = fenceFailures - 1
  <2>1. \/ /\ run.pending[k].ahead = 0
           /\ run' = [run EXCEPT !.pending =
                        [run.pending EXCEPT ![k] = [run.pending[k] EXCEPT !.state = "fulfilled"]]]
           /\ fenceFailures' = fenceFailures
        \/ /\ FenceFails
           /\ run' = [run EXCEPT !.pending =
                        [run.pending EXCEPT ![k] = [run.pending[k] EXCEPT !.state = "rejected"]]]
    BY DEF FenceSettles
  <2> QED  BY <2>1 DEF FenceFails
<1> DEFINE fence == [run.pending[k] EXCEPT !.state = state]
           fences == [run.pending EXCEPT ![k] = fence]
<1>3. \A i \in 1..Len(run.pending) : run.pending[i] \in Fence
  BY <1>1, ElementOfSeq
<1>4. /\ fence \in Fence /\ fence.index = run.pending[k].index /\ fence.ahead = run.pending[k].ahead
      /\ fence.state = state
  BY <1>1, <1>3 DEF Fence
<1> HIDE DEF fence
<1>5. /\ fences \in Seq(Fence) /\ Len(fences) = Len(run.pending)
      /\ \A i \in 1..Len(run.pending) : fences[i] = IF i = k THEN fence ELSE run.pending[i]
  BY <1>1, <1>4, ExceptSeq
<1>6. run' = [run EXCEPT !.pending = fences]
  BY <1>2 DEF fence
<1> HIDE DEF fences
<1>7. /\ run' \in Run /\ run'.pending = fences
      /\ run'.step = run.step /\ run'.epoch = run.epoch /\ run'.next = run.next
      /\ run'.uncaptured = run.uncaptured /\ run'.confirmed = run.confirmed
  BY <1>1, <1>5, <1>6 DEF Run
<1>8. \A i \in 1..Len(run.pending) :
        /\ run'.pending[i].index = run.pending[i].index
        /\ run'.pending[i].ahead = run.pending[i].ahead
        /\ \/ run'.pending[i].state = run.pending[i].state
           \/ run'.pending[i].state = "fulfilled" /\ run.pending[i].ahead = 0
           \/ run'.pending[i].state = "rejected" /\ MaxFenceFailures > 0
  BY <1>1, <1>2, <1>4, <1>5, <1>7
<1>9. fenceFailures' \in Nat /\ fenceFailures' <= MaxFenceFailures
  BY <1>1, <1>2
<1>10. run.step # "granted" /\ run.pending # <<>> /\ Len(run'.pending) = Len(run.pending)
  BY <1>1, <1>5, <1>7, EmptySeq DEF DrainInv
<1>11. Inv' /\ Plan' = Plan /\ holder' = holder
  BY <1>1, <1>7, <1>9, <1>10, DeviceFits
<1>12. FencesTellTruth' /\ (PendingAreYoungest => PendingAreYoungest')
  BY <1>7, <1>8, <1>10 DEF DrainInv, FencesTellTruth, PendingAreYoungest
<1>13. YoungestCovers => YoungestCovers'
  <2>1. Len(run.pending) \in 1..Len(run.pending)
    BY <1>1
  <2> QED  BY <1>1, <1>8, <1>10, <2>1 DEF YoungestCovers
<1>14. Len(run.pending) = 2 =>
         run'.pending[1].ahead = run.pending[1].ahead /\ run'.pending[2].ahead = run.pending[2].ahead
  BY <1>8
<1>15. HasSubmittedWork' = HasSubmittedWork /\ run.step \notin {"granted", "idle"}
  BY <1>7, <1>10 DEF HasSubmittedWork, DrainInv
<1> QED
  BY <1>1, <1>7, <1>9, <1>10, <1>11, <1>12, <1>13, <1>14, <1>15 DEF DrainInv, Depth2

(* A graph gets the lease from nobody, or from a graph that has drained.    *)
LEMMA OwnerCallDrains ==
  ASSUME Inv, DrainInv, OwnerCall
  PROVE  DrainInv'
<1>1. /\ UNCHANGED <<run, gpu, lost, fenceFailures>>
      /\ holder' = holder \/ holder = 0
  BY OwnerCallKeeps DEF OwnerCall, gpuVars
<1>2. CASE holder' = holder
  BY <1>1, <1>2 DEF DrainInv, FencesTellTruth, YoungestCovers, PendingAreYoungest,
     HasSubmittedWork, Depth2, Plan
<1>3. CASE holder = 0
  <2>1. gpu = <<>>
    <3>1. \A i \in 1..Len(gpu) : gpu[i] \in Graphs /\ gpu[i] = 0
      BY <1>3, ElementOfSeq DEF Inv, TypeOK, DrainInv
    <3>2. ~(1 \in 1..Len(gpu))
      BY <3>1, GraphConstants
    <3> QED  BY <3>2, EmptySeq DEF Inv, TypeOK
  <2>2. run' = FreshRun /\ gpu' = <<>> /\ fenceFailures' <= MaxFenceFailures
    BY <1>1, <1>3, <2>1 DEF Inv, RunInPlan, DrainInv
  <2> QED  BY <2>2, EndDrains
<1> QED  BY <1>1, <1>2, <1>3

LEMMA SignalKeeps ==
  ASSUME Inv, DrainInv, NEW g \in Graphs, AbortSignal(g)
  PROVE  Inv' /\ DrainInv'
<1>1. UNCHANGED <<ownerVars, run, gpu, lost, fenceFailures>> /\ signalAborted' \subseteq Graphs
  BY DEF AbortSignal, gpuVars, Inv, TypeOK
<1> QED
  BY <1>1 DEF ownerVars, Inv, TypeOK, OwnerTypeOK, OwnerInv, Waits, ServedInOrder, RunInPlan,
     FreshRun, Depth2, Plan, LastBuffer, DrainInv, FencesTellTruth, YoungestCovers,
     PendingAreYoungest, HasSubmittedWork
-----------------------------------------------------------------------------
LEMMA Starts == Init => Inv /\ DrainInv
<1> SUFFICES ASSUME Init PROVE Inv /\ DrainInv
  OBVIOUS
<1>1. OwnerOK
  BY OwnerStarts DEF Init
<1>2. TypeOK
  BY <1>1, FreshRunIsRun, EmptySeq, SchedulerConstants DEF Init, TypeOK, OwnerOK
<1>3. Inv
  BY <1>1, <1>2, FreshFits DEF Init, Inv, OwnerOK
<1>4. DrainInv
  BY EmptySeq, SchedulerConstants DEF Init, DrainInv, FreshRun, FencesTellTruth, YoungestCovers,
     PendingAreYoungest, HasSubmittedWork
<1> QED  BY <1>3, <1>4

LEMMA StepKeeps ==
  ASSUME Inv, DrainInv, FencesSuffice, [Next]_vars
  PROVE  Inv' /\ DrainInv'
<1>1. CASE OwnerCall
  BY <1>1, OwnerCallKeeps, OwnerCallDrains
<1>2. ASSUME NEW g \in Graphs, AbortSignal(g) PROVE Inv' /\ DrainInv'
  BY <1>2, SignalKeeps
<1>3. CASE Submission
  BY <1>3, CooperativeFits, CooperativeSubmitsKeeps, CooperativeDrainedKeeps, EpochBeginsKeeps,
     FenceObservedKeeps, FailureSettlesKeeps, RecoverySettlesKeeps, LossSettlesKeeps DEF Submission
<1>4. CASE Device
  BY <1>4, DeviceExecutesKeeps, FenceSettlesKeeps DEF Device
<1>5. CASE DeviceIsLost
  BY <1>5, DeviceIsLostKeeps
<1>6. CASE UNCHANGED vars
  BY <1>6 DEF vars, gpuVars, ownerVars, Inv, TypeOK, OwnerTypeOK, OwnerInv, Waits, ServedInOrder,
     RunInPlan, FreshRun, Depth2, Plan, LastBuffer, DrainInv, FencesTellTruth, YoungestCovers,
     PendingAreYoungest, HasSubmittedWork
<1> QED  BY <1>1, <1>2, <1>3, <1>4, <1>5, <1>6 DEF Next
-----------------------------------------------------------------------------
(* Whatever a fence does, the owner serves in order of arrival, and a       *)
(* request that waits is in the queue behind a lease that is held: this     *)
(* needs nothing of the runs but that an execution ends only while it has   *)
(* the lease.                                                               *)
OwnerSafe == OwnerOK /\ (holder = 0 => run = FreshRun)

LEMMA OwnerIsSafe == Spec => []OwnerSafe
<1>1. Init => OwnerSafe
  BY OwnerStarts DEF Init, OwnerSafe
<1>2. OwnerSafe /\ [Next]_vars => OwnerSafe'
  <2> SUFFICES ASSUME OwnerSafe, [Next]_vars PROVE OwnerSafe'
    OBVIOUS
  <2>0. FreshRun' = FreshRun /\ (holder \in Graphs \cup {0})
    BY DEF FreshRun, OwnerSafe, OwnerOK, OwnerTypeOK
  <2>1. ASSUME UNCHANGED ownerVars, holder = 0 => run' = run PROVE OwnerSafe'
    BY <2>0, <2>1 DEF OwnerSafe, OwnerOK, ownerVars, OwnerTypeOK, OwnerInv, Waits, ServedInOrder
  <2>2. ASSUME NEW result \in {"resolved", "rejected"}, End(result), holder # 0 PROVE OwnerSafe'
    <3>1. OwnerOK'
      BY <2>0, <2>2, ReleaseKeeps DEF OwnerSafe, End
    <3> QED  BY <2>0, <2>2, <3>1 DEF OwnerSafe, End
  <2>3. CASE OwnerCall
    <3>1. OwnerOK'
      BY <2>3, AcquireKeeps, AbortKeeps, DisposeKeeps DEF OwnerCall, OwnerSafe
    <3>2. run' = run /\ (holder' = holder \/ holder = 0)
      BY <2>3 DEF OwnerCall, Acquire, AbortOwner, DisposeOwner
    <3> QED  BY <2>0, <3>1, <3>2 DEF OwnerSafe
  <2>4. CASE \E g \in Graphs : AbortSignal(g)
    BY <2>1, <2>4 DEF AbortSignal
  <2>5. CASE Submission
    <3>1. holder # 0
      BY <2>5, GraphConstants, SchedulerConstants DEF Submission, CooperativeSubmits,
         CooperativeDrained, EpochBegins, FenceObserved, FailureSettles, RecoverySettles,
         LossSettles, OwnerSafe, FreshRun
    <3>2. ASSUME UNCHANGED ownerVars PROVE OwnerSafe'
      BY <2>1, <3>1, <3>2
    <3>3. ASSUME NEW result \in {"resolved", "rejected"}, End(result) PROVE OwnerSafe'
      BY <2>2, <3>1, <3>3
    <3>4. CASE CooperativeSubmits
      BY <3>2, <3>3, <3>4 DEF CooperativeSubmits
    <3>5. CASE CooperativeDrained
      BY <3>2, <3>3, <3>5 DEF CooperativeDrained
    <3>6. CASE EpochBegins
      BY <3>2, <3>6 DEF EpochBegins
    <3>7. CASE FenceObserved
      BY <3>2, <3>3, <3>7 DEF FenceObserved, EpochContinues
    <3>8. CASE FailureSettles
      BY <3>2, <3>3, <3>8 DEF FailureSettles, DestroyDevice
    <3>9. CASE RecoverySettles
      BY <3>2, <3>3, <3>9 DEF RecoverySettles, DestroyDevice
    <3>10. CASE LossSettles
      BY <3>2, <3>3, <3>10 DEF LossSettles
    <3> QED  BY <2>5, <3>4, <3>5, <3>6, <3>7, <3>8, <3>9, <3>10 DEF Submission
  <2>6. CASE DeviceExecutes \/ DeviceIsLost
    <3>1. UNCHANGED ownerVars
      BY <2>6 DEF DeviceExecutes, DeviceIsLost
    <3>2. holder = 0 => run' = run
      <4> SUFFICES ASSUME run = FreshRun PROVE run' = run
        BY DEF OwnerSafe
      <4>1. run \in Run /\ run.pending = <<>> /\ DOMAIN run.pending = {}
        BY FreshRunIsRun DEF FreshRun
      <4>2. \E fences : /\ run' = [run EXCEPT !.pending = fences]
                        /\ fences = [i \in {} |-> fences[i]]
        <5>1. CASE DeviceExecutes
          BY <4>1, <5>1 DEF DeviceExecutes
        <5>2. CASE DeviceIsLost
          BY <4>1, <5>2 DEF DeviceIsLost
        <5> QED  BY <2>6, <5>1, <5>2
      <4>3. PICK fences : /\ run' = [run EXCEPT !.pending = fences]
                          /\ fences = [i \in {} |-> fences[i]]
        BY <4>2
      <4>4. fences = <<>>
        BY <4>3
      <4> QED  BY <4>1, <4>3, <4>4 DEF Run
    <3> QED  BY <2>1, <3>1, <3>2
  <2>7. ASSUME NEW k \in 1..2, FenceSettles(k) PROVE OwnerSafe'
    <3>1. holder # 0
      BY <2>7, EmptySeq DEF FenceSettles, OwnerSafe, FreshRun
    <3> QED  BY <2>1, <2>7, <3>1 DEF FenceSettles
  <2>8. CASE UNCHANGED vars
    BY <2>1, <2>8 DEF vars
  <2> QED  BY <2>3, <2>4, <2>5, <2>6, <2>7, <2>8 DEF Next, Device
<1> QED  BY <1>1, <1>2, PTL DEF Spec

(* First come, first served, whatever aborts, throws or is lost.            *)
THEOREM OwnerServesInOrder == Spec => []ServedInOrder
<1>1. OwnerSafe => ServedInOrder
  BY DEF OwnerSafe, OwnerOK, OwnerInv
<1> QED  BY <1>1, OwnerIsSafe, PTL

(* No wakeup is lost, whatever aborts, throws or is lost.                   *)
THEOREM OwnerLosesNoWakeup == Spec => []NoLostWakeup
<1>1. OwnerSafe => NoLostWakeup
  BY OwnerWakes DEF OwnerSafe
<1> QED  BY <1>1, OwnerIsSafe, PTL
-----------------------------------------------------------------------------
LEMMA SchedulerIsSafe ==
  ASSUME FencesSuffice
  PROVE  Spec => [](Inv /\ DrainInv)
<1>1. Inv /\ DrainInv /\ [Next]_vars => Inv' /\ DrainInv'
  BY StepKeeps
<1>2. Init => Inv /\ DrainInv
  BY Starts
<1> QED  BY <1>1, <1>2, PTL DEF Spec

(* The state is well typed.                                                 *)
THEOREM SchedulerTyping ==
  ASSUME FencesSuffice
  PROVE  Spec => []TypeOK
<1>1. Inv /\ DrainInv => TypeOK
  BY DEF Inv
<1> QED  BY <1>1, SchedulerIsSafe, PTL

(* No graph encodes over storage the device still reads or writes for       *)
(* another one.                                                             *)
THEOREM LeaseOutlivesWork ==
  ASSUME FencesSuffice
  PROVE  Spec => []ReleasedOnlyAfterDrain
<1>1. Inv /\ DrainInv => ReleasedOnlyAfterDrain
  BY DEF DrainInv, ReleasedOnlyAfterDrain
<1> QED  BY <1>1, SchedulerIsSafe, PTL

(* Two command buffers at most are in flight.                               *)
THEOREM DepthIsTwo ==
  ASSUME FencesSuffice
  PROVE  Spec => []QueueDepth
<1>1. Inv /\ DrainInv => QueueDepth
  BY DEF DrainInv, QueueDepth
<1> QED  BY <1>1, SchedulerIsSafe, PTL

(* The true drain that the idle turn reports is one.                        *)
THEOREM IdleAfterTrueDrain ==
  ASSUME FencesSuffice
  PROVE  Spec => []IdleIsDrained
<1>1. Inv /\ DrainInv => IdleIsDrained
  BY DEF DrainInv, IdleIsDrained
<1> QED  BY <1>1, SchedulerIsSafe, PTL

(* After dispose() nothing runs, nothing waits and the device is idle.      *)
THEOREM DisposedOwnerIsIdle ==
  ASSUME FencesSuffice
  PROVE  Spec => []DisposalMeansIdle
<1>1. ASSUME Inv, DrainInv PROVE DisposalMeansIdle
  <2>1. CASE disposal # "resolved"
    BY <2>1 DEF DisposalMeansIdle
  <2>2. CASE disposal = "resolved"
    <3>1. holder = 0 /\ waiting = <<>>
      BY <1>1, <2>2 DEF Inv, OwnerInv
    <3>2. \A i \in 1..Len(gpu) : gpu[i] \in Graphs /\ gpu[i] = 0
      BY <1>1, <3>1, ElementOfSeq DEF Inv, TypeOK, DrainInv
    <3>3. ~(1 \in 1..Len(gpu))
      BY <3>2, GraphConstants
    <3>4. gpu = <<>>
      BY <1>1, <3>3, EmptySeq DEF Inv, TypeOK
    <3> QED  BY <3>1, <3>4 DEF DisposalMeansIdle
  <2> QED  BY <2>1, <2>2
<1> QED  BY <1>1, SchedulerIsSafe, PTL

(* What the scheduler reports as idle is idle.                              *)
THEOREM ReportsAreTruthful ==
  ASSUME FencesSuffice
  PROVE  Spec => []ReportsAreTrue
<1>1. IdleIsDrained /\ DisposalMeansIdle => ReportsAreTrue
  BY DEF ReportsAreTrue
<1> QED  BY <1>1, IdleAfterTrueDrain, DisposedOwnerIsIdle, PTL

(* A graph that reports success has submitted every buffer, and the device  *)
(* has done them all.                                                       *)
Complete == run.next = LastBuffer + 1 /\ gpu = <<>> /\ Len(run.pending) = 1

LEMMA CooperativeSuccess ==
  ASSUME Inv, DrainInv, FencesSuffice, CooperativeDrained, run.next > LastBuffer
  PROVE  Complete
<1>1. /\ holder \in Cooperative /\ holder \in Graphs /\ run.step = "await"
      /\ Settled(run.pending[1]) /\ Cooperative # {}
  BY SchedulerConstants DEF CooperativeDrained
<1>2. Len(run.pending) = 1 /\ run.pending[1].ahead = Len(gpu) /\ MaxFenceFailures = 0
  BY <1>1 DEF DrainInv, YoungestCovers, FencesSuffice
<1>3. run.pending[1] \in Fence /\ 1 \in 1..Len(run.pending)
  BY <1>2, ElementOfSeq DEF Inv, TypeOK, Run
<1>4. run.pending[1].ahead = 0
  BY <1>1, <1>2, <1>3 DEF DrainInv, FencesTellTruth, Settled, Fence
<1>5. gpu = <<>>
  BY <1>2, <1>4, EmptySeq DEF Inv, TypeOK
<1>6. run.next \in Nat /\ LastBuffer \in Nat /\ run.next <= LastBuffer + 1
  BY <1>1, PlanFacts DEF Inv, TypeOK, Run, RunInPlan, LastBuffer, Plan
<1> QED  BY <1>2, <1>5, <1>6 DEF Complete

LEMMA Depth2Success ==
  ASSUME Inv, DrainInv, holder \in Graphs \ Cooperative, run.step = "await",
         Settled(run.pending[1]), ~AFenceRejected,
         Drains(run.pending[1].index), run.epoch = Len(Plan)
  PROVE  Complete
<1> DEFINE L == Len(run.pending)
<1>1. /\ L \in {1, 2} /\ run.next <= LastBuffer + 1 /\ run.next > L
      /\ run.pending[1].index = run.next - L + 1 - 1
      /\ run.pending[1].index = LastBuffer
      /\ run.pending[L].ahead = Len(gpu)
  <2>1. L \in {1, 2} /\ 1 \in 1..L
    BY DEF DrainInv
  <2> QED  BY <2>1 DEF DrainInv, Depth2, LastBuffer, PendingAreYoungest, Drains, YoungestCovers
<1>2. run.next \in Nat /\ LastBuffer \in Nat
  BY PlanFacts DEF Inv, TypeOK, Run, LastBuffer, Plan
<1>3. L = 1 /\ run.next = LastBuffer + 1
  <2> HIDE DEF L
  <2> QED  BY <1>1, <1>2
<1>4. run.pending[1] \in Fence /\ 1 \in 1..L
  BY <1>3, ElementOfSeq DEF Inv, TypeOK, Run
<1>5. run.pending[1].ahead = 0
  BY <1>4 DEF DrainInv, FencesTellTruth, Settled, AFenceRejected, Fence
<1>6. gpu = <<>>
  BY <1>1, <1>3, <1>5, EmptySeq DEF Inv, TypeOK
<1> QED  BY <1>3, <1>6 DEF Complete

LEMMA ReleaseSettlesOne ==
  ASSUME Inv, holder \in Graphs, NEW result \in {"resolved", "rejected"}, Release(result),
         NEW g \in Graphs, lease[g] # "resolved", lease'[g] = "resolved"
  PROVE  result = "resolved"
<1>1. lease \in [Graphs -> LeaseState] /\ waiting \in Seq(Graphs)
  BY DEF Inv, TypeOK, OwnerTypeOK
<1> DEFINE settled == [lease EXCEPT ![holder] = result]
<1>2. settled[g] = "resolved" => result = "resolved"
  BY <1>1
<1>3. settled \in [Graphs -> LeaseState]
  BY <1>1 DEF LeaseState
<1>4. lease' = settled \/ (waiting # <<>> /\ lease' = [settled EXCEPT ![Head(waiting)] = "held"])
  BY DEF Release, GrantNext
<1> HIDE DEF settled
<1> QED  BY <1>2, <1>3, <1>4

Success ==
  \A g \in Graphs :
    lease[g] # "resolved" /\ lease'[g] = "resolved" =>
      /\ run.next = LastBuffer + 1
      /\ gpu = <<>> /\ Len(run.pending) = 1

LEMMA StepSucceeds ==
  ASSUME Inv, DrainInv, FencesSuffice, [Next]_vars
  PROVE  Success
<1>1. SUFFICES ASSUME NEW g \in Graphs, lease[g] # "resolved", lease'[g] = "resolved"
               PROVE  Complete
  BY DEF Success, Complete
<1>2. lease \in [Graphs -> LeaseState]
  BY DEF Inv, TypeOK, OwnerTypeOK
<1>3. ASSUME UNCHANGED ownerVars PROVE FALSE
  BY <1>1, <1>3 DEF ownerVars
<1>4. ASSUME holder \in Graphs, End("rejected") PROVE FALSE
  <2>1. Release("rejected")
    BY <1>4 DEF End
  <2>2. "rejected" \in {"resolved", "rejected"}
    OBVIOUS
  <2>3. "rejected" = "resolved"
    BY <1>1, <1>4, <2>1, <2>2, ReleaseSettlesOne
  <2> QED  BY <2>3
<1>5. CASE OwnerCall
  <2>1. ASSUME NEW h \in Graphs, Acquire(h) PROVE FALSE
    <3>1. CASE waiting = <<>>
      <4>1. Append(waiting, h) = <<h>> /\ <<h>> # <<>> /\ Head(<<h>>) = h
        BY <3>1
      <4> QED  BY <1>1, <1>2, <2>1, <4>1 DEF Acquire, GrantNext
    <3>2. CASE waiting # <<>>
      BY <1>1, <1>2, <2>1, <3>2 DEF Acquire, Inv, OwnerInv
    <3> QED  BY <3>1, <3>2
  <2>2. ASSUME NEW h \in Graphs, AbortOwner(h) PROVE FALSE
    BY <1>1, <1>2, <2>2 DEF AbortOwner
  <2>3. ASSUME DisposeOwner PROVE FALSE
    BY <1>1, <1>2, <2>3 DEF DisposeOwner
  <2> QED  BY <1>5, <2>1, <2>2, <2>3 DEF OwnerCall
<1>6. CASE \E h \in Graphs : AbortSignal(h)
  BY <1>3, <1>6 DEF AbortSignal
<1>7. CASE Submission
  <2>1. CASE CooperativeSubmits
    <3>1. holder \in Graphs
      BY <2>1, SchedulerConstants DEF CooperativeSubmits
    <3> QED  BY <1>3, <1>4, <2>1, <3>1 DEF CooperativeSubmits
  <2>2. CASE CooperativeDrained
    <3>1. holder \in Graphs
      BY <2>2, SchedulerConstants DEF CooperativeDrained
    <3>2. run.next > LastBuffer
      BY <1>3, <1>4, <2>2, <3>1 DEF CooperativeDrained
    <3> QED  BY <2>2, <3>2, CooperativeSuccess
  <2>3. CASE EpochBegins
    BY <1>3, <2>3 DEF EpochBegins
  <2>4. CASE FenceObserved
    <3> DEFINE drained == Drains(run.pending[1].index)
               r == [run EXCEPT !.pending = Tail(run.pending), !.confirmed = run.confirmed \/ drained]
    <3>1. /\ holder \in Graphs \ Cooperative /\ run.step = "await" /\ Settled(run.pending[1])
          /\ ~AFenceRejected /\ EpochContinues(r, drained)
      BY <1>3, <2>4 DEF FenceObserved
    <3>2. r.epoch = run.epoch
      BY DEF Inv, TypeOK, Run
    <3> HIDE DEF r
    <3>3. drained /\ run.epoch = Len(Plan)
      BY <1>3, <3>1, <3>2 DEF EpochContinues
    <3> QED  BY <3>1, <3>3, Depth2Success
  <2>5. CASE FailureSettles \/ RecoverySettles \/ LossSettles
    <3>1. holder \in Graphs
      BY <2>5, HolderOfStep DEF FailureSettles, RecoverySettles, LossSettles
    <3> QED
      BY <1>3, <1>4, <2>5, <3>1 DEF FailureSettles, RecoverySettles, LossSettles, DestroyDevice
  <2> QED  BY <1>7, <2>1, <2>2, <2>3, <2>4, <2>5 DEF Submission
<1>8. CASE Device \/ DeviceIsLost
  BY <1>3, <1>8 DEF Device, DeviceExecutes, FenceSettles, DeviceIsLost
<1>9. CASE UNCHANGED vars
  BY <1>3, <1>9 DEF vars
<1> QED  BY <1>5, <1>6, <1>7, <1>8, <1>9 DEF Next

THEOREM SuccessIsComplete ==
  ASSUME FencesSuffice
  PROVE  Spec => SuccessMeansComplete
<1>1. Inv /\ DrainInv /\ [Next]_vars => [Success]_vars
  BY StepSucceeds
<1>2. Spec => []( Inv /\ DrainInv)
  BY SchedulerIsSafe
<1>3. SuccessMeansComplete <=> [][Success]_vars
  BY DEF SuccessMeansComplete, Success
<1> QED  BY <1>1, <1>2, <1>3, PTL DEF Spec

-----------------------------------------------------------------------------
(* EpochPlan: the epochs of any phases tile their command buffers, and are  *)
(* what the scheduler assumes of a graph.                                   *)

\* A set of numbers that is not empty has a least one.
LEMMA LeastNumber ==
  ASSUME NEW S, S \subseteq Nat, S # {}
  PROVE  \E n \in S : \A m \in S : n <= m
<1> DEFINE Less == {p \in Nat \X Nat : p[1] < p[2]}
<1>1. IsWellFoundedOn(Less, Nat)
  BY NatLessThanWellFounded DEF OpToRel
<1>2. \E n \in S : \A m \in S : <<m, n>> \notin Less
  BY <1>1, WFMin
<1>3. \A n, m \in Nat : <<m, n>> \notin Less => n <= m
  OBVIOUS
<1>4. QED  BY <1>2, <1>3

\* The phases of a graph: none is empty.
PhaseCounts == Seq(Nat \ {0})

\* The plan after each phase is the recursion's: the plan before it, and the phase.
LEMMA PlansAreSteps ==
  ASSUME NEW counts \in PhaseCounts
  PROVE  /\ PlansAfter(counts)[0] = NothingPlanned
         /\ \A p \in 1 .. Len(counts) :
              PlansAfter(counts)[p] = Planned(PlansAfter(counts)[p - 1], p, counts[p])
<1> DEFINE N == Len(counts)
           Grown(f, p) == IF p = 0 THEN NothingPlanned ELSE Planned(f[p - 1], p, counts[p])
           Plans(f, k) == f = [p \in 0 .. k |-> Grown(f, p)]
<1>1. N \in Nat
  BY DEF PhaseCounts
<1>2. Plans([p \in 0 .. 0 |-> NothingPlanned], 0)
  OBVIOUS
<1>3. ASSUME NEW k \in 0 .. N - 1, NEW f, Plans(f, k)
      PROVE  \E h : Plans(h, k + 1)
  <2> DEFINE last == Planned(f[k], k + 1, counts[k + 1])
             h == [p \in 0 .. k + 1 |-> IF p = k + 1 THEN last ELSE f[p]]
  <2>1. \A p \in 0 .. k : f[p] = Grown(f, p)
    BY <1>3
  <2> HIDE DEF last
  <2>2. \A p \in 0 .. k + 1 : h[p] = Grown(h, p)
    <3>1. TAKE p \in 0 .. k + 1
    <3>2. CASE p = k + 1
      <4>1. h[p] = last /\ h[p - 1] = f[k] /\ p # 0
        BY <1>1, <3>2
      <4>2. QED  BY <3>2, <4>1 DEF last
    <3>3. CASE p = 0
      BY <1>1, <2>1, <3>3
    <3>4. CASE p \in 1 .. k
      <4>1. h[p] = f[p] /\ h[p - 1] = f[p - 1] /\ p # 0 /\ p \in 0 .. k
        BY <1>1, <3>4
      <4> HIDE DEF h
      <4>2. QED  BY <2>1, <4>1
    <3>5. QED  BY <1>1, <3>2, <3>3, <3>4
  <2> DEFINE g == [p \in 0 .. k + 1 |-> Grown(h, p)]
  <2>3. h = g
    BY <2>2
  <2>4. QED  BY <2>3
<1> HIDE DEF Plans
<1>4. \A k \in 0 .. N : \E f : Plans(f, k)
  <2> DEFINE Bad == {k \in 0 .. N : ~\E f : Plans(f, k)}
  <2>1. SUFFICES ASSUME Bad # {} PROVE FALSE
    OBVIOUS
  <2>2. Bad \subseteq Nat
    BY <1>1
  <2>3. PICK k \in Bad : \A m \in Bad : k <= m
    BY <2>1, <2>2, LeastNumber
  <2>4. 0 \notin Bad
    BY <1>2
  <2>5. k - 1 \in 0 .. N - 1 /\ k - 1 + 1 = k
    BY <1>1, <2>3, <2>4
  <2>6. PICK f : Plans(f, k - 1)
    BY <1>1, <2>3, <2>5
  <2>7. QED  BY <1>3, <2>3, <2>5, <2>6
<1>5. PICK f : Plans(f, N)
  <2>1. N \in 0 .. N
    BY <1>1
  <2>2. QED  BY <1>4, <2>1
<1>6. PlansAfter(counts) = [p \in 0 .. N |-> Grown(PlansAfter(counts), p)]
  <2>1. \E g : g = [p \in 0 .. N |-> IF p = 0 THEN NothingPlanned ELSE Planned(g[p - 1], p, counts[p])]
    BY <1>5 DEF Plans
  <2>2. QED  BY <2>1 DEF PlansAfter
<1>7. QED
  <2> HIDE DEF N
  <2>1. \A p \in 0 .. N : PlansAfter(counts)[p] = Grown(PlansAfter(counts), p)
    BY <1>6
  <2>2. \A p \in 1 .. N : p \in 0 .. N /\ p # 0
    BY <1>1
  <2>3. 0 \in 0 .. N
    BY <1>1
  <2>4. QED  BY <2>1, <2>2, <2>3 DEF N

\* An epoch of at most four buffers of the phase that begins with buffer first: only the last one is shorter.
FitsPhase(epoch, first, count) ==
  /\ first <= epoch.first /\ epoch.first <= epoch.last
  /\ epoch.last < epoch.first + 4 /\ epoch.last <= first + count - 1
  /\ epoch.last = epoch.first + 3 \/ epoch.last = first + count - 1

\* Epochs follow one another from buffer first to the one before next, and leave none out.
Follow(epochs, first, next) ==
  /\ epochs # <<>> /\ epochs[1].first = first /\ epochs[Len(epochs)].last + 1 = next
  /\ \A i \in 1 .. Len(epochs) - 1 : epochs[i + 1].first = epochs[i].last + 1
  /\ \A i \in 1 .. Len(epochs) :
       first <= epochs[i].first /\ epochs[i].first <= epochs[i].last /\ epochs[i].last < next
  /\ \A b \in first .. next - 1 :
       \E i \in 1 .. Len(epochs) : epochs[i].first <= b /\ b <= epochs[i].last

\* The epochs of one phase.
LEMMA PhaseIsTiled ==
  ASSUME NEW phase \in Nat, NEW first \in Nat \ {0}, NEW count \in Nat \ {0}
  PROVE  LET e == PhaseEpochs(phase, first, count)
         IN  /\ e \in Seq(Epoch) /\ Follow(e, first, first + count)
             /\ \A k \in 1 .. Len(e) : e[k].phase = phase /\ FitsPhase(e[k], first, count)
<1> DEFINE n == (count + 3) \div 4
           E(k) == [phase |-> phase, first |-> first + 4 * (k - 1),
                    last |-> Smaller(first + 4 * k - 1, first + count - 1)]
           e == PhaseEpochs(phase, first, count)
<1>1. n \in Nat \ {0} /\ 4 * n <= count + 3 /\ count <= 4 * n
  OBVIOUS
<1>2. e = [k \in 1 .. n |-> E(k)]
  BY DEF PhaseEpochs
<1> HIDE DEF n, e
<1>3. ASSUME NEW k \in 1 .. n
      PROVE  /\ e[k] = E(k) /\ e[k] \in Epoch /\ e[k].phase = phase
             /\ e[k].first = first + 4 * (k - 1)
             /\ e[k].last = IF k < n THEN first + 4 * k - 1 ELSE first + count - 1
  <2>1. k \in Nat \ {0} /\ e[k] = E(k)
    BY <1>1, <1>2
  <2> DEFINE f == first + 4 * (k - 1)
             l == Smaller(first + 4 * k - 1, first + count - 1)
  <2>2. f \in Nat \ {0} /\ l \in Nat \ {0}
    BY <2>1 DEF Smaller
  <2>3. l = IF k < n THEN first + 4 * k - 1 ELSE first + count - 1
    BY <1>1, <2>1 DEF Smaller
  <2>4. E(k) = [phase |-> phase, first |-> f, last |-> l]
    OBVIOUS
  <2> HIDE DEF f, l, E
  <2>5. e[k] \in Epoch /\ e[k].phase = phase /\ e[k].first = f /\ e[k].last = l
    BY <2>1, <2>2, <2>4 DEF Epoch
  <2>6. QED  BY <2>1, <2>3, <2>5 DEF f
<1> HIDE DEF E
<1>4. e \in Seq(Epoch) /\ Len(e) = n
  <2>1. e \in [1 .. n -> Epoch]
    BY <1>2, <1>3
  <2>2. QED  BY <1>1, <2>1
<1>5. ASSUME NEW k \in 1 .. n
      PROVE  e[k].phase = phase /\ FitsPhase(e[k], first, count)
  <2>1. /\ e[k].phase = phase /\ e[k].first = first + 4 * (k - 1)
        /\ e[k].last = IF k < n THEN first + 4 * k - 1 ELSE first + count - 1
    BY <1>3
  <2> DEFINE f == e[k].first
             l == e[k].last
  <2>2. f = first + 4 * (k - 1) /\ l = IF k < n THEN first + 4 * k - 1 ELSE first + count - 1
    BY <2>1
  <2> HIDE DEF f, l
  <2>3. /\ first <= f /\ f <= l /\ l < f + 4 /\ l <= first + count - 1
        /\ l = f + 3 \/ l = first + count - 1
    BY <1>1, <2>2
  <2>4. QED  BY <2>1, <2>3 DEF FitsPhase, f, l
<1>6. Follow(e, first, first + count)
  <2>1. e # <<>> /\ e[1].first = first /\ e[n].last + 1 = first + count
    <3>1. 1 \in 1 .. n /\ n \in 1 .. n
      BY <1>1
    <3>2. e[1].first = first + 4 * (1 - 1) /\ e[n].last = first + count - 1
      BY <1>3, <3>1
    <3>3. e # <<>>
      BY <1>1, <1>4
    <3>4. QED  BY <3>2, <3>3
  <2>2. ASSUME NEW i \in 1 .. n - 1
        PROVE  e[i + 1].first = e[i].last + 1
    <3>1. i \in 1 .. n /\ i + 1 \in 1 .. n /\ i < n
      BY <1>1
    <3>2. e[i + 1].first = first + 4 * (i + 1 - 1) /\ e[i].last = first + 4 * i - 1
      BY <1>3, <3>1
    <3>3. QED  BY <1>1, <3>2
  <2>3. ASSUME NEW b \in first .. first + count - 1
        PROVE  \E i \in 1 .. n : e[i].first <= b /\ b <= e[i].last
    <3> DEFINE i == (b - first) \div 4 + 1
    <3>0. b \in Nat /\ b - first \in Nat /\ b - first < count
      OBVIOUS
    <3>1. i \in Nat \ {0} /\ 4 * (i - 1) <= b - first /\ b - first < 4 * i
      BY <3>0
    <3> HIDE DEF i
    <3>2. i \in 1 .. n
      BY <1>1, <3>0, <3>1
    <3>3. /\ e[i].first = first + 4 * (i - 1)
          /\ e[i].last = IF i < n THEN first + 4 * i - 1 ELSE first + count - 1
      BY <1>3, <3>2
    <3> DEFINE f == e[i].first
               l == e[i].last
    <3>4. f = first + 4 * (i - 1) /\ l = IF i < n THEN first + 4 * i - 1 ELSE first + count - 1
      BY <3>3
    <3> HIDE DEF f, l
    <3>5. f <= b /\ b <= l
      BY <1>1, <3>0, <3>1, <3>4
    <3>6. QED  BY <3>2, <3>5 DEF f, l
  <2>4. ASSUME NEW i \in 1 .. n
        PROVE  first <= e[i].first /\ e[i].first <= e[i].last /\ e[i].last < first + count
    <3>1. /\ FitsPhase(e[i], first, count) /\ e[i] \in Epoch
      BY <1>3, <1>5
    <3>2. e[i].last \in Nat
      BY <3>1 DEF Epoch
    <3>3. QED  BY <3>1, <3>2 DEF FitsPhase
  <2>5. QED  BY <1>4, <2>1, <2>2, <2>3, <2>4 DEF Follow
<1>7. QED  BY <1>4, <1>5, <1>6 DEF e

\* What is planned after p phases.
Tiled(counts, p) ==
  LET plan == PlansAfter(counts)[p] IN
  /\ plan.next \in Nat \ {0} /\ plan.epochs \in Seq(Epoch)
  /\ IF p = 0 THEN plan.epochs = <<>> /\ plan.next = 1 ELSE Follow(plan.epochs, 1, plan.next)
  /\ \A i \in 1 .. Len(plan.epochs) :
       LET epoch == plan.epochs[i] IN
       /\ epoch.phase \in 1 .. p
       /\ FitsPhase(epoch, PlansAfter(counts)[epoch.phase - 1].next, counts[epoch.phase])

\* Epochs that follow others.
LEMMA FollowOn ==
  ASSUME NEW e \in Seq(Epoch), NEW t \in Seq(Epoch), NEW m \in Nat \ {0}, NEW n \in Nat \ {0},
         Follow(e, 1, m), Follow(t, m, n)
  PROVE  Follow(e \o t, 1, n)
<1> DEFINE k == Len(e)
           l == Len(t)
           u == e \o t
<1>1. /\ k \in Nat \ {0} /\ l \in Nat \ {0}
  BY DEF Follow
<1>2. /\ Len(u) = k + l /\ u \in Seq(Epoch)
      /\ \A i \in 1 .. k : u[i] = e[i]
      /\ \A i \in 1 .. l : u[k + i] = t[i]
  OBVIOUS
<1> HIDE DEF u, k, l
<1>3. /\ e[1].first = 1 /\ e[k].last + 1 = m /\ t[1].first = m /\ t[l].last + 1 = n
      /\ \A i \in 1 .. k - 1 : e[i + 1].first = e[i].last + 1
      /\ \A i \in 1 .. l - 1 : t[i + 1].first = t[i].last + 1
      /\ \A i \in 1 .. k : 1 <= e[i].first /\ e[i].first <= e[i].last /\ e[i].last < m
      /\ \A i \in 1 .. l : m <= t[i].first /\ t[i].first <= t[i].last /\ t[i].last < n
      /\ \A b \in 1 .. m - 1 : \E i \in 1 .. k : e[i].first <= b /\ b <= e[i].last
      /\ \A b \in m .. n - 1 : \E i \in 1 .. l : t[i].first <= b /\ b <= t[i].last
  BY DEF Follow, k, l
<1>4. u # <<>> /\ u[1].first = 1 /\ u[k + l].last + 1 = n
  <2>1. 1 \in 1 .. k /\ l \in 1 .. l
    BY <1>1
  <2>2. u[1] = e[1] /\ u[k + l] = t[l]
    BY <1>2, <2>1
  <2>3. u # <<>>
    BY <1>1, <1>2
  <2>4. QED  BY <1>3, <2>2, <2>3
<1>5. ASSUME NEW i \in 1 .. k + l - 1
      PROVE  u[i + 1].first = u[i].last + 1
  <2>1. CASE i \in 1 .. k - 1
    <3>1. u[i] = e[i] /\ u[i + 1] = e[i + 1]
      BY <1>1, <1>2, <2>1
    <3>2. QED  BY <1>3, <2>1, <3>1
  <2>2. CASE i = k
    <3>1. u[i] = e[k] /\ u[i + 1] = t[1]
      BY <1>1, <1>2, <2>2
    <3>2. QED  BY <1>3, <3>1
  <2>3. CASE i \in k + 1 .. k + l - 1
    <3>1. i - k \in 1 .. l - 1 /\ i - k \in 1 .. l /\ i - k + 1 \in 1 .. l
          /\ k + (i - k) = i /\ k + (i - k + 1) = i + 1
      BY <1>1, <2>3
    <3> DEFINE j == i - k
    <3> HIDE DEF j
    <3>2. j \in 1 .. l - 1 /\ j \in 1 .. l /\ j + 1 \in 1 .. l /\ k + j = i /\ k + (j + 1) = i + 1
      BY <3>1 DEF j
    <3>3. u[i] = t[j] /\ u[i + 1] = t[j + 1]
      BY <1>2, <3>2
    <3>4. QED  BY <1>3, <3>2, <3>3
  <2>4. QED  BY <1>1, <2>1, <2>2, <2>3
<1>6. ASSUME NEW b \in 1 .. n - 1
      PROVE  \E i \in 1 .. k + l : u[i].first <= b /\ b <= u[i].last
  <2>1. CASE b \in 1 .. m - 1
    <3>1. PICK i \in 1 .. k : e[i].first <= b /\ b <= e[i].last
      BY <1>3, <2>1
    <3>2. i \in 1 .. k + l /\ u[i] = e[i]
      BY <1>1, <1>2
    <3>3. QED  BY <3>1, <3>2
  <2>2. CASE b \in m .. n - 1
    <3>1. PICK i \in 1 .. l : t[i].first <= b /\ b <= t[i].last
      BY <1>3, <2>2
    <3>2. k + i \in 1 .. k + l /\ u[k + i] = t[i]
      BY <1>1, <1>2
    <3>3. QED  BY <3>1, <3>2
  <2>3. b \in 1 .. m - 1 \/ b \in m .. n - 1
    OBVIOUS
  <2>4. QED  BY <2>1, <2>2, <2>3
<1>7. ASSUME NEW i \in 1 .. k + l
      PROVE  1 <= u[i].first /\ u[i].first <= u[i].last /\ u[i].last < n
  <2>1. \A x \in Epoch : x.first \in Nat /\ x.last \in Nat
    BY DEF Epoch
  <2>2. (\A j \in 1 .. k : e[j] \in Epoch) /\ (\A j \in 1 .. l : t[j] \in Epoch)
    BY DEF k, l
  <2>3. m < n
    <3> DEFINE a == t[1].first
               b == t[1].last
    <3>1. 1 \in 1 .. l
      BY <1>1
    <3>2. m <= a /\ a <= b /\ b < n
      BY <1>3, <3>1
    <3>3. a \in Nat /\ b \in Nat
      BY <2>1, <2>2, <3>1
    <3> HIDE DEF a, b
    <3>4. QED  BY <3>2, <3>3
  <2>4. CASE i \in 1 .. k
    <3>1. u[i] = e[i] /\ e[i].first \in Nat /\ e[i].last \in Nat
      BY <1>2, <2>1, <2>2, <2>4
    <3>2. 1 <= e[i].first /\ e[i].first <= e[i].last /\ e[i].last < m
      BY <1>3, <2>4
    <3>3. QED  BY <2>3, <3>1, <3>2
  <2>5. CASE i \notin 1 .. k
    <3> DEFINE j == i - k
    <3>1. j \in 1 .. l /\ i = k + j
      BY <1>1, <2>5
    <3> HIDE DEF j
    <3>2. u[i] = t[j] /\ t[j].first \in Nat
      BY <1>2, <2>1, <2>2, <3>1
    <3>3. m <= t[j].first /\ t[j].first <= t[j].last /\ t[j].last < n
      BY <1>3, <3>1
    <3>4. QED  BY <3>2, <3>3
  <2>6. QED  BY <2>4, <2>5
<1>8. Follow(u, 1, n)
  <2>1. \A i \in 1 .. Len(u) - 1 : u[i + 1].first = u[i].last + 1
    <3>1. 1 .. Len(u) - 1 = 1 .. k + l - 1
      BY <1>1, <1>2
    <3>2. QED  BY <1>5, <3>1, Zenon
  <2>2. \A b \in 1 .. n - 1 : \E i \in 1 .. Len(u) : u[i].first <= b /\ b <= u[i].last
    <3>1. 1 .. Len(u) = 1 .. k + l
      BY <1>2
    <3>2. QED  BY <1>6, <3>1, Zenon
  <2>3. u[Len(u)].last + 1 = n
    BY <1>2, <1>4
  <2>4. \A i \in 1 .. Len(u) : 1 <= u[i].first /\ u[i].first <= u[i].last /\ u[i].last < n
    BY <1>2, <1>7
  <2>5. QED  BY <1>4, <2>1, <2>2, <2>3, <2>4 DEF Follow
<1>9. QED  BY <1>8 DEF u

\* Each phase's epochs follow on those before it.
LEMMA PlansAreTiled ==
  ASSUME NEW counts \in PhaseCounts
  PROVE  \A p \in 0 .. Len(counts) : Tiled(counts, p)
<1> DEFINE N == Len(counts)
           P == PlansAfter(counts)
           Bad == {p \in 0 .. N : ~Tiled(counts, p)}
<1>1. /\ N \in Nat /\ P[0] = NothingPlanned
      /\ \A p \in 1 .. N : P[p] = Planned(P[p - 1], p, counts[p]) /\ counts[p] \in Nat \ {0}
  BY PlansAreSteps DEF PhaseCounts
<1> HIDE DEF P, N
<1>2. Tiled(counts, 0)
  <2>1. P[0].epochs = <<>> /\ P[0].next = 1
    BY <1>1 DEF NothingPlanned
  <2>2. <<>> \in Seq(Epoch) /\ 1 .. Len(<<>>) = {}
    OBVIOUS
  <2>3. QED  BY <2>1, <2>2 DEF Tiled, P
<1>3. ASSUME NEW p \in 1 .. N, Tiled(counts, p - 1)
      PROVE  Tiled(counts, p)
  <2> DEFINE e == P[p - 1].epochs
             m == P[p - 1].next
             c == counts[p]
             t == PhaseEpochs(p, m, c)
  <2>1. p \in Nat \ {0} /\ c \in Nat \ {0} /\ P[p].epochs = e \o t /\ P[p].next = m + c
    <3>1. P[p] = Planned(P[p - 1], p, counts[p])
      BY <1>1
    <3> HIDE DEF t
    <3>2. P[p] = [epochs |-> e \o t, next |-> m + c]
      BY <3>1 DEF Planned, t
    <3>3. P[p].epochs = e \o t /\ P[p].next = m + c
      BY <3>2
    <3>4. QED  BY <1>1, <3>3
  <2>2. /\ m \in Nat \ {0} /\ e \in Seq(Epoch)
        /\ IF p = 1 THEN e = <<>> /\ m = 1 ELSE Follow(e, 1, m)
        /\ \A i \in 1 .. Len(e) :
             /\ e[i].phase \in 1 .. p - 1
             /\ FitsPhase(e[i], P[e[i].phase - 1].next, counts[e[i].phase])
    BY <1>3, <2>1 DEF Tiled, P
  <2> HIDE DEF e, m, c
  <2>3. /\ t \in Seq(Epoch) /\ Follow(t, m, m + c)
        /\ \A k \in 1 .. Len(t) : t[k].phase = p /\ FitsPhase(t[k], m, c)
    BY <2>1, <2>2, PhaseIsTiled
  <2> HIDE DEF t
  <2> DEFINE u == e \o t
  <2>4. u \in Seq(Epoch) /\ m + c \in Nat \ {0}
    BY <2>1, <2>2, <2>3
  <2>5. Follow(u, 1, m + c)
    <3>1. CASE p = 1
      <4>1. <<>> \o t = t
        BY <2>3
      <4>2. QED  BY <2>2, <2>3, <3>1, <4>1
    <3>2. CASE p # 1
      BY <2>2, <2>3, <2>4, <3>2, FollowOn
    <3>3. QED  BY <3>1, <3>2
  <2>6. ASSUME NEW i \in 1 .. Len(u)
        PROVE  u[i].phase \in 1 .. p /\ FitsPhase(u[i], P[u[i].phase - 1].next, counts[u[i].phase])
    <3>1. CASE i \in 1 .. Len(e)
      <4>1. u[i] = e[i]
        BY <2>2, <2>3, <3>1
      <4>2. e[i].phase \in 1 .. p - 1 /\ FitsPhase(e[i], P[e[i].phase - 1].next, counts[e[i].phase])
        BY <2>2, <3>1
      <4>3. 1 .. p - 1 \subseteq 1 .. p
        BY <2>1
      <4>4. QED  BY <4>1, <4>2, <4>3
    <3>2. CASE i \notin 1 .. Len(e)
      <4> DEFINE j == i - Len(e)
      <4>1. j \in 1 .. Len(t) /\ u[i] = t[j]
        BY <2>2, <2>3, <3>2
      <4> HIDE DEF j, u
      <4>2. u[i].phase = p /\ FitsPhase(u[i], m, c)
        BY <2>3, <4>1
      <4>3. p \in 1 .. p
        BY <2>1
      <4>4. QED  BY <4>2, <4>3 DEF m, c
    <3>3. QED  BY <3>1, <3>2
  <2> HIDE DEF u
  <2>7. P[p].epochs = u /\ P[p].next = m + c /\ p # 0
    BY <2>1 DEF u
  <2>8. QED  BY <2>4, <2>5, <2>6, <2>7 DEF Tiled, P
<1>4. SUFFICES ASSUME Bad # {} PROVE FALSE
  BY DEF N
<1>5. PICK p \in Bad : \A q \in Bad : p <= q
  <2>1. Bad \subseteq Nat
    BY <1>1
  <2>2. QED  BY <1>4, <2>1, LeastNumber
<1>6. p \in 1 .. N /\ p - 1 \in 0 .. N /\ p - 1 \notin Bad
  BY <1>1, <1>2, <1>5
<1>7. QED  BY <1>3, <1>5, <1>6

\* A plan of EpochPlan is what GpuScheduler assumes of a graph (SchedulerConstants).
THEOREM PlannedIsPlan ==
  ASSUME NEW counts \in PhaseCounts, counts # <<>>
  PROVE  Epochs(counts) \in Seq(Epoch) /\ IsPlan(Epochs(counts))
<1> DEFINE e == Epochs(counts)
           N == Len(counts)
<1>1. N \in Nat \ {0}
  BY DEF PhaseCounts
<1>2. Tiled(counts, N)
  BY <1>1, PlansAreTiled
<1>3. e \in Seq(Epoch) /\ Follow(e, 1, PlansAfter(counts)[N].next)
  BY <1>1, <1>2 DEF Tiled, Epochs, WholePlan
<1>4. \A i \in 1 .. Len(e) : e[i].first <= e[i].last /\ e[i].last < e[i].first + 4
  BY <1>2 DEF Tiled, FitsPhase, Epochs, WholePlan
<1> HIDE DEF e, N
<1>5. ASSUME NEW i \in 1 .. Len(e), i < Len(e)
      PROVE  e[i + 1].first = e[i].last + 1
  <2>1. i \in 1 .. Len(e) - 1
    BY <1>3, <1>5
  <2>2. QED  BY <1>3, <2>1 DEF Follow
<1>6. IsPlan(e)
  BY <1>3, <1>4, <1>5 DEF IsPlan, Follow
<1>7. QED  BY <1>3, <1>6 DEF e

\* A phase starts after the buffers of those before it, which is where its epochs start.
LEMMA PhasesStartInTurn ==
  ASSUME phases \in PhaseCounts
  PROVE  \A p \in 1 .. Len(phases) + 1 : PhaseStart(p) = PlansAfter(phases)[p - 1].next
<1> DEFINE N == Len(phases)
           P == PlansAfter(phases)
           Before(p) == UNION {{q} \X (1 .. phases[q]) : q \in 1 .. p - 1}
           InTurn(p) == IsFiniteSet(Before(p)) /\ Cardinality(Before(p)) + 1 = P[p - 1].next
           Bad == {p \in 1 .. N + 1 : ~InTurn(p)}
<1>1. /\ N \in Nat /\ P[0] = NothingPlanned
      /\ \A p \in 1 .. N : P[p] = Planned(P[p - 1], p, phases[p]) /\ phases[p] \in Nat \ {0}
  BY PlansAreSteps DEF PhaseCounts
<1> HIDE DEF P, N
<1>2. InTurn(1)
  <2>1. Before(1) = {}
    OBVIOUS
  <2> HIDE DEF Before
  <2>2. IsFiniteSet(Before(1)) /\ Cardinality(Before(1)) = 0
    BY <2>1, FS_EmptySet
  <2>3. P[1 - 1].next = 1
    BY <1>1 DEF NothingPlanned
  <2>4. QED  BY <2>2, <2>3
<1>3. ASSUME NEW p \in 1 .. N, InTurn(p)
      PROVE  InTurn(p + 1)
  <2> DEFINE c == phases[p]
             A == Before(p)
             B == {p} \X (1 .. c)
  <2>1. p \in Nat /\ c \in Nat /\ P[p].next = P[p - 1].next + c
    <3>1. P[p] = Planned(P[p - 1], p, c) /\ p \in Nat /\ c \in Nat
      BY <1>1
    <3> HIDE DEF c, A, B
    <3>2. P[p].next = P[p - 1].next + c
      BY <3>1 DEF Planned
    <3>3. QED  BY <3>1, <3>2
  <2>2. Before(p + 1) = A \cup B
    <3>1. 1 .. p + 1 - 1 = (1 .. p - 1) \cup {p}
      BY <2>1
    <3> DEFINE T(q) == {q} \X (1 .. phases[q])
    <3>2. T(p) = B /\ Before(p + 1) = UNION {T(q) : q \in 1 .. p + 1 - 1}
          /\ A = UNION {T(q) : q \in 1 .. p - 1}
      OBVIOUS
    <3> HIDE DEF T, A, B, Before
    <3>3. QED  BY <3>1, <3>2
  <2>3. A \cap B = {}
    <3>1. p \notin 1 .. p - 1
      BY <2>1
    <3>2. QED  BY <3>1
  <2> HIDE DEF Before, c
  <2>4. IsFiniteSet(B) /\ Cardinality(B) = c
    <3>1. IsFiniteSet({p}) /\ Cardinality({p}) = 1
      BY FS_Singleton
    <3>2. IsFiniteSet(1 .. c) /\ Cardinality(1 .. c) = c
      BY <2>1, FS_Interval
    <3>3. IsFiniteSet(B) /\ Cardinality(B) = Cardinality({p}) * Cardinality(1 .. c)
      BY <3>1, <3>2, FS_Product
    <3>4. QED  BY <2>1, <3>1, <3>2, <3>3
  <2> HIDE DEF A, B
  <2>5. IsFiniteSet(A) /\ Cardinality(A) + 1 = P[p - 1].next /\ Cardinality(A) \in Nat
    BY <1>3, FS_CardinalityType DEF A
  <2>6. IsFiniteSet(A \cup B) /\ Cardinality(A \cup B) = Cardinality(A) + c
    <3>1. /\ IsFiniteSet(A \cup B)
          /\ Cardinality(A \cup B) = Cardinality(A) + Cardinality(B) - Cardinality(A \cap B)
      BY <2>4, <2>5, FS_Union
    <3>2. Cardinality(A \cap B) = 0
      BY <2>3, FS_EmptySet
    <3>3. QED  BY <2>1, <2>4, <2>5, <3>1, <3>2
  <2>7. Cardinality(A \cup B) + 1 = P[p].next /\ p + 1 - 1 = p
    BY <2>1, <2>5, <2>6
  <2>8. QED  BY <2>2, <2>6, <2>7
<1> HIDE DEF InTurn
<1>4. \A p \in 1 .. N + 1 : InTurn(p)
  <2>1. SUFFICES ASSUME Bad # {} PROVE FALSE
    OBVIOUS
  <2>2. PICK p \in Bad : \A q \in Bad : p <= q
    <3>1. Bad \subseteq Nat
      BY <1>1
    <3>2. QED  BY <2>1, <3>1, LeastNumber
  <2>3. p - 1 \in 1 .. N /\ p - 1 \notin Bad /\ p - 1 + 1 = p
    BY <1>1, <1>2, <2>2
  <2>4. p - 1 \in 1 .. N + 1
    BY <1>1, <2>3
  <2>5. QED  BY <1>3, <2>2, <2>3, <2>4
<1>5. QED  BY <1>4 DEF InTurn, PhaseStart, P, N

\* "Four-command, phase-aligned epochs" (planAceDepth2Epoch4CompletionEpochs): for any phases of any
\* lengths, every command buffer is in one epoch, epochs follow one another, and each ends with four
\* buffers or with its phase.
THEOREM EpochsTile == phases \in PhaseCounts => EpochsTilePhases
<1> SUFFICES ASSUME phases \in PhaseCounts PROVE EpochsTilePhases
  OBVIOUS
<1> DEFINE e == Epochs(phases)
           N == Len(phases)
           next == PlansAfter(phases)[N].next
<1>1. N \in Nat /\ N \in 0 .. N /\ \A p \in 1 .. N : phases[p] \in Nat \ {0}
  BY DEF PhaseCounts
<1>2. Tiled(phases, N)
  BY <1>1, PlansAreTiled
<1>3. /\ next \in Nat \ {0} /\ e \in Seq(Epoch) /\ BufferCount(phases) = next - 1
      /\ IF N = 0 THEN e = <<>> /\ next = 1 ELSE Follow(e, 1, next)
      /\ \A i \in 1 .. Len(e) :
           /\ e[i].phase \in 1 .. N
           /\ FitsPhase(e[i], PlansAfter(phases)[e[i].phase - 1].next, phases[e[i].phase])
  BY <1>2 DEF Tiled, Epochs, WholePlan, BufferCount
<1> HIDE DEF e, N, next
<1>4. ASSUME NEW i \in 1 .. Len(e)
      PROVE  /\ EpochBuffers(e[i]) # {} /\ EpochBuffers(e[i]) \subseteq 1 .. next - 1
             /\ i < Len(e) => e[i + 1].first = e[i].last + 1
             /\ EpochBuffers(e[i]) \subseteq PhaseBuffers(e[i].phase)
             /\ Cardinality(EpochBuffers(e[i])) <= 4
             /\ Cardinality(EpochBuffers(e[i])) < 4 => e[i].last + 1 \notin PhaseBuffers(e[i].phase)
  <2> DEFINE f == e[i].first
             l == e[i].last
             q == e[i].phase
             s == PlansAfter(phases)[q - 1].next
             c == phases[q]
  <2>1. e[i] \in Epoch /\ f \in Nat \ {0} /\ l \in Nat \ {0} /\ q \in 1 .. N
    <3>1. e[i] \in Epoch /\ q \in 1 .. N
      BY <1>3
    <3>2. QED  BY <3>1 DEF Epoch
  <2>2. s \in Nat \ {0} /\ c \in Nat \ {0} /\ PhaseStart(q) = s
    <3>1. q - 1 \in 0 .. Len(phases) /\ q \in 1 .. Len(phases) + 1
      BY <1>1, <2>1 DEF N
    <3>2. Tiled(phases, q - 1) /\ PhaseStart(q) = s
      BY <3>1, PlansAreTiled, PhasesStartInTurn
    <3>3. QED  BY <1>1, <2>1, <3>2 DEF Tiled
  <2>3. FitsPhase(e[i], s, c)
    BY <1>3
  <2>4. N # 0 /\ Follow(e, 1, next)
    BY <1>1, <1>3, <2>1
  <2>5. 1 <= f /\ f <= l /\ l < next
    BY <2>4 DEF Follow
  <2>6. i < Len(e) => e[i + 1].first = l + 1
    <3>1. i < Len(e) => i \in 1 .. Len(e) - 1
      BY <1>3
    <3>2. QED  BY <2>4, <3>1 DEF Follow
  <2>7. /\ s <= f /\ f <= l /\ l < f + 4 /\ l <= s + c - 1
        /\ l = f + 3 \/ l = s + c - 1
    BY <2>3 DEF FitsPhase
  <2>8. EpochBuffers(e[i]) = f .. l /\ PhaseBuffers(q) = s .. s + c - 1
    BY <2>2 DEF EpochBuffers, PhaseBuffers
  <2> HIDE DEF f, l, s, c, q
  <2>9. f .. l # {} /\ f .. l \subseteq 1 .. next - 1 /\ f .. l \subseteq s .. s + c - 1
    <3>1. f \in f .. l /\ f .. l \subseteq s .. s + c - 1
      BY <2>1, <2>2, <2>7
    <3>2. f .. l \subseteq 1 .. next - 1
      BY <1>3, <2>1, <2>5
    <3>3. QED  BY <3>1, <3>2
  <2>10. Cardinality(f .. l) = l - f + 1
    <3>1. f \in Int /\ l \in Int /\ ~(f > l)
      BY <2>1, <2>5
    <3>2. QED  BY <3>1, FS_Interval
  <2>11. Cardinality(f .. l) <= 4 /\ (Cardinality(f .. l) < 4 => l + 1 \notin s .. s + c - 1)
    BY <2>1, <2>2, <2>7, <2>10
  <2>12. QED  BY <2>6, <2>8, <2>9, <2>11 DEF l, q
<1>5. UNION {EpochBuffers(e[i]) : i \in 1 .. Len(e)} = 1 .. BufferCount(phases)
  <2>1. ASSUME NEW b \in 1 .. next - 1
        PROVE  \E i \in 1 .. Len(e) : b \in EpochBuffers(e[i])
    <3>1. Follow(e, 1, next)
      BY <1>1, <1>3
    <3>2. PICK i \in 1 .. Len(e) : e[i].first <= b /\ b <= e[i].last
      BY <3>1 DEF Follow
    <3>3. e[i] \in Epoch /\ b \in Nat
      BY <1>3
    <3>4. b \in e[i].first .. e[i].last
      BY <3>2, <3>3 DEF Epoch
    <3>5. QED  BY <3>4 DEF EpochBuffers
  <2>2. \A i \in 1 .. Len(e) : EpochBuffers(e[i]) \subseteq 1 .. next - 1
    BY <1>4
  <2>3. UNION {EpochBuffers(e[i]) : i \in 1 .. Len(e)} = 1 .. next - 1
    BY <2>1, <2>2
  <2>4. QED  BY <1>3, <2>3
<1>6. \A i \in 1 .. Len(e) :
        /\ EpochBuffers(e[i]) # {}
        /\ i < Len(e) => e[i + 1].first = e[i].last + 1
        /\ EpochBuffers(e[i]) \subseteq PhaseBuffers(e[i].phase)
        /\ Cardinality(EpochBuffers(e[i])) <= 4
        /\ Cardinality(EpochBuffers(e[i])) < 4 => e[i].last + 1 \notin PhaseBuffers(e[i].phase)
  BY <1>4
<1>7. EpochsTilePhases <=>
        /\ UNION {EpochBuffers(e[i]) : i \in 1 .. Len(e)} = 1 .. BufferCount(phases)
        /\ \A i \in 1 .. Len(e) :
             /\ EpochBuffers(e[i]) # {}
             /\ i < Len(e) => e[i + 1].first = e[i].last + 1
             /\ EpochBuffers(e[i]) \subseteq PhaseBuffers(e[i].phase)
             /\ Cardinality(EpochBuffers(e[i])) <= 4
             /\ Cardinality(EpochBuffers(e[i])) < 4 => e[i].last + 1 \notin PhaseBuffers(e[i].phase)
  BY DEF EpochsTilePhases, e
<1>8. QED  BY <1>5, <1>6, <1>7
=============================================================================
