-------------------------- MODULE PlaygroundProofs --------------------------
(***************************************************************************)
(* Proofs about the parts of the playground: the songs with their          *)
(* registry, the owner of one resource, the transcriptions over a pool of  *)
(* decoder workers and the streaming engine over its buffer pool, each for *)
(* all values of its constants.                                            *)
(***************************************************************************)
EXTENDS Playground, FiniteSetTheorems, SequenceTheorems, WellFoundedInduction, TLAPS

-----------------------------------------------------------------------------
(* The songs: a shown song survives what reclaimers and recoveries delete,  *)
(* and a record outlives its song.                                          *)

\* A song on its way to the page or on show; those of them that are not recorded yet; those whose
\* page holds the lock.
Kept == {"committed", "clearing", "claiming", "recording", "shown"}
Unrecorded == {"new", "committed", "clearing", "claiming", "recording"} \cup Writing
Held == {"recording", "shown"}

\* A record, and so a reclaimer, knows only outputs that have been recorded; a reclaimer has the lock
\* of what it is about to delete.
ReclaimInv ==
  /\ \A o \in DOMAIN records : step[o] \notin Unrecorded
  /\ \A o \in Outputs : step[o] \in Held => o \in owned
  /\ \A t \in Tabs :
       /\ \A o \in reclaim[t].todo : step[o] \notin Unrecorded
       /\ reclaim[t].holding # None =>
            /\ reclaim[t].holding \in Outputs
            /\ reclaim[t].holding \notin owned
            /\ step[reclaim[t].holding] \notin Unrecorded

\* What is about to leave the registry is gone from the disk.
BooksInv ==
  /\ IsFiniteSet(DOMAIN records)
  /\ \A o \in Outputs : step[o] = "forgetting" => dir[o] = "absent"
  /\ \A t \in Tabs : \A o \in reclaim[t].deleted :
       dir[o] = "absent" /\ step[o] \notin Unrecorded

\* Nothing that a worker still writes is old; what recovery looks at was not yet committed, so that
\* it is either young or no song.
RecoverInv ==
  /\ \A o \in Outputs : step[o] = "new" => dir[o] = "absent"
  /\ \A o \in old : step[o] \notin Writing \cup {"new"}
  /\ \A t \in Tabs :
       /\ \A o \in recover[t].aged : step[o] \notin Writing \cup {"new"}
       /\ recover[t].target \in recover[t].aged => step[recover[t].target] \notin Kept
       /\ recover[t].doomed => recover[t].target \in recover[t].aged

SongInv ==
  /\ TypeOK /\ ReclaimInv /\ BooksInv
  /\ ~MaySuspend => RecoverInv /\ ShownSongIsKept

\* The demo starts with every song kept.
LEMMA SongInit == StorageConstants /\ Init => SongInv
<1> SUFFICES ASSUME StorageConstants, Init PROVE SongInv OBVIOUS
<1>1. IsFiniteSet(DOMAIN records)
  BY FS_EmptySet DEF Init
<1>2. QED
  BY <1>1 DEF StorageConstants, Init, SongInv, TypeOK, ShownSongIsKept, ReclaimInv, BooksInv, RecoverInv, Kept,
       Unrecorded, Held, Writing, Showing, NoReclaim, NoRecovery

\* Reclaimers and recoveries, one at a time.
Reclaimer == [todo : SUBSET Outputs, deleted : SUBSET Outputs, holding : Outputs \cup {None},
              running : BOOLEAN]
Recovery == [running : BOOLEAN, aged : SUBSET Outputs, target : Outputs \cup {None}, doomed : BOOLEAN]

\* A write makes an output young, for every recovery.
LEMMA TouchFields ==
  ASSUME TypeOK, NEW o, Touch(o)
  PROVE  /\ old' = old \ {o} /\ recover' \in [Tabs -> Recovery]
         /\ \A t \in Tabs : /\ recover'[t].aged = recover[t].aged \ {o}
                            /\ recover'[t].target = recover[t].target
                            /\ recover'[t].doomed = recover[t].doomed
BY DEF TypeOK, Touch, Recovery

\* Only the output that is recorded enters the registry, and it stays there when others are pushed out.
LEMMA RecordFields ==
  ASSUME StorageConstants, TypeOK, IsFiniteSet(DOMAIN records), NEW o \in Outputs,
         o \notin DOMAIN records, records' = Keep(With(o))
  PROVE  /\ DOMAIN records' \subseteq DOMAIN records \cup {o}
         /\ \A r \in DOMAIN records' : records'[r] \in Nat
         /\ IsFiniteSet(DOMAIN records')
         /\ ~(DOMAIN records \subseteq DOMAIN records') =>
              o \in DOMAIN records' /\ Cardinality(DOMAIN records) >= MaxRecords
<1>1. /\ DOMAIN With(o) = DOMAIN records \cup {o}
      /\ With(o)[o] = 0
      /\ \A r \in DOMAIN records : With(o)[r] = records[r] + 1
  BY DEF With
<1>2. \A r \in DOMAIN With(o) : With(o)[r] \in Nat
  BY <1>1 DEF TypeOK
<1>3. /\ IsFiniteSet(DOMAIN records \cup {o})
      /\ Cardinality(DOMAIN records \cup {o}) = Cardinality(DOMAIN records) + 1
      /\ Cardinality(DOMAIN records) \in Nat
  BY FS_AddElement, FS_CardinalityType
<1>4. CASE Cardinality(DOMAIN With(o)) > MaxRecords
  <2>1. records' = [r \in DOMAIN With(o) \ Oldest(With(o)) |-> With(o)[r]]
    BY <1>4 DEF Keep
  <2>2. Cardinality(DOMAIN records) >= MaxRecords
    BY <1>1, <1>3, <1>4 DEF StorageConstants
  <2>3. DOMAIN records # {}
    BY <2>2, FS_EmptySet DEF StorageConstants
  <2>4. o \notin Oldest(With(o))
    <3>1. PICK q \in DOMAIN records : TRUE
      BY <2>3
    <3>2. With(o)[q] > With(o)[o]
      BY <1>1, <3>1 DEF TypeOK
    <3>3. QED  BY <1>1, <1>2, <3>1, <3>2 DEF Oldest
  <2>5. DOMAIN records' \subseteq DOMAIN records \cup {o} /\ o \in DOMAIN records'
    BY <1>1, <2>1, <2>4
  <2>6. IsFiniteSet(DOMAIN records')
    BY <1>3, <2>5, FS_Subset
  <2>7. QED  BY <1>2, <2>1, <2>2, <2>5, <2>6
<1>5. CASE ~(Cardinality(DOMAIN With(o)) > MaxRecords)
  BY <1>1, <1>2, <1>3, <1>5 DEF Keep
<1>6. QED  BY <1>4, <1>5

\* A store that has lost an entry is still a store.
LEMMA WithoutFields ==
  ASSUME TypeOK, IsFiniteSet(DOMAIN records), NEW ids, records' = Without(ids)
  PROVE  /\ DOMAIN records' = DOMAIN records \ ids
         /\ \A r \in DOMAIN records' : records'[r] \in Nat
         /\ IsFiniteSet(DOMAIN records')
<1>1. DOMAIN records' = DOMAIN records \ ids /\ \A r \in DOMAIN records' : records'[r] = records[r]
  BY DEF Without
<1>2. IsFiniteSet(DOMAIN records')
  BY <1>1, FS_Subset
<1>3. QED  BY <1>1, <1>2 DEF TypeOK

\* A step of the output transaction.
LEMMA OutputStepKeepsInv ==
  ASSUME StorageConstants, SongInv, NEW o \in Outputs, OutputStep(o)
  PROVE  SongInv'
<1> USE DEF StorageConstants, SongInv, TypeOK, ReclaimInv, BooksInv, RecoverInv, ShownSongIsKept, disk, registry,
            others, Goto, Dir, Current, Kept, Unrecorded, Held, Writing, Showing, Reclaimer, Recovery
<1>1. CASE Open(o)
  BY <1>1, TouchFields DEF Open
<1>2. CASE CloseFiles(o)
  BY <1>2, TouchFields DEF CloseFiles
<1>3. CASE Unmark(o)
  BY <1>3 DEF Unmark
<1>4. CASE Mark(o)
  BY <1>4 DEF Mark
<1>5. CASE Fail(o)
  BY <1>5 DEF Fail
<1>6. CASE Rollback(o)
  BY <1>6 DEF Rollback
<1>7. CASE Publish(o)
  BY <1>7 DEF Publish
<1>8. CASE Cleared(o)
  BY <1>8 DEF Cleared
<1>9. CASE PublishFails(o)
  BY <1>9 DEF PublishFails
<1>10. CASE Claim(o)
  BY <1>10 DEF Claim
<1>11. CASE Record(o)
  <2>1. /\ DOMAIN records' \subseteq DOMAIN records \cup {o}
        /\ \A r \in DOMAIN records' : records'[r] \in Nat
        /\ IsFiniteSet(DOMAIN records')
    BY <1>11, RecordFields DEF Record
  <2>2. QED  BY <1>11, <2>1 DEF Record
<1>12. CASE Delete(o)
  BY <1>12 DEF Delete
<1>13. CASE DeleteFails(o)
  BY <1>13 DEF DeleteFails
<1>14. CASE Forget(o)
  <2>1. /\ DOMAIN records' = DOMAIN records \ {o}
        /\ \A r \in DOMAIN records' : records'[r] \in Nat
        /\ IsFiniteSet(DOMAIN records')
    BY <1>14, WithoutFields DEF Forget
  <2>2. QED  BY <1>14, <2>1 DEF Forget
<1>15. CASE Disown(o)
  BY <1>15 DEF Disown
<1>16. CASE Age(o) \/ Expire(o)
  BY <1>16 DEF Age, Expire
<1>17. QED
  BY <1>1, <1>2, <1>3, <1>4, <1>5, <1>6, <1>7, <1>8, <1>9, <1>10, <1>11, <1>12, <1>13, <1>14, <1>15,
     <1>16
  DEF OutputStep

\* What the songs see of a reclaimer: what it will try, what it holds, what it has deleted.
ReclaimerGoesOn(t, todo, holding, deleted) ==
  /\ reclaim' \in [Tabs -> Reclaimer]
  /\ reclaim'[t].todo = todo /\ reclaim'[t].holding = holding /\ reclaim'[t].deleted = deleted
  /\ \A s \in Tabs \ {t} : reclaim'[s] = reclaim[s]

\* A step of a reclaim pass.
LEMMA ReclaimStepKeepsInv ==
  ASSUME StorageConstants, SongInv, NEW t \in Tabs,
         \/ Visit(t) \/ ReclaimDelete(t) \/ ReclaimFails(t) \/ ReclaimEnds(t)
         \/ \E o \in Outputs : TryReclaim(t, o)
  PROVE  SongInv'
<1> USE DEF StorageConstants, SongInv, TypeOK, disk, registry, Reclaimer, ReclaimerGoesOn
<1> DEFINE Keeps == ReclaimInv' /\ BooksInv' /\ (~MaySuspend => RecoverInv' /\ ShownSongIsKept')
<1>1. CASE Visit(t)
  <2>1. ReclaimerGoesOn(t, Reclaimable(t), None, {})
    BY <1>1 DEF Visit, NoReclaim, Reclaimable
  <2>2. Keeps
    <3>1. UNCHANGED <<dir, old, step, owned, records, recover>> /\ Reclaimable(t) \subseteq DOMAIN records
      BY <1>1 DEF Visit, Reclaimable
    <3>2. QED  BY <2>1, <3>1 DEF ReclaimInv, BooksInv, RecoverInv, ShownSongIsKept
  <2>3. TypeOK'
    BY <1>1, <2>1 DEF Visit
  <2>4. QED  BY <2>2, <2>3
<1>2. CASE \E o \in Outputs : TryReclaim(t, o)
  <2>1. PICK o \in Outputs : TryReclaim(t, o)
    BY <1>2
  <2>2. ReclaimerGoesOn(t, reclaim[t].todo \ {o}, IF Unowned(o) THEN o ELSE None, reclaim[t].deleted)
    <3> DEFINE held == IF Unowned(o) THEN o ELSE None
               r == [todo |-> reclaim[t].todo \ {o}, deleted |-> reclaim[t].deleted, holding |-> held,
                     running |-> reclaim[t].running]
    <3>1. held \in Outputs \cup {None} /\ reclaim' = [reclaim EXCEPT ![t] = r]
      BY <2>1 DEF TryReclaim
    <3> HIDE DEF held
    <3>2. QED  BY <3>1 DEF held
  <2>3. Keeps
    <3>1. /\ UNCHANGED <<dir, old, step, owned, records, recover>>
          /\ o \in reclaim[t].todo /\ (Unowned(o) => o \notin owned)
      BY <2>1 DEF TryReclaim, Unowned
    <3>2. QED  BY <2>2, <3>1 DEF ReclaimInv, BooksInv, RecoverInv, ShownSongIsKept
  <2>4. TypeOK'
    BY <2>1, <2>2 DEF TryReclaim
  <2>5. QED  BY <2>3, <2>4
<1>3. CASE ReclaimDelete(t)
  <2>1. ReclaimerGoesOn(t, reclaim[t].todo, None, reclaim[t].deleted \cup {reclaim[t].holding})
    <3>1. reclaim[t].holding \in Outputs
      BY <1>3 DEF ReclaimDelete
    <3>2. reclaim' = [reclaim EXCEPT ![t] =
                        [todo |-> reclaim[t].todo, running |-> reclaim[t].running,
                         deleted |-> reclaim[t].deleted \cup {reclaim[t].holding}, holding |-> None]]
      BY <1>3 DEF ReclaimDelete
    <3>3. QED  BY <3>1, <3>2
  <2>2. Keeps
    BY <1>3, <2>1
    DEF ReclaimDelete, Dir, ReclaimInv, BooksInv, RecoverInv, ShownSongIsKept, Unrecorded, Kept, Held
  <2>3. TypeOK'
    BY <1>3, <2>1 DEF ReclaimDelete, Dir
  <2>4. QED  BY <2>2, <2>3
<1>4. CASE ReclaimFails(t)
  <2>1. ReclaimerGoesOn(t, reclaim[t].todo, None, reclaim[t].deleted)
    BY <1>4 DEF ReclaimFails
  <2>2. Keeps
    BY <1>4, <2>1 DEF ReclaimFails, ReclaimInv, BooksInv, RecoverInv, ShownSongIsKept
  <2>3. TypeOK'
    BY <1>4, <2>1 DEF ReclaimFails
  <2>4. QED  BY <2>2, <2>3
<1>5. CASE ReclaimEnds(t)
  <2>1. ReclaimerGoesOn(t, {}, None, {})
    BY <1>5 DEF ReclaimEnds, NoReclaim
  <2>2. /\ DOMAIN records' = DOMAIN records \ reclaim[t].deleted
        /\ \A r \in DOMAIN records' : records'[r] \in Nat
        /\ IsFiniteSet(DOMAIN records')
    BY <1>5, WithoutFields DEF ReclaimEnds, BooksInv
  <2>3. Keeps
    BY <1>5, <2>1, <2>2 DEF ReclaimEnds, ReclaimInv, BooksInv, RecoverInv, ShownSongIsKept
  <2>4. TypeOK'
    BY <1>5, <2>1, <2>2 DEF ReclaimEnds
  <2>5. QED  BY <2>3, <2>4
<1>6. QED  BY <1>1, <1>2, <1>3, <1>4, <1>5

\* And of a recovery: what it takes for old, what it looks at, and whether that is to go.
RecoveryGoesOn(t, aged, target, doomed) ==
  /\ recover' \in [Tabs -> Recovery]
  /\ recover'[t].aged = aged /\ recover'[t].target = target /\ recover'[t].doomed = doomed
  /\ \A s \in Tabs \ {t} : recover'[s] = recover[s]

\* A step of a recovery pass.
LEMMA RecoverStepKeepsInv ==
  ASSUME StorageConstants, SongInv, NEW t \in Tabs,
         \/ Recover(t) \/ Judge(t) \/ RecoverRemove(t) \/ RecoverEnds(t)
         \/ \E o \in Outputs : Look(t, o)
  PROVE  SongInv'
<1> USE DEF StorageConstants, SongInv, TypeOK, disk, registry, Recovery, RecoveryGoesOn
<1> DEFINE Keeps == ReclaimInv' /\ BooksInv' /\ (~MaySuspend => RecoverInv' /\ ShownSongIsKept')
<1>1. CASE Recover(t)
  <2>1. RecoveryGoesOn(t, old, None, FALSE)
    BY <1>1 DEF Recover, NoRecovery
  <2>2. Keeps
    BY <1>1, <2>1 DEF Recover, ReclaimInv, BooksInv, RecoverInv, ShownSongIsKept
  <2>3. TypeOK'
    BY <1>1, <2>1 DEF Recover
  <2>4. QED  BY <2>2, <2>3
<1>2. CASE \E o \in Outputs : Look(t, o)
  BY <1>2 DEF Look, ReclaimInv, BooksInv, RecoverInv, ShownSongIsKept, Kept
<1>3. CASE Judge(t)
  <2>1. CASE IsAbandoned(t, recover[t].target)
    <3>1. RecoveryGoesOn(t, recover[t].aged, recover[t].target, TRUE)
      BY <1>3, <2>1 DEF Judge
    <3>2. Keeps
      BY <1>3, <2>1, <3>1
      DEF Judge, IsAbandoned, ReclaimInv, BooksInv, RecoverInv, ShownSongIsKept
    <3>3. TypeOK'
      BY <1>3, <3>1 DEF Judge
    <3>4. QED  BY <3>2, <3>3
  <2>2. CASE ~IsAbandoned(t, recover[t].target)
    <3>1. RecoveryGoesOn(t, recover[t].aged, None, FALSE)
      BY <1>3, <2>2 DEF Judge
    <3>2. Keeps
      BY <1>3, <3>1 DEF Judge, ReclaimInv, BooksInv, RecoverInv, ShownSongIsKept
    <3>3. TypeOK'
      BY <1>3, <3>1 DEF Judge
    <3>4. QED  BY <3>2, <3>3
  <2>3. QED  BY <2>1, <2>2
<1>4. CASE RecoverRemove(t)
  <2>1. RecoveryGoesOn(t, recover[t].aged, None, FALSE)
    BY <1>4 DEF RecoverRemove
  <2>2. /\ recover[t].doomed
        /\ dir' = dir \/ dir' = [dir EXCEPT ![recover[t].target] = "absent"]
    BY <1>4 DEF RecoverRemove, Dir
  <2>3. Keeps
    BY <1>4, <2>1, <2>2
    DEF RecoverRemove, ReclaimInv, BooksInv, RecoverInv, ShownSongIsKept, Kept
  <2>4. TypeOK'
    BY <1>4, <2>1, <2>2 DEF RecoverRemove
  <2>5. QED  BY <2>3, <2>4
<1>5. CASE RecoverEnds(t)
  <2>1. RecoveryGoesOn(t, {}, None, FALSE)
    BY <1>5 DEF RecoverEnds, NoRecovery
  <2>2. Keeps
    BY <1>5, <2>1 DEF RecoverEnds, ReclaimInv, BooksInv, RecoverInv, ShownSongIsKept
  <2>3. TypeOK'
    BY <1>5, <2>1 DEF RecoverEnds
  <2>4. QED  BY <2>2, <2>3
<1>6. QED  BY <1>1, <1>2, <1>3, <1>4, <1>5

\* Each step of the songs.
LEMMA SongStepKeepsInv ==
  ASSUME StorageConstants, SongInv, [Next]_vars
  PROVE  SongInv'
<1>1. CASE \E o \in Outputs : OutputStep(o)
  BY <1>1, OutputStepKeepsInv
<1>2. ASSUME NEW t \in Tabs, TabStep(t)
      PROVE  SongInv'
  <2> USE DEF StorageConstants, SongInv, TypeOK, ReclaimInv, BooksInv, RecoverInv, ShownSongIsKept, disk, registry,
              others, Goto, Dir, Current, NoReclaim, NoRecovery, Kept, Unrecorded, Held, Writing, Showing
  <2>1. CASE DropSong(t)
    BY <2>1 DEF DropSong
  <2>2. CASE PageHide(t)
    BY <2>2 DEF PageHide
  <2>3. CASE Gone(t)
    BY <2>3 DEF Gone
  <2>4. CASE \E o \in Outputs : Begin(t, o)
    BY <2>4 DEF Begin
  <2>5. QED
    BY <1>2, <2>1, <2>2, <2>3, <2>4, ReclaimStepKeepsInv, RecoverStepKeepsInv DEF TabStep
<1>3. CASE UNCHANGED vars
  BY <1>3 DEF vars, SongInv, TypeOK, ReclaimInv, BooksInv, RecoverInv, ShownSongIsKept
<1>4. QED  BY <1>1, <1>2, <1>3 DEF Next

\* Whatever reclaimers and recoveries do, each record, each lock and each old transaction is at a
\* place where it can be left alone or taken away.
THEOREM SongInvariant == StorageConstants => (Spec => []SongInv)
<1> SUFFICES ASSUME StorageConstants PROVE Spec => []SongInv
  OBVIOUS
<1>1. Init => SongInv
  BY SongInit
<1>2. SongInv /\ [Next]_vars => SongInv'
  BY SongStepKeepsInv
<1>3. QED  BY <1>1, <1>2, PTL DEF Spec

\* A song on show, or on its way there, is on disk and committed, in any number of tabs, as long as no
\* worker sleeps for longer than recovery's margin (audio-output.ts:398).
THEOREM SongsAreKept == StorageConstants /\ ~MaySuspend => (Spec => []ShownSongIsKept)
<1> SUFFICES ASSUME StorageConstants, ~MaySuspend PROVE Spec => []ShownSongIsKept
  OBVIOUS
<1>1. Spec => []SongInv
  BY SongInvariant
<1>2. SongInv => ShownSongIsKept
  BY DEF SongInv
<1>3. QED  BY <1>1, <1>2, PTL

\* A record leaves the registry only when its song is gone from the disk, or when a newer record pushes
\* it out of a full registry (updateRecords and writeRecords, and the callers of forgetPendingOutput).
THEOREM RecordsOutliveSongs == StorageConstants => (Spec => ForgottenMeansDeleted)
<1> SUFFICES ASSUME StorageConstants PROVE Spec => ForgottenMeansDeleted
  OBVIOUS
<1>1. Spec => []SongInv
  BY SongInvariant
<1>2. SongInv /\ [Next]_vars => [RecordGoesWithSong]_vars
  <2> SUFFICES ASSUME SongInv, Next, NEW o \in Outputs, o \in DOMAIN records, o \notin DOMAIN records'
               PROVE  \/ dir[o] = "absent"
                      \/ /\ Cardinality(DOMAIN records) >= MaxRecords
                         /\ ~(DOMAIN records' \subseteq DOMAIN records)
    BY DEF RecordGoesWithSong
  <2> USE DEF SongInv, TypeOK, ReclaimInv, BooksInv
  <2>1. CASE \E s \in Outputs : Record(s)
    <3>1. PICK s \in Outputs : Record(s)
      BY <2>1
    <3>2. s \notin DOMAIN records /\ records' = Keep(With(s))
      BY <3>1 DEF Record, Unrecorded
    <3>3. s \in DOMAIN records' /\ Cardinality(DOMAIN records) >= MaxRecords
      BY <3>2, RecordFields
    <3>4. QED  BY <3>2, <3>3
  <2>2. CASE \E s \in Outputs : Forget(s)
    <3>1. PICK s \in Outputs : Forget(s)
      BY <2>2
    <3>2. DOMAIN records' = DOMAIN records \ {s} /\ dir[s] = "absent"
      BY <3>1, WithoutFields DEF Forget
    <3>3. QED  BY <3>2
  <2>3. CASE \E t \in Tabs : ReclaimEnds(t)
    <3>1. PICK t \in Tabs : ReclaimEnds(t)
      BY <2>3
    <3>2. DOMAIN records' = DOMAIN records \ reclaim[t].deleted
      BY <3>1, WithoutFields DEF ReclaimEnds
    <3>3. QED  BY <3>2
  <2>4. CASE /\ ~\E s \in Outputs : Record(s) \/ Forget(s)
             /\ ~\E t \in Tabs : ReclaimEnds(t)
    <3>1. ASSUME NEW s \in Outputs, OutputStep(s)  PROVE UNCHANGED records
      BY <2>4, <3>1
      DEF OutputStep, Open, CloseFiles, Unmark, Mark, Fail, Rollback, Publish, Cleared, PublishFails,
          Claim, Delete, DeleteFails, Disown, Age, Expire, others, registry
    <3>2. ASSUME NEW t \in Tabs, TabStep(t)  PROVE UNCHANGED records
      BY <2>4, <3>2
      DEF TabStep, DropSong, PageHide, Gone, Visit, ReclaimDelete, ReclaimFails, Recover, Judge,
          RecoverRemove, RecoverEnds, Begin, TryReclaim, Look, others, registry
    <3>3. QED  BY <3>1, <3>2 DEF Next
  <2>5. QED  BY <2>1, <2>2, <2>3, <2>4
<1>3. QED  BY <1>1, <1>2, PTL DEF Spec, ForgottenMeansDeleted

-----------------------------------------------------------------------------
(* The owner of one resource: what is disposed of is not in use, and close  *)
(* leaves nothing behind.                                                   *)

\* What is alive belongs to the session, and only an operation at the right place uses it.
Ownership ==
  /\ \A r \in Resources : state[r] = "live" => r \in {resource, made}
  /\ made # None <=> op \in {"initialize", "undo"}
  /\ made # None => resource = None
  /\ op = "initialize" => using = made
  /\ op = "undo" => state[made] # "live"
  /\ op = "running" => using = resource
  /\ op \notin {"initialize", "running"} => using = None
  /\ op = "factory" => resource = None
  /\ op \in {"release", "clearing"} => resource # None /\ state[resource] # "live"
  /\ resource # None => state[resource] # "new"
  /\ made # None => state[made] # "new"

\* What close() waits for is over when it goes on.
Closing ==
  /\ close \in {"releasing", "closed"} => op = "none"
  /\ close \in {"releasing", "closed"} => \A r \in Resources : state[r] # "live"

SessionInv == Session!TypeOK /\ Ownership /\ Closing

\* The session starts empty.
LEMMA SessionInit == Session!SessionConstants /\ Session!Init => SessionInv
BY DEF Session!SessionConstants, Session!Init, SessionInv, Session!TypeOK, Ownership, Closing,
       Session!Ops

\* Each step of the session.
LEMMA SessionStep ==
  ASSUME Session!SessionConstants, SessionInv, [Session!Next]_(Session!vars)
  PROVE  SessionInv'
<1> USE DEF Session!SessionConstants, SessionInv, Session!TypeOK, Ownership, Closing, Session!Ops
<1>1. CASE \E name \in {"load", "run", "clear"} : Session!Start(name)
  BY <1>1 DEF Session!Start, Session!Busy
<1>2. CASE Session!Close BY <1>2 DEF Session!Close
<1>3. CASE Session!LoadBegins BY <1>3 DEF Session!LoadBegins, Session!Release
<1>4. CASE Session!LoadReleases BY <1>4 DEF Session!LoadReleases
<1>5. CASE Session!FactoryFails BY <1>5 DEF Session!FactoryFails
<1>6. CASE Session!Install BY <1>6 DEF Session!Install
<1>7. CASE Session!Undo BY <1>7 DEF Session!Undo
<1>8. CASE Session!Undone BY <1>8 DEF Session!Undone
<1>9. CASE Session!RunBegins BY <1>9 DEF Session!RunBegins
<1>10. CASE Session!RunEnds BY <1>10 DEF Session!RunEnds
<1>11. CASE Session!ClearBegins BY <1>11 DEF Session!ClearBegins, Session!Release
<1>12. CASE Session!ClearEnds BY <1>12 DEF Session!ClearEnds
<1>13. CASE Session!CloseReleases BY <1>13 DEF Session!CloseReleases
<1>14. CASE Session!Closed BY <1>14 DEF Session!Closed
<1>15. CASE \E r \in Resources : Session!Construct(r)
  <2> PICK r \in Resources : Session!Construct(r) BY <1>15
  <2> QED BY DEF Session!Construct
<1>16. CASE UNCHANGED Session!vars BY <1>16 DEF Session!vars
<1> QED BY <1>1, <1>2, <1>3, <1>4, <1>5, <1>6, <1>7, <1>8, <1>9, <1>10, <1>11, <1>12, <1>13, <1>14,
           <1>15, <1>16 DEF Session!Next, Session!Operation

\* What each operation of the session holds at each of its awaits (exclusive, load, run, clear, close).
THEOREM SessionInvariant == Session!SessionConstants => (Session!Spec => []SessionInv)
<1> SUFFICES ASSUME Session!SessionConstants PROVE Session!Spec => []SessionInv
  OBVIOUS
<1>1. Session!Init => SessionInv
  BY SessionInit
<1>2. SessionInv /\ [Session!Next]_(Session!vars) => SessionInv'
  BY SessionStep
<1>3. QED  BY <1>1, <1>2, PTL DEF Session!Spec

\* When close() has resolved, no operation is in flight and no resource is alive.
THEOREM CloseEmptiesSession == Session!SessionConstants => (Session!Spec => []ClosedIsEmpty)
<1> SUFFICES ASSUME Session!SessionConstants PROVE Session!Spec => []ClosedIsEmpty
  OBVIOUS
<1>0. Session!Spec => []SessionInv
  BY SessionInvariant
<1>1. SessionInv => ClosedIsEmpty
  BY DEF SessionInv, Closing, Ownership, ClosedIsEmpty, Session!ClosedIsEmpty
<1> QED BY <1>0, <1>1, PTL

\* dispose() is called on nothing that is in use.
THEOREM DisposedOutOfUse == Session!SessionConstants => (Session!Spec => NotDisposedInUse)
<1> SUFFICES ASSUME Session!SessionConstants PROVE Session!Spec => NotDisposedInUse
  OBVIOUS
<1>0. Session!Spec => []SessionInv
  BY SessionInvariant
<1>1. ASSUME SessionInv, SessionInv', [Session!Next]_(Session!vars), NEW r \in Resources,
             state[r] = "live", state'[r] = "disposing"
      PROVE  using' # r
  <2> USE <1>1 DEF Session!SessionConstants, SessionInv, Session!TypeOK, Ownership, Closing, Session!Ops
  <2>1. CASE Session!LoadBegins \/ Session!ClearBegins
    BY <2>1 DEF Session!LoadBegins, Session!ClearBegins, Session!Release
  <2>2. CASE Session!Undo \/ Session!CloseReleases BY <2>2 DEF Session!Undo, Session!CloseReleases
  <2>3. CASE \E s \in Resources : Session!Construct(s) BY <2>3 DEF Session!Construct
  <2>4. CASE Session!LoadReleases \/ Session!ClearEnds \/ Session!Closed \/ Session!Undone
    BY <2>4 DEF Session!LoadReleases, Session!ClearEnds, Session!Closed, Session!Undone
  <2>5. CASE UNCHANGED state BY <2>5
  <2> QED BY <2>1, <2>2, <2>3, <2>4, <2>5
          DEF Session!Next, Session!Operation, Session!Start, Session!Close, Session!FactoryFails,
              Session!Install, Session!RunBegins, Session!RunEnds, Session!vars
<1>2. SessionInv /\ SessionInv' /\ [Session!Next]_(Session!vars)
        => [Session!DisposesUnused]_(Session!vars)
  BY <1>1 DEF Session!DisposesUnused
<1> QED BY <1>0, <1>2, PTL DEF Session!Spec, NotDisposedInUse, Session!NotDisposedInUse

-----------------------------------------------------------------------------
(* Transcriptions: every call stitches its own windows, once and in order.  *)

\* A set of numbers that is not empty has a least one.
LEMMA LeastNumber ==
  ASSUME NEW S, S \subseteq Nat, S # {}
  PROVE  \E n \in S : \A m \in S : n <= m
<1> DEFINE Less == {p \in Nat \X Nat : p[1] < p[2]}
<1>1. IsWellFoundedOn(Less, Nat)
  BY NatLessThanWellFounded DEF OpToRel
<1>2. \E n \in S : \A m \in S : <<m, n>> \notin Less
  BY <1>1, WFMin
<1>3. \A n, m \in Nat : <<m, n>> \notin Less => n <= m
  OBVIOUS
<1>4. QED  BY <1>2, <1>3

\* The windows of the first n groups are as many as the recursion says.
LEMMA BeforeIsSum ==
  LET B == Transcriptions!Before
  IN  /\ B \in [0 .. Len(Groups) -> Nat]
      /\ B[0] = 0
      /\ \A n \in 1 .. Len(Groups) : B[n] = B[n - 1] + Groups[n] /\ Groups[n] \in Nat \ {0}
<1> DEFINE N == Len(Groups)
           Step(f, n) == IF n = 0 THEN 0 ELSE f[n - 1] + Groups[n]
           Sums(f, k) == f \in [0 .. k -> Nat] /\ f = [n \in 0 .. k |-> Step(f, n)]
<1>1. N \in Nat /\ \A n \in 1 .. N : Groups[n] \in Nat \ {0}
  BY PlaygroundConstants DEF Transcriptions!TranscriptionConstants
<1>2. Sums([n \in 0 .. 0 |-> 0], 0)
  OBVIOUS
<1>3. ASSUME NEW k \in 0 .. N - 1, NEW f, Sums(f, k)
      PROVE  \E h : Sums(h, k + 1)
  <2> DEFINE h == [n \in 0 .. k + 1 |-> IF n = k + 1 THEN f[k] + Groups[k + 1] ELSE f[n]]
  <2>1. \A n \in 0 .. k : f[n] \in Nat /\ f[n] = Step(f, n)
    BY <1>3
  <2>2. h \in [0 .. k + 1 -> Nat]
    BY <1>1, <2>1
  <2>3. \A n \in 0 .. k + 1 : h[n] = Step(h, n)
    <3>1. CASE k = 0
      BY <1>1, <2>1, <3>1
    <3>2. CASE k # 0
      BY <1>1, <2>1, <3>2
    <3>3. QED  BY <3>1, <3>2
  <2>4. QED  BY <2>2, <2>3
<1> HIDE DEF Sums
<1>4. \A k \in 0 .. N : \E f : Sums(f, k)
  <2> DEFINE Bad == {k \in 0 .. N : ~\E f : Sums(f, k)}
  <2>1. SUFFICES ASSUME Bad # {} PROVE FALSE
    OBVIOUS
  <2>2. Bad \subseteq Nat
    BY <1>1
  <2>3. PICK k \in Bad : \A m \in Bad : k <= m
    BY <2>1, <2>2, LeastNumber
  <2>4. 0 \notin Bad
    BY <1>2
  <2>5. k - 1 \in 0 .. N - 1 /\ k - 1 + 1 = k
    BY <1>1, <2>3, <2>4
  <2>6. PICK f : Sums(f, k - 1)
    BY <1>1, <2>3, <2>5
  <2>7. QED  BY <1>3, <2>3, <2>5, <2>6
<1>5. PICK f : Sums(f, N)
  <2>1. N \in 0 .. N
    BY <1>1
  <2>2. QED  BY <1>4, <2>1
<1>6. Transcriptions!Before = [n \in 0 .. N |-> Step(Transcriptions!Before, n)]
  <2>1. \E B : B = [n \in 0 .. N |-> IF n = 0 THEN 0 ELSE B[n - 1] + Groups[n]]
    BY <1>5 DEF Sums
  <2>2. QED  BY <2>1 DEF Transcriptions!Before
<1>7. \A n \in 0 .. N : Transcriptions!Before[n] \in Nat
  <2> DEFINE B == Transcriptions!Before
             Bad == {n \in 0 .. N : B[n] \notin Nat}
  <2>1. SUFFICES ASSUME Bad # {} PROVE FALSE
    OBVIOUS
  <2>2. PICK n \in Bad : \A m \in Bad : n <= m
    <3>1. Bad \subseteq Nat
      BY <1>1
    <3>2. QED  BY <2>1, <3>1, LeastNumber
  <2>3. B[n] = IF n = 0 THEN 0 ELSE B[n - 1] + Groups[n]
    BY <1>6, <2>2
  <2>4. n # 0 => n - 1 \in 0 .. N /\ n - 1 \notin Bad
    BY <1>1, <2>2
  <2>5. QED  BY <1>1, <2>2, <2>3, <2>4
<1>8. QED
  BY <1>1, <1>6, <1>7

\* Later groups begin later.
LEMMA BeforeGrows ==
  ASSUME NEW m \in 0 .. Len(Groups), NEW n \in 0 .. Len(Groups), m < n
  PROVE  Transcriptions!Before[m] < Transcriptions!Before[n]
<1> DEFINE B == Transcriptions!Before
           Bad == {k \in 0 .. Len(Groups) : m < k /\ ~(B[m] < B[k])}
<1>1. Len(Groups) \in Nat /\ Bad \subseteq Nat
  BY PlaygroundConstants DEF Transcriptions!TranscriptionConstants
<1>2. SUFFICES ASSUME Bad # {} PROVE FALSE
  OBVIOUS
<1>3. PICK k \in Bad : \A j \in Bad : k <= j
  BY <1>1, <1>2, LeastNumber
<1>4. k \in 1 .. Len(Groups) /\ k - 1 \in 0 .. Len(Groups) /\ k - 1 \notin Bad
  BY <1>1, <1>3
<1>5. m = k - 1 \/ B[m] < B[k - 1]
  BY <1>1, <1>3, <1>4
<1>6. B[k] = B[k - 1] + Groups[k] /\ Groups[k] \in Nat \ {0} /\ B[m] \in Nat /\ B[k - 1] \in Nat
  BY <1>4, BeforeIsSum
<1>7. QED  BY <1>3, <1>5, <1>6

\* A window is in one group; the windows of a group that is not silent are spoken.
LEMMA GroupsPartWindows ==
  ASSUME NEW g \in 1 .. Len(Groups)
  PROVE  LET B == Transcriptions!Before
         IN  /\ B[g - 1] \in Nat /\ B[g] \in Nat /\ B[g] = B[g - 1] + Groups[g]
             /\ Groups[g] \in Nat \ {0}
             /\ Transcriptions!Windows(g) = B[g - 1] + 1 .. B[g]
             /\ g \notin Silent => Transcriptions!Windows(g) \subseteq Transcriptions!Spoken
             /\ g \in Silent => Transcriptions!Windows(g) \cap Transcriptions!Spoken = {}
             /\ Transcriptions!Spoken \subseteq 1 .. Transcriptions!LastWindow
             /\ B[g] <= Transcriptions!LastWindow
<1> DEFINE B == Transcriptions!Before
<1>1. /\ Len(Groups) \in Nat
      /\ DOMAIN Groups = 1 .. Len(Groups)
      /\ Silent \subseteq 1 .. Len(Groups)
  BY PlaygroundConstants DEF Transcriptions!TranscriptionConstants
<1>2. /\ B[g - 1] \in Nat /\ B[g] \in Nat /\ B[g] = B[g - 1] + Groups[g]
      /\ Groups[g] \in Nat \ {0}
      /\ B[Len(Groups)] \in Nat
  BY <1>1, BeforeIsSum
<1>3. Transcriptions!Windows(g) = B[g - 1] + 1 .. B[g]
  BY DEF Transcriptions!Windows
<1>4. Transcriptions!LastWindow = B[Len(Groups)]
  BY DEF Transcriptions!LastWindow
<1>5. B[g] <= Transcriptions!LastWindow
  BY <1>1, <1>2, <1>4, BeforeGrows
<1>6. ASSUME g \notin Silent, NEW w \in Transcriptions!Windows(g)
      PROVE  w \in Transcriptions!Spoken
  <2>1. w \in 1 .. Transcriptions!LastWindow
    BY <1>2, <1>3, <1>4, <1>5, <1>6
  <2>2. ASSUME NEW h \in Silent PROVE w \notin Transcriptions!Windows(h)
    <3>1. h \in 1 .. Len(Groups) /\ h # g
      BY <1>1, <1>6
    <3>2. B[h - 1] \in Nat /\ B[h] \in Nat
      BY <1>1, <3>1, BeforeIsSum
    <3>3. Transcriptions!Windows(h) = B[h - 1] + 1 .. B[h]
      BY DEF Transcriptions!Windows
    <3>4. CASE h < g
      <4>1. h = g - 1 \/ B[h] < B[g - 1]
        BY <1>1, <3>1, <3>4, BeforeGrows
      <4>2. QED  BY <1>2, <1>3, <1>6, <3>2, <3>3, <4>1
    <3>5. CASE g < h
      <4>1. g = h - 1 \/ B[g] < B[h - 1]
        BY <1>1, <3>1, <3>5, BeforeGrows
      <4>2. QED  BY <1>2, <1>3, <1>6, <3>2, <3>3, <4>1
    <3>6. QED  BY <1>1, <3>1, <3>4, <3>5
  <2>3. QED  BY <2>1, <2>2 DEF Transcriptions!Spoken
<1>7. QED
  BY <1>2, <1>3, <1>5, <1>6 DEF Transcriptions!Spoken

\* The windows h are those below limit that are spoken, in order.
Enumerates(h, limit) ==
  /\ \A i \in DOMAIN h : h[i] \in Transcriptions!Spoken /\ h[i] < limit
  /\ \A i, j \in DOMAIN h : i < j => h[i] < h[j]
  /\ \A w \in Transcriptions!Spoken : w < limit => \E i \in DOMAIN h : h[i] = w

\* The windows posted for the next group continue the enumeration of those posted so far.
LEMMA EnumeratesNext ==
  ASSUME NEW h \in Seq(Nat), NEW g \in 1 .. Len(Groups), NEW k \in Seq(Nat), NEW n \in Nat,
         Enumerates(h, Transcriptions!Before[g - 1] + 1),
         n = IF g \in Silent THEN 0 ELSE Groups[g],
         Len(k) = Len(h) + n,
         \A i \in 1 .. Len(h) : k[i] = h[i],
         \A i \in 1 .. n : k[Len(h) + i] = Transcriptions!Before[g - 1] + i
  PROVE  Enumerates(k, Transcriptions!Before[g] + 1)
<1> DEFINE before == Transcriptions!Before[g - 1]
<1>1. /\ before \in Nat /\ Transcriptions!Before[g] \in Nat
      /\ Transcriptions!Before[g] = before + Groups[g] /\ Groups[g] \in Nat \ {0}
      /\ Transcriptions!Windows(g) = before + 1 .. Transcriptions!Before[g]
      /\ g \notin Silent => Transcriptions!Windows(g) \subseteq Transcriptions!Spoken
      /\ g \in Silent => Transcriptions!Windows(g) \cap Transcriptions!Spoken = {}
      /\ Transcriptions!Spoken \subseteq Nat
  BY GroupsPartWindows, BeforeIsSum, PlaygroundConstants
  DEF Transcriptions!LastWindow, Transcriptions!TranscriptionConstants
<1>2. DOMAIN k = 1 .. Len(h) + n /\ DOMAIN h = 1 .. Len(h) /\ Len(h) \in Nat
  OBVIOUS
<1>3. ASSUME NEW i \in DOMAIN k, i \notin DOMAIN h
      PROVE  /\ \E d \in 1 .. n : i = Len(h) + d /\ k[i] = before + d
             /\ k[i] \in Transcriptions!Windows(g) /\ g \notin Silent
  <2>1. PICK d \in 1 .. n : i = Len(h) + d
    <3>1. i - Len(h) \in 1 .. n /\ i = Len(h) + (i - Len(h))
      BY <1>2, <1>3
    <3>2. QED  BY <3>1
  <2>2. k[i] = before + d
    BY <2>1
  <2>3. g \notin Silent /\ n = Groups[g]
    BY <2>1
  <2>4. before + d \in before + 1 .. before + Groups[g]
    <3>1. before \in Nat /\ Groups[g] \in Nat /\ d \in 1 .. Groups[g]
      BY <1>1, <2>1, <2>3
    <3> HIDE DEF before
    <3>2. QED  BY <3>1
  <2>5. k[i] \in Transcriptions!Windows(g)
    BY <1>1, <2>2, <2>4
  <2>6. QED  BY <2>1, <2>2, <2>3, <2>5
<1>4. \A i \in DOMAIN h : k[i] = h[i] /\ h[i] \in Transcriptions!Spoken /\ h[i] < before + 1 /\ h[i] \in Nat
  BY <1>1, <1>2 DEF Enumerates
<1>5. \A i \in DOMAIN k : k[i] \in Transcriptions!Spoken /\ k[i] < Transcriptions!Before[g] + 1
  <2>1. TAKE i \in DOMAIN k
  <2>2. CASE i \in DOMAIN h
    BY <1>1, <1>4, <2>2
  <2>3. CASE i \notin DOMAIN h
    <3>1. k[i] \in Transcriptions!Windows(g) /\ g \notin Silent
      BY <1>3, <2>3
    <3>2. k[i] \in Transcriptions!Spoken /\ k[i] \in before + 1 .. Transcriptions!Before[g]
      BY <1>1, <3>1
    <3>3. QED  BY <1>1, <3>2
  <2>4. QED  BY <2>2, <2>3
<1>6. ASSUME NEW i \in DOMAIN k, NEW j \in DOMAIN k, i < j
      PROVE  k[i] < k[j]
  <2>1. CASE j \in DOMAIN h
    BY <1>2, <1>4, <1>6, <2>1 DEF Enumerates
  <2>2. CASE i \in DOMAIN h /\ j \notin DOMAIN h
    <3>1. k[i] \in Nat /\ k[i] < before + 1
      BY <1>4, <2>2
    <3>2. PICK d \in 1 .. n : k[j] = before + d
      BY <1>3, <2>2
    <3>3. QED  BY <1>1, <1>2, <3>1, <3>2
  <2>3. CASE i \notin DOMAIN h
    <3>1. j \notin DOMAIN h
      BY <1>2, <1>6, <2>3
    <3>2. PICK d \in 1 .. n : i = Len(h) + d /\ k[i] = before + d
      BY <1>3, <2>3
    <3>3. PICK e \in 1 .. n : j = Len(h) + e /\ k[j] = before + e
      BY <1>3, <3>1
    <3>4. QED  BY <1>1, <1>2, <1>6, <3>2, <3>3
  <2>4. QED  BY <2>1, <2>2, <2>3
<1>7. ASSUME NEW w \in Transcriptions!Spoken, w < Transcriptions!Before[g] + 1
      PROVE  \E i \in DOMAIN k : k[i] = w
  <2>1. CASE w < before + 1
    <3>1. PICK i \in DOMAIN h : h[i] = w
      BY <2>1 DEF Enumerates
    <3>2. QED  BY <1>2, <1>4, <3>1
  <2>2. CASE ~(w < before + 1)
    <3>1. w \in Nat
      BY <1>1
    <3>2. w \in Transcriptions!Windows(g)
      BY <1>1, <1>7, <2>2, <3>1
    <3>3. n = Groups[g]
      BY <1>1, <3>2
    <3>4. PICK d \in 1 .. n : w = before + d
      <4>1. before \in Nat /\ w \in before + 1 .. before + n
        BY <1>1, <1>7, <2>2, <3>1, <3>3
      <4> HIDE DEF before
      <4>2. w - before \in 1 .. n /\ w = before + (w - before)
        BY <4>1
      <4>3. QED  BY <4>2
    <3>5. Len(h) + d \in DOMAIN k /\ k[Len(h) + d] = before + d
      BY <1>2, <3>4
    <3>6. QED  BY <3>4, <3>5
  <2>3. QED  BY <2>1, <2>2
<1>8. QED  BY <1>5, <1>6, <1>7 DEF Enumerates

\* What First chooses of some jobs is the first of them.
LEMMA FirstIsLeast ==
  ASSUME NEW S, S \subseteq Nat, S # {}
  PROVE  Transcriptions!First(S) \in S /\ \A n \in S : Transcriptions!First(S) <= n
<1>1. \E j \in S : \A i \in S : j <= i
  BY LeastNumber
<1>2. QED  BY <1>1 DEF Transcriptions!First

\* The windows stitched and those of the jobs that are left, in order.
Heard(t, d, js) ==
  [i \in 1 .. Len(t) + Len(d) |->
     IF i <= Len(t) THEN t[i].window ELSE js[d[i - Len(t)]].window]

\* The jobs of a call are its own, those it has stitched with the windows it gave them.
OwnJobs(c, t, d, js) ==
  /\ \A i \in DOMAIN d : d[i] \in DOMAIN js /\ js[d[i]].call = c
  /\ \A i \in DOMAIN t :
       t[i].result \in DOMAIN js /\ js[t[i].result].call = c /\ js[t[i].result].window = t[i].window

\* A call is at the first window of its group, and has heard all that is spoken before it.
InPlace(k, js) ==
  /\ k.group \in 1 .. Len(Groups) + 1
  /\ k.window = Transcriptions!Before[k.group - 1] + 1
  /\ k.at \in {"new", "groups"} => k.group <= Len(Groups)
  /\ k.at \in {"finishing", "done"} => k.group = Len(Groups) + 1
  /\ k.at = "done" => k.decJobs = <<>>
  /\ Enumerates(Heard(k.transcript, k.decJobs, js), k.window)

\* What holds of a call c in state k.
CallInv(c, k, js) == OwnJobs(c, k.transcript, k.decJobs, js) /\ InPlace(k, js)

\* js2 has the jobs of js, for the same calls and windows.
SameJobs(js, js2) ==
  /\ DOMAIN js \subseteq DOMAIN js2
  /\ \A j \in DOMAIN js : js2[j].call = js[j].call /\ js2[j].window = js[j].window

\* A call that does not move keeps its invariant while jobs are posted and settled.
LEMMA OtherCallsStay ==
  ASSUME NEW c, NEW k \in Transcriptions!Call, NEW js, NEW js2,
         CallInv(c, k, js), SameJobs(js, js2)
  PROVE  CallInv(c, k, js2)
<1> DEFINE t == k.transcript
           d == k.decJobs
<1>1. OwnJobs(c, t, d, js2)
  BY DEF CallInv, OwnJobs, SameJobs
<1>2. Heard(t, d, js2) = Heard(t, d, js)
  <2>1. ASSUME NEW i \in 1 .. Len(t) + Len(d), ~(i <= Len(t))
        PROVE  i - Len(t) \in DOMAIN d
    BY <2>1 DEF Transcriptions!Call
  <2>2. QED  BY <2>1 DEF CallInv, OwnJobs, SameJobs, Heard
<1>3. QED  BY <1>1, <1>2 DEF CallInv, InPlace

\* Of the jobs d the first r are stitched to t, and more follow the others.
Stitches(t, d, js, r, more, t2, d2) ==
  /\ Len(t2) = Len(t) + r
  /\ \A i \in 1 .. Len(t) : t2[i] = t[i]
  /\ \A i \in 1 .. r :
       t2[Len(t) + i].window = js[d[i]].window /\ t2[Len(t) + i].result = d[i]
  /\ Len(d2) = Len(d) - r + Len(more)
  /\ \A i \in 1 .. Len(d) - r : d2[i] = d[r + i]
  /\ \A i \in 1 .. Len(more) : d2[Len(d) - r + i] = more[i]

\* They are the call's own, and the jobs become js2.
StitchesOwn(c, t, d, js, r, more, t2, d2, js2) ==
  /\ {t, t2} \subseteq Seq(Transcriptions!Stitched) /\ {d, d2, more} \subseteq Seq(Nat \ {0})
  /\ r \in 0 .. Len(d) /\ Stitches(t, d, js, r, more, t2, d2)
  /\ SameJobs(js, js2) /\ OwnJobs(c, t, d, js) /\ OwnJobs(c, <<>>, more, js2)

\* Nothing is lost when jobs are stitched: a call has heard the same and then the new jobs.
LEMMA StitchingKeeps ==
  ASSUME NEW c, NEW t, NEW d, NEW js, NEW r, NEW more, NEW t2, NEW d2, NEW js2,
         StitchesOwn(c, t, d, js, r, more, t2, d2, js2)
  PROVE  /\ OwnJobs(c, t2, d2, js2)
         /\ DOMAIN Heard(t, d, js) = 1 .. Len(t) + Len(d)
         /\ DOMAIN Heard(t2, d2, js2) = 1 .. Len(t) + Len(d) + Len(more)
         /\ \A i \in DOMAIN Heard(t, d, js) : Heard(t2, d2, js2)[i] = Heard(t, d, js)[i]
         /\ \A i \in 1 .. Len(more) : Heard(t2, d2, js2)[Len(t) + Len(d) + i] = js2[more[i]].window
<1> /\ {t, t2} \subseteq Seq(Transcriptions!Stitched) /\ {d, d2, more} \subseteq Seq(Nat \ {0})
    /\ r \in 0 .. Len(d) /\ Stitches(t, d, js, r, more, t2, d2)
  BY Zenon DEF StitchesOwn
<1>1. SameJobs(js, js2) /\ OwnJobs(c, t, d, js)
  BY Zenon DEF StitchesOwn
<1>2. \A i \in DOMAIN more : more[i] \in DOMAIN js2 /\ js2[more[i]].call = c
  BY Zenon DEF StitchesOwn, OwnJobs
<1>3. /\ Len(t) \in Nat /\ DOMAIN t = 1 .. Len(t) /\ Len(d) \in Nat /\ DOMAIN d = 1 .. Len(d)
      /\ DOMAIN t2 = 1 .. Len(t2) /\ DOMAIN d2 = 1 .. Len(d2)
      /\ Len(t2) = Len(t) + r /\ Len(d2) = Len(d) - r + Len(more)
      /\ Len(more) \in Nat /\ DOMAIN more = 1 .. Len(more) /\ r \in Nat /\ r <= Len(d)
  BY DEF Stitches
<1>4. ASSUME NEW i \in DOMAIN d2
      PROVE  d2[i] \in DOMAIN js2 /\ js2[d2[i]].call = c
  <2>1. CASE i <= Len(d) - r
    <3>1. i \in 1 .. Len(d) - r
      BY <1>3, <1>4, <2>1
    <3>2. r + i \in DOMAIN d
      <4> DEFINE n == Len(d)
      <4>1. i \in Nat /\ 1 <= i /\ i <= n - r /\ n \in Nat /\ r \in Nat
        BY <1>3, <3>1
      <4> HIDE DEF n
      <4>2. r + i \in 1 .. n
        BY <4>1
      <4>3. QED  BY <1>3, <4>2 DEF n
    <3>3. d2[i] = d[r + i]
      BY <3>1 DEF Stitches
    <3>4. QED  BY <3>2, <3>3, <1>1 DEF OwnJobs, SameJobs
  <2>2. CASE ~(i <= Len(d) - r)
    <3>1. PICK e \in 1 .. Len(more) : i = Len(d) - r + e
      <4>1. i - (Len(d) - r) \in 1 .. Len(more) /\ i = Len(d) - r + (i - (Len(d) - r))
        BY <1>3, <1>4, <2>2
      <4>2. QED  BY <4>1, Zenon
    <3>2. d2[i] = more[e] /\ e \in DOMAIN more
      BY <1>3, <3>1 DEF Stitches
    <3>3. QED  BY <1>2, <3>2
  <2>3. QED  BY <2>1, <2>2
<1>5. ASSUME NEW i \in DOMAIN t2, i \notin DOMAIN t
      PROVE  \E e \in 1 .. r : i = Len(t) + e /\ t2[i].window = js[d[e]].window /\ t2[i].result = d[e]
  <2>1. i - Len(t) \in 1 .. r /\ i = Len(t) + (i - Len(t))
    BY <1>3, <1>5
  <2>2. PICK e \in 1 .. r : i = Len(t) + e
    BY <2>1, Zenon
  <2>3. QED  BY <2>2 DEF Stitches
<1>6. ASSUME NEW i \in DOMAIN t2
      PROVE  /\ t2[i].result \in DOMAIN js2 /\ js2[t2[i].result].call = c
             /\ js2[t2[i].result].window = t2[i].window
  <2>1. CASE i \in DOMAIN t
    <3>1. t2[i] = t[i]
      BY <1>3, <2>1 DEF Stitches
    <3>2. QED  BY <2>1, <3>1, <1>1 DEF OwnJobs, SameJobs
  <2>2. CASE i \notin DOMAIN t
    <3>1. PICK e \in 1 .. r : t2[i].window = js[d[e]].window /\ t2[i].result = d[e]
      BY <1>5, <1>6, <2>2
    <3>2. e \in DOMAIN d
      BY <1>3
    <3>3. QED  BY <3>1, <3>2, <1>1 DEF OwnJobs, SameJobs
  <2>3. QED  BY <2>1, <2>2
<1>7. OwnJobs(c, t2, d2, js2)
  BY <1>4, <1>6 DEF OwnJobs
<1>8. ASSUME NEW i \in 1 .. Len(t) + Len(d)
      PROVE  Heard(t2, d2, js2)[i] = Heard(t, d, js)[i]
  <2>1. i \in 1 .. Len(t2) + Len(d2)
    BY <1>3
  <2>2. CASE i <= Len(t)
    <3>1. i <= Len(t2) /\ t2[i] = t[i]
      BY <1>3, <2>2 DEF Stitches
    <3>2. QED  BY <2>1, <2>2, <3>1 DEF Heard
  <2>3. CASE Len(t) < i /\ i <= Len(t2)
    <3>1. ~(i <= Len(t)) /\ i \in DOMAIN t2 /\ i \notin DOMAIN t
      BY <1>3, <2>3
    <3>2. PICK e \in 1 .. r : i = Len(t) + e /\ t2[i].window = js[d[e]].window
      BY <1>5, <3>1
    <3>3. i - Len(t) = e
      BY <1>3, <3>2
    <3>4. QED  BY <2>1, <2>3, <3>1, <3>2, <3>3 DEF Heard
  <2>4. CASE ~(i <= Len(t2))
    <3>1. ~(i <= Len(t)) /\ i - Len(t2) \in 1 .. Len(d) - r /\ i - Len(t) = r + (i - Len(t2))
      BY <1>3, <2>4
    <3>2. d2[i - Len(t2)] = d[i - Len(t)] /\ i - Len(t) \in DOMAIN d
      <4> DEFINE e == i - Len(t2)
      <4>1. e \in 1 .. Len(d) - r /\ r + e \in DOMAIN d /\ i - Len(t) = r + e
        BY <1>3, <3>1
      <4> HIDE DEF e
      <4>2. d2[e] = d[r + e]
        BY <4>1 DEF Stitches
      <4>3. QED  BY <4>1, <4>2 DEF e
    <3>3. js2[d[i - Len(t)]].window = js[d[i - Len(t)]].window
      BY <3>2, <1>1 DEF OwnJobs, SameJobs
    <3>4. QED  BY <2>1, <2>4, <3>1, <3>2, <3>3 DEF Heard
  <2>5. QED  BY <1>3, <2>2, <2>3, <2>4
<1>9. ASSUME NEW i \in 1 .. Len(more)
      PROVE  Heard(t2, d2, js2)[Len(t) + Len(d) + i] = js2[more[i]].window
  <2> DEFINE e == Len(t) + Len(d) + i
  <2>1. e \in 1 .. Len(t2) + Len(d2) /\ ~(e <= Len(t2)) /\ e - Len(t2) = Len(d) - r + i
    BY <1>3
  <2>2. d2[e - Len(t2)] = more[i]
    BY <2>1 DEF Stitches
  <2> HIDE DEF e
  <2>3. Heard(t2, d2, js2)[e] = js2[more[i]].window
    BY <2>1, <2>2 DEF Heard
  <2>4. QED  BY <2>3 DEF e
<1>10. DOMAIN Heard(t, d, js) = 1 .. Len(t) + Len(d)
  BY DEF Heard
<1>11. DOMAIN Heard(t2, d2, js2) = 1 .. Len(t) + Len(d) + Len(more)
  <2>1. Len(t2) + Len(d2) = Len(t) + Len(d) + Len(more)
    BY <1>3
  <2>2. QED  BY <2>1 DEF Heard
<1>12. QED
  BY <1>7, <1>8, <1>9, <1>10, <1>11

\* What a call has heard so far are windows.
LEMMA HeardIsSeq ==
  ASSUME NEW c, NEW js \in Seq(Transcriptions!Job),
         NEW t \in Seq(Transcriptions!Stitched), NEW d \in Seq(Nat \ {0}),
         OwnJobs(c, t, d, js)
  PROVE  Heard(t, d, js) \in Seq(Nat) /\ Len(Heard(t, d, js)) = Len(t) + Len(d)
<1>1. ASSUME NEW i \in 1 .. Len(t) + Len(d)
      PROVE  Heard(t, d, js)[i] \in Nat
  <2>1. CASE i <= Len(t)
    <3>1. Heard(t, d, js)[i] = t[i].window /\ i \in DOMAIN t
      BY <2>1 DEF Heard
    <3>2. t[i] \in Transcriptions!Stitched
      BY <3>1
    <3>3. QED  BY <3>1, <3>2 DEF Transcriptions!Stitched
  <2>2. CASE ~(i <= Len(t))
    <3>1. Heard(t, d, js)[i] = js[d[i - Len(t)]].window /\ i - Len(t) \in DOMAIN d
      BY <2>2 DEF Heard
    <3>2. js[d[i - Len(t)]] \in Transcriptions!Job
      BY <3>1 DEF OwnJobs
    <3>3. QED  BY <3>1, <3>2 DEF Transcriptions!Job
  <2>3. QED  BY <2>1, <2>2
<1>2. Heard(t, d, js) \in [1 .. Len(t) + Len(d) -> Nat]
  BY <1>1 DEF Heard
<1>3. Len(t) + Len(d) \in Nat
  OBVIOUS
<1>4. Heard(t, d, js) \in Seq(Nat)
  BY <1>2, <1>3, SeqDef
<1>5. QED
  BY <1>2, <1>3, <1>4, LenProperties

\* As long as a job is unresolved nothing behind it is stitched.
LEMMA ReadyAreResolved ==
  ASSUME NEW d \in Seq(Nat \ {0})
  PROVE  /\ Transcriptions!Ready(d) \in 0 .. Len(d)
         /\ \A i \in 1 .. Transcriptions!Ready(d) : Transcriptions!Resolved(d[i])
<1> DEFINE pending == {i \in DOMAIN d : ~Transcriptions!Resolved(d[i])}
           r == Transcriptions!Ready(d)
<1>1. Len(d) \in Nat /\ DOMAIN d = 1 .. Len(d) /\ pending \subseteq 1 .. Len(d)
  OBVIOUS
<1>2. r = IF pending = {} THEN Len(d) ELSE Transcriptions!First(pending) - 1
  BY Zenon DEF Transcriptions!Ready
<1>3. CASE pending = {}
  <2>1. r = Len(d)
    BY <1>2, <1>3
  <2>2. \A i \in DOMAIN d : Transcriptions!Resolved(d[i])
    BY <1>3
  <2>3. QED  BY <1>1, <2>1, <2>2
<1>4. CASE pending # {}
  <2> DEFINE f == Transcriptions!First(pending)
  <2>1. f \in pending /\ \A i \in pending : f <= i
    <3>1. pending \subseteq Nat
      BY <1>1
    <3>2. QED  BY <1>4, <3>1, FirstIsLeast
  <2>2. f \in 1 .. Len(d) /\ r = f - 1
    BY <1>1, <1>2, <1>4, <2>1
  <2> HIDE DEF f, r
  <2>3. r \in 0 .. Len(d)
    BY <1>1, <2>2
  <2>4. ASSUME NEW i \in 1 .. r
        PROVE  Transcriptions!Resolved(d[i])
    <3>1. i \in DOMAIN d /\ ~(f <= i)
      BY <1>1, <2>2, <2>4
    <3>2. i \notin pending
      BY <2>1, <3>1
    <3>3. QED  BY <3>1, <3>2
  <2>5. QED  BY <2>3, <2>4 DEF r
<1>5. QED  BY <1>3, <1>4

\* The next group.
LEMMA NextGroup ==
  ASSUME NEW k \in Transcriptions!Call, k.group \in 1 .. Len(Groups)
  PROVE  LET a == Transcriptions!AfterGroup(k)
         IN  /\ a \in Transcriptions!Call
             /\ a.group = k.group + 1 /\ a.window = k.window + Groups[k.group]
             /\ a.transcript = k.transcript /\ a.decJobs = k.decJobs
             /\ a.at = IF k.group < Len(Groups) THEN "groups" ELSE "finishing"
<1>1. Groups[k.group] \in Nat \ {0} /\ Len(Groups) \in Nat
  BY PlaygroundConstants DEF Transcriptions!TranscriptionConstants
<1>2. k.group + 1 \in Nat \ {0} /\ k.window + Groups[k.group] \in Nat \ {0}
  BY <1>1 DEF Transcriptions!Call
<1>3. QED
  BY <1>2 DEF Transcriptions!Call, Transcriptions!AfterGroup

\* A call that has posted a whole group is in place for the next one.
LEMMA NextGroupInPlace ==
  ASSUME NEW k, NEW k2, NEW js, NEW js2,
         k.at = "groups", InPlace(k, js),
         k2.group = k.group + 1, k2.window = k.window + Groups[k.group],
         k2.at = IF k.group < Len(Groups) THEN "groups" ELSE "finishing",
         Enumerates(Heard(k2.transcript, k2.decJobs, js2), Transcriptions!Before[k.group] + 1)
  PROVE  InPlace(k2, js2)
<1>1. k.group \in 1 .. Len(Groups) /\ Len(Groups) \in Nat
  BY PlaygroundConstants DEF InPlace, Transcriptions!TranscriptionConstants
<1>2. Transcriptions!Before[k.group] = Transcriptions!Before[k.group - 1] + Groups[k.group]
      /\ Groups[k.group] \in Nat /\ Transcriptions!Before[k.group - 1] \in Nat
  BY <1>1, BeforeIsSum
<1>3. k2.window = Transcriptions!Before[k.group] + 1 /\ k.group = k2.group - 1
  BY <1>1, <1>2 DEF InPlace
<1>4. k2.group \in 1 .. Len(Groups) + 1 /\ (k2.at = "groups" => k2.group <= Len(Groups))
      /\ (k2.at = "finishing" => k2.group = Len(Groups) + 1) /\ k2.at \notin {"new", "done"}
  BY <1>1
<1>5. QED
  BY <1>3, <1>4 DEF InPlace

\* The inductive invariant of transcriptions: a promise resolves with the tokens of its own job, and
\* what a call has stitched and what it has queued are together its windows up to its group.
TranscriptInv ==
  /\ Transcriptions!TypeOK
  /\ \A j \in DOMAIN jobs : jobs[j].promise = "resolved" => jobs[j].result = j
  /\ \A c \in Calls : CallInv(c, call[c], jobs)

\* It holds of a pool with no jobs.
LEMMA TranscriptInit == Transcriptions!Init => TranscriptInv
<1> SUFFICES ASSUME Transcriptions!Init PROVE TranscriptInv
  OBVIOUS
<1>1. Transcriptions!TranscriptionConstants
  BY PlaygroundConstants
<1>2. Transcriptions!TypeOK
  <2>1. call \in [Calls -> Transcriptions!Call]
    BY DEF Transcriptions!Init, Transcriptions!Call
  <2>2. jobs = <<>> /\ jobs \in Seq(Transcriptions!Job) /\ waiting \subseteq DOMAIN jobs
    BY DEF Transcriptions!Init
  <2>3. inbox \in [Transcriptions!Workers -> SUBSET DOMAIN jobs]
    BY DEF Transcriptions!Init
  <2>4. replies \in [Transcriptions!Workers -> Seq([id : DOMAIN jobs, ok : BOOLEAN])]
    <3>1. replies = [w \in Transcriptions!Workers |-> <<>>]
      BY DEF Transcriptions!Init
    <3>2. <<>> \in Seq([id : DOMAIN jobs, ok : BOOLEAN])
      OBVIOUS
    <3>3. QED  BY <3>1, <3>2
  <2>5. disposed \in BOOLEAN /\ decodeFailures \in 0 .. MaxDecodeFailures
    <3>1. disposed = FALSE /\ decodeFailures = MaxDecodeFailures
      BY DEF Transcriptions!Init
    <3>2. MaxDecodeFailures \in Nat
      BY <1>1 DEF Transcriptions!TranscriptionConstants
    <3>3. disposed \in BOOLEAN
      BY <3>1
    <3>4. decodeFailures \in 0 .. MaxDecodeFailures
      BY <3>1, <3>2
    <3>5. QED  BY <3>3, <3>4
  <2>6. QED
    BY <2>1, <2>2, <2>3, <2>4, <2>5 DEF Transcriptions!TypeOK
<1>3. ASSUME NEW c \in Calls
      PROVE  CallInv(c, call[c], jobs)
  <2>1. /\ call[c].transcript = <<>> /\ call[c].decJobs = <<>> /\ call[c].group = 1
        /\ call[c].window = 1 /\ call[c].at = "new"
    BY DEF Transcriptions!Init
  <2>2. Len(Groups) \in Nat /\ 1 <= Len(Groups)
    BY <1>1 DEF Transcriptions!TranscriptionConstants
  <2>3. Transcriptions!Before[0] = 0 /\ Transcriptions!Spoken \subseteq Nat \ {0}
    <3>1. Transcriptions!LastWindow \in Nat
      BY <2>2, BeforeIsSum DEF Transcriptions!LastWindow
    <3>2. QED  BY <3>1, BeforeIsSum DEF Transcriptions!Spoken
  <2>4. DOMAIN Heard(<<>>, <<>>, jobs) = {}
    BY DEF Heard
  <2>5. Enumerates(Heard(<<>>, <<>>, jobs), 1)
    BY <2>3, <2>4 DEF Enumerates
  <2>6. QED  BY <2>1, <2>2, <2>3, <2>5 DEF CallInv, OwnJobs, InPlace
<1>4. QED
  BY <1>2, <1>3 DEF TranscriptInv, Transcriptions!Init

\* A step that leaves the jobs' calls and windows, and the calls but c.
LEMMA OneCallSteps ==
  ASSUME TranscriptInv, NEW c \in Calls, Transcriptions!TypeOK',
         SameJobs(jobs, jobs'),
         \A j \in DOMAIN jobs' : jobs'[j].promise = "resolved" => jobs'[j].result = j,
         \A d \in Calls \ {c} : call'[d] = call[d],
         CallInv(c, call'[c], jobs')
  PROVE  TranscriptInv'
<1>1. ASSUME NEW d \in Calls, d # c
      PROVE  CallInv(d, call'[d], jobs')
  <2>1. call[d] \in Transcriptions!Call /\ CallInv(d, call[d], jobs) /\ call'[d] = call[d]
    BY <1>1 DEF TranscriptInv, Transcriptions!TypeOK
  <2>2. QED  BY <2>1, OtherCallsStay
<1>2. QED
  BY <1>1 DEF TranscriptInv

\* A step of the pool alone.
LEMMA NoCallSteps ==
  ASSUME TranscriptInv, Transcriptions!TypeOK',
         SameJobs(jobs, jobs'), call' = call,
         \A j \in DOMAIN jobs' : jobs'[j].promise = "resolved" => jobs'[j].result = j
  PROVE  TranscriptInv'
<1>1. ASSUME NEW d \in Calls
      PROVE  CallInv(d, call'[d], jobs')
  <2>1. call[d] \in Transcriptions!Call /\ CallInv(d, call[d], jobs) /\ call'[d] = call[d]
    BY DEF TranscriptInv, Transcriptions!TypeOK
  <2>2. QED  BY <2>1, OtherCallsStay
<1>2. QED
  BY <1>1 DEF TranscriptInv

\* A call that only goes on to another place.
LEMMA CallMoves ==
  ASSUME TranscriptInv, NEW c \in Calls, NEW at \in {"groups", "done", "failed"},
         call' = [call EXCEPT ![c].at = at],
         UNCHANGED <<jobs, waiting, inbox, replies, disposed>>,
         decodeFailures' \in 0 .. MaxDecodeFailures,
         at = "groups" => call[c].at = "new",
         at = "done" => call[c].at = "finishing" /\ call[c].decJobs = <<>>
  PROVE  TranscriptInv'
<1>1. /\ call[c] \in Transcriptions!Call /\ CallInv(c, call[c], jobs)
      /\ call'[c] = [call[c] EXCEPT !.at = at]
      /\ \A d \in Calls \ {c} : call'[d] = call[d]
      /\ call' \in [Calls -> Transcriptions!Call]
  BY DEF TranscriptInv, Transcriptions!TypeOK, Transcriptions!Call
<1>2. Transcriptions!TypeOK'
  BY <1>1 DEF TranscriptInv, Transcriptions!TypeOK, Transcriptions!Workers
<1>3. CallInv(c, call'[c], jobs')
  BY <1>1 DEF CallInv, InPlace, Transcriptions!Call
<1>4. QED
  BY <1>1, <1>2, <1>3, OneCallSteps DEF SameJobs, TranscriptInv

\* A silent group posts nothing; no window of it will be in the transcript.
LEMMA SkipKeeps ==
  ASSUME TranscriptInv, NEW c \in Calls, Transcriptions!Skip(c)
  PROVE  TranscriptInv'
<1> DEFINE k == call[c]
           k2 == call'[c]
<1>1. /\ k \in Transcriptions!Call /\ CallInv(c, k, jobs)
      /\ k.at = "groups" /\ k.group \in Silent /\ jobs' = jobs
      /\ k.group \in 1 .. Len(Groups)
  BY PlaygroundConstants
  DEF TranscriptInv, Transcriptions!TypeOK, Transcriptions!Skip, Transcriptions!poolVars,
    CallInv, InPlace, Transcriptions!TranscriptionConstants
<1>2. /\ k2 = Transcriptions!AfterGroup(k)
      /\ \A d \in Calls \ {c} : call'[d] = call[d]
      /\ call' = [call EXCEPT ![c] = Transcriptions!AfterGroup(@)]
  BY DEF TranscriptInv, Transcriptions!TypeOK, Transcriptions!Skip
<1>3. /\ k2 \in Transcriptions!Call
      /\ k2.group = k.group + 1 /\ k2.window = k.window + Groups[k.group]
      /\ k2.transcript = k.transcript /\ k2.decJobs = k.decJobs
      /\ k2.at = IF k.group < Len(Groups) THEN "groups" ELSE "finishing"
  BY <1>1, <1>2, NextGroup
<1>4. Transcriptions!TypeOK'
  BY <1>2, <1>3
  DEF TranscriptInv, Transcriptions!TypeOK, Transcriptions!Skip, Transcriptions!poolVars,
    Transcriptions!Workers
<1>5. Enumerates(Heard(k2.transcript, k2.decJobs, jobs), Transcriptions!Before[k.group] + 1)
  <2> DEFINE h == Heard(k.transcript, k.decJobs, jobs)
  <2>1. Enumerates(h, Transcriptions!Before[k.group - 1] + 1)
    BY <1>1 DEF CallInv, InPlace
  <2>2. h \in Seq(Nat) /\ Len(h) + 0 = Len(h)
    BY <1>1, HeardIsSeq DEF CallInv, TranscriptInv, Transcriptions!TypeOK, Transcriptions!Call
  <2> HIDE DEF h
  <2>3. \A i \in 1 .. 0 : h[Len(h) + i] = Transcriptions!Before[k.group - 1] + i
    OBVIOUS
  <2>4. Enumerates(h, Transcriptions!Before[k.group] + 1)
    BY <1>1, <2>1, <2>2, <2>3, EnumeratesNext
  <2>5. QED  BY <1>3, <2>4 DEF h
<1>6. CallInv(c, k2, jobs)
  <2>1. InPlace(k2, jobs)
    BY <1>1, <1>3, <1>5, NextGroupInPlace DEF CallInv
  <2>2. QED  BY <1>1, <1>3, <2>1 DEF CallInv
<1>7. QED
  BY <1>1, <1>2, <1>4, <1>6, OneCallSteps DEF SameJobs, TranscriptInv

\* finish() stitches the job whose promise has resolved, the first it has queued.
LEMMA FinishOneKeeps ==
  ASSUME TranscriptInv, NEW c \in Calls, Transcriptions!FinishOne(c)
  PROVE  TranscriptInv'
<1> DEFINE k == call[c]
           t == k.transcript
           d == k.decJobs
           j == Head(d)
           t2 == t \o [i \in 1 .. 1 |-> [window |-> jobs[j].window, result |-> jobs[j].result]]
           k2 == [k EXCEPT !.transcript = t2, !.decJobs = Tail(d)]
<1>1. /\ k \in Transcriptions!Call /\ CallInv(c, k, jobs) /\ OwnJobs(c, t, d, jobs)
      /\ t \in Seq(Transcriptions!Stitched) /\ d \in Seq(Nat \ {0})
      /\ k.at = "finishing" /\ d # <<>> /\ jobs' = jobs /\ jobs \in Seq(Transcriptions!Job)
      /\ Transcriptions!Resolved(j)
  BY DEF TranscriptInv, Transcriptions!TypeOK, Transcriptions!FinishOne, Transcriptions!poolVars,
    CallInv, Transcriptions!Call
<1>2. 1 \in DOMAIN d /\ j = d[1] /\ j \in DOMAIN jobs /\ jobs[j] \in Transcriptions!Job
      /\ jobs[j].result = j /\ j \in Nat
  <2>1. 1 \in DOMAIN d /\ j = d[1]
    BY <1>1
  <2>2. j \in DOMAIN jobs
    BY <1>1, <2>1 DEF OwnJobs
  <2>3. jobs[j] \in Transcriptions!Job /\ j \in Nat
    BY <1>1, <2>2
  <2>4. jobs[j].result = j
    BY <1>1, <2>2 DEF TranscriptInv, Transcriptions!Resolved
  <2>5. QED  BY <2>1, <2>2, <2>3, <2>4
<1>3. /\ t2 \in Seq(Transcriptions!Stitched) /\ Len(t2) = Len(t) + 1
      /\ \A i \in 1 .. Len(t) : t2[i] = t[i]
      /\ t2[Len(t) + 1] = [window |-> jobs[j].window, result |-> j]
  <2> DEFINE s == [window |-> jobs[j].window, result |-> jobs[j].result]
             one == [i \in 1 .. 1 |-> s]
  <2>1. s \in Transcriptions!Stitched
    BY <1>2 DEF Transcriptions!Stitched, Transcriptions!Job
  <2> HIDE DEF s
  <2>2. one \in Seq(Transcriptions!Stitched) /\ Len(one) = 1 /\ one[1] = s
    BY <2>1, SeqDef
  <2> HIDE DEF one
  <2>3. t2 = t \o one
    BY DEF one, s
  <2>4. QED  BY <1>1, <1>2, <2>2, <2>3 DEF s
<1>4. /\ Tail(d) \in Seq(Nat \ {0}) /\ Len(Tail(d)) = Len(d) - 1
      /\ \A i \in 1 .. Len(d) - 1 : Tail(d)[i] = d[1 + i]
  BY <1>1
<1> HIDE DEF t2
<1>5. /\ k2 \in Transcriptions!Call /\ k2.transcript = t2 /\ k2.decJobs = Tail(d)
      /\ k2.at = "finishing" /\ k2.group = k.group /\ k2.window = k.window
  BY <1>1, <1>3, <1>4 DEF Transcriptions!Call
<1>6. call' = [call EXCEPT ![c] = k2]
  <2>1. t2 = Transcriptions!StitchAll(t, <<j>>)
    BY DEF t2, Transcriptions!StitchAll
  <2>2. QED  BY <2>1 DEF TranscriptInv, Transcriptions!TypeOK, Transcriptions!FinishOne
<1> HIDE DEF k2
<1>7. call'[c] = k2 /\ \A e \in Calls \ {c} : call'[e] = call[e]
  BY <1>6 DEF TranscriptInv, Transcriptions!TypeOK
<1>8. Transcriptions!TypeOK'
  BY <1>5, <1>6
  DEF TranscriptInv, Transcriptions!TypeOK, Transcriptions!FinishOne, Transcriptions!poolVars,
    Transcriptions!Workers
<1>9. /\ OwnJobs(c, t2, Tail(d), jobs)
      /\ DOMAIN Heard(t2, Tail(d), jobs) = DOMAIN Heard(t, d, jobs)
      /\ \A i \in DOMAIN Heard(t, d, jobs) : Heard(t2, Tail(d), jobs)[i] = Heard(t, d, jobs)[i]
  <2> DEFINE rest == Tail(d)
             none == <<>>
  <2>1. /\ t \in Seq(Transcriptions!Stitched) /\ d \in Seq(Nat \ {0})
        /\ t2 \in Seq(Transcriptions!Stitched) /\ rest \in Seq(Nat \ {0})
        /\ none \in Seq(Nat \ {0}) /\ Len(none) = 0 /\ 1 \in 0 .. Len(d)
    BY <1>1, <1>3, <1>4
  <2>2. Stitches(t, d, jobs, 1, none, t2, rest)
    BY <1>1, <1>2, <1>3, <1>4 DEF Stitches
  <2>3. OwnJobs(c, t, d, jobs) /\ OwnJobs(c, <<>>, none, jobs) /\ SameJobs(jobs, jobs)
    BY <1>1 DEF OwnJobs, SameJobs
  <2>4. Len(t) + Len(d) + Len(none) = Len(t) + Len(d)
    BY <2>1
  <2> HIDE DEF t, d, rest, none
  <2>5. /\ OwnJobs(c, t2, rest, jobs)
        /\ DOMAIN Heard(t, d, jobs) = 1 .. Len(t) + Len(d)
        /\ DOMAIN Heard(t2, rest, jobs) = 1 .. Len(t) + Len(d) + Len(none)
        /\ \A i \in DOMAIN Heard(t, d, jobs) : Heard(t2, rest, jobs)[i] = Heard(t, d, jobs)[i]
    <3>1. StitchesOwn(c, t, d, jobs, 1, none, t2, rest, jobs)
      BY <2>1, <2>2, <2>3, Zenon DEF StitchesOwn
    <3>2. QED  BY <3>1, StitchingKeeps
  <2>6. QED
    BY <2>4, <2>5 DEF rest
<1>10. CallInv(c, k2, jobs)
  <2>1. Heard(t2, Tail(d), jobs) = Heard(t, d, jobs)
    BY <1>9 DEF Heard
  <2>2. QED  BY <1>1, <1>5, <1>9, <2>1 DEF CallInv, InPlace
<1>11. QED
  BY <1>1, <1>7, <1>8, <1>10, OneCallSteps DEF SameJobs, TranscriptInv

\* A worker decodes the oldest job of its inbox.
LEMMA DecodeKeeps ==
  ASSUME TranscriptInv, NEW w \in Transcriptions!Workers, Transcriptions!Decode(w)
  PROVE  TranscriptInv'
<1>1. jobs \in Seq(Transcriptions!Job) /\ jobs' = jobs /\ call' = call
  BY DEF TranscriptInv, Transcriptions!TypeOK, Transcriptions!Decode
<1>2. Transcriptions!First(inbox[w]) \in DOMAIN jobs
  <2>1. inbox[w] \subseteq DOMAIN jobs /\ inbox[w] # {} /\ DOMAIN jobs \subseteq Nat
    BY <1>1 DEF TranscriptInv, Transcriptions!TypeOK, Transcriptions!Decode
  <2>2. QED  BY <2>1, FirstIsLeast
<1>3. Transcriptions!TypeOK'
  <2>1. PICK ok \in BOOLEAN :
          /\ decodeFailures' = IF ok THEN decodeFailures ELSE decodeFailures - 1
          /\ ok \/ decodeFailures > 0
          /\ replies' = [replies EXCEPT ![w] =
                           Append(@, [id |-> Transcriptions!First(inbox[w]), ok |-> ok])]
    BY DEF Transcriptions!Decode
  <2>2. decodeFailures' \in 0 .. MaxDecodeFailures
    BY <2>1, PlaygroundConstants
    DEF TranscriptInv, Transcriptions!TypeOK, Transcriptions!TranscriptionConstants
  <2>3. replies' \in [Transcriptions!Workers -> Seq([id : DOMAIN jobs, ok : BOOLEAN])]
    <3> DEFINE m == [id |-> Transcriptions!First(inbox[w]), ok |-> ok]
               Answer == [id : DOMAIN jobs, ok : BOOLEAN]
    <3>1. m \in Answer
      BY <1>2, Zenon
    <3>2. replies \in [Transcriptions!Workers -> Seq(Answer)]
      BY DEF TranscriptInv, Transcriptions!TypeOK
    <3>3. replies' = [replies EXCEPT ![w] = Append(@, m)]
      BY <2>1
    <3> HIDE DEF m, Answer
    <3>4. replies' \in [Transcriptions!Workers -> Seq(Answer)]
      BY <3>1, <3>2, <3>3
    <3>5. QED  BY <3>4 DEF Answer
  <2>4. inbox' \in [Transcriptions!Workers -> SUBSET DOMAIN jobs]
    BY DEF TranscriptInv, Transcriptions!TypeOK, Transcriptions!Decode
  <2>5. QED
    BY <1>1, <2>2, <2>3, <2>4
    DEF TranscriptInv, Transcriptions!TypeOK, Transcriptions!Decode, Transcriptions!Workers
<1>4. QED
  BY <1>1, <1>3, NoCallSteps DEF SameJobs, TranscriptInv

\* The page settles the promise the answer belongs to.
LEMMA ReplyKeeps ==
  ASSUME TranscriptInv, NEW w \in Transcriptions!Workers, Transcriptions!Reply(w)
  PROVE  TranscriptInv'
<1> DEFINE m == Head(replies[w])
           Answer == [id : DOMAIN jobs, ok : BOOLEAN]
<1>1. /\ jobs \in Seq(Transcriptions!Job) /\ call' = call /\ replies[w] \in Seq(Answer)
      /\ replies[w] # <<>> /\ replies' = [replies EXCEPT ![w] = Tail(@)]
      /\ inbox' = inbox /\ disposed' = disposed /\ decodeFailures' = decodeFailures
      /\ waiting \subseteq DOMAIN jobs
  BY DEF TranscriptInv, Transcriptions!TypeOK, Transcriptions!Reply
<1>2. m \in Answer
  <2> HIDE DEF Answer
  <2>1. QED  BY <1>1
<1>3. replies' \in [Transcriptions!Workers -> Seq(Answer)]
  <2>1. Tail(replies[w]) \in Seq(Answer)
    BY <1>1
  <2>2. QED  BY <1>1, <2>1 DEF TranscriptInv, Transcriptions!TypeOK
<1>4. CASE UNCHANGED <<waiting, jobs>>
  <2>1. Transcriptions!TypeOK'
    BY <1>1, <1>3, <1>4 DEF TranscriptInv, Transcriptions!TypeOK, Transcriptions!Workers
  <2>2. QED
    BY <1>1, <1>4, <2>1, NoCallSteps DEF SameJobs, TranscriptInv
<1>5. CASE Transcriptions!Settle(m, m.id)
  <2> DEFINE j == m.id
             p == IF m.ok THEN "resolved" ELSE "rejected"
             r == IF m.ok THEN j ELSE 0
  <2>1. /\ waiting' = waiting \ {j}
        /\ jobs' = [jobs EXCEPT ![j].promise = p, ![j].result = r]
    BY <1>5 DEF Transcriptions!Settle
  <2>2. j \in DOMAIN jobs /\ j \in Nat
    BY <1>1, <1>2
  <2>3. p \in {"resolved", "rejected"} /\ r \in Nat /\ (p = "resolved" => r = j)
    BY <2>2
  <2> HIDE DEF p, r
  <2>4. /\ DOMAIN jobs' = DOMAIN jobs
        /\ \A i \in DOMAIN jobs : i # j => jobs'[i] = jobs[i]
        /\ jobs'[j] = [jobs[j] EXCEPT !.promise = p, !.result = r]
    BY <2>1, <2>2
  <2>5. jobs[j] \in Transcriptions!Job
    BY <1>1, <2>2
  <2>6. /\ jobs'[j] \in Transcriptions!Job /\ jobs'[j].promise = p /\ jobs'[j].result = r
        /\ jobs'[j].call = jobs[j].call /\ jobs'[j].window = jobs[j].window
    BY <2>3, <2>4, <2>5 DEF Transcriptions!Job
  <2>7. jobs' \in Seq(Transcriptions!Job)
    <3>1. jobs' = [jobs EXCEPT ![j] = jobs'[j]]
      BY <2>1, <2>4
    <3>2. QED  BY <1>1, <2>6, <3>1
  <2>8. Transcriptions!TypeOK'
    BY <1>1, <1>3, <2>1, <2>4, <2>7 DEF TranscriptInv, Transcriptions!TypeOK, Transcriptions!Workers
  <2>9. SameJobs(jobs, jobs')
    BY <2>4, <2>6 DEF SameJobs
  <2>10. \A i \in DOMAIN jobs' : jobs'[i].promise = "resolved" => jobs'[i].result = i
    BY <2>3, <2>4, <2>6 DEF TranscriptInv
  <2>11. QED  BY <1>1, <2>8, <2>9, <2>10, NoCallSteps
<1>6. QED
  BY <1>4, <1>5 DEF Transcriptions!Reply, Transcriptions!SettleOwn

\* A worker error rejects what is pending and resolves nothing.
LEMMA WorkerErrorKeeps ==
  ASSUME TranscriptInv, Transcriptions!WorkerError
  PROVE  TranscriptInv'
<1>1. /\ jobs \in Seq(Transcriptions!Job) /\ waiting' = {}
      /\ jobs' = [j \in DOMAIN jobs |->
                    IF j \in waiting THEN [jobs[j] EXCEPT !.promise = "rejected"] ELSE jobs[j]]
      /\ UNCHANGED <<call, inbox, replies, disposed>>
  BY DEF TranscriptInv, Transcriptions!TypeOK, Transcriptions!WorkerError
<1>2. decodeFailures' \in 0 .. MaxDecodeFailures
  BY PlaygroundConstants
  DEF TranscriptInv, Transcriptions!TypeOK, Transcriptions!WorkerError,
    Transcriptions!TranscriptionConstants
<1>3. DOMAIN jobs' = DOMAIN jobs
  BY <1>1
<1>4. ASSUME NEW j \in DOMAIN jobs
      PROVE  /\ jobs'[j] \in Transcriptions!Job
             /\ jobs'[j].call = jobs[j].call /\ jobs'[j].window = jobs[j].window
             /\ jobs'[j].promise = "resolved" => jobs'[j].result = j
  <2>1. jobs[j] \in Transcriptions!Job /\ (jobs[j].promise = "resolved" => jobs[j].result = j)
    BY <1>1 DEF TranscriptInv
  <2>2. QED  BY <1>1, <2>1 DEF Transcriptions!Job
<1>5. jobs' \in Seq(Transcriptions!Job)
  <2>1. DOMAIN jobs = 1 .. Len(jobs) /\ Len(jobs) \in Nat
    BY <1>1
  <2>2. jobs' \in [1 .. Len(jobs) -> Transcriptions!Job]
    BY <1>1, <1>4, <2>1
  <2>3. QED  BY <2>1, <2>2, SeqDef
<1>6. Transcriptions!TypeOK'
  BY <1>1, <1>2, <1>3, <1>5 DEF TranscriptInv, Transcriptions!TypeOK, Transcriptions!Workers
<1>7. SameJobs(jobs, jobs')
  BY <1>3, <1>4 DEF SameJobs
<1>8. QED
  BY <1>1, <1>3, <1>4, <1>6, <1>7, NoCallSteps

\* dispose() leaves promises and transcripts alone.
LEMMA DisposeKeeps ==
  ASSUME TranscriptInv, Transcriptions!Dispose
  PROVE  TranscriptInv'
<1>1. /\ UNCHANGED <<call, jobs, waiting, decodeFailures>> /\ disposed' = TRUE
      /\ inbox' = [w \in Transcriptions!Workers |-> {}]
      /\ replies' = [w \in Transcriptions!Workers |-> <<>>]
  BY DEF Transcriptions!Dispose
<1>2. inbox' \in [Transcriptions!Workers -> SUBSET DOMAIN jobs]
  BY <1>1
<1>3. replies' \in [Transcriptions!Workers -> Seq([id : DOMAIN jobs, ok : BOOLEAN])]
  <2>1. <<>> \in Seq([id : DOMAIN jobs, ok : BOOLEAN])
    OBVIOUS
  <2>2. QED  BY <1>1, <2>1
<1>4. Transcriptions!TypeOK'
  BY <1>1, <1>2, <1>3 DEF TranscriptInv, Transcriptions!TypeOK, Transcriptions!Workers
<1>5. QED
  BY <1>1, <1>4, NoCallSteps DEF SameJobs, TranscriptInv

\* A step of another part of the playground.
LEMMA StutterKeeps ==
  ASSUME TranscriptInv, UNCHANGED transcriptionVars
  PROVE  TranscriptInv'
<1>1. UNCHANGED <<call, jobs, waiting, inbox, replies, disposed, decodeFailures>>
  BY DEF transcriptionVars
<1>2. Transcriptions!TypeOK'
  BY <1>1 DEF TranscriptInv, Transcriptions!TypeOK, Transcriptions!Workers
<1>3. QED
  BY <1>1, <1>2, NoCallSteps DEF SameJobs, TranscriptInv

\* Sequences: a function on 1..n, a concatenation, a suffix.
LEMMA FunctionIsSeq ==
  ASSUME NEW S, NEW n \in Nat, NEW f \in [1 .. n -> S]
  PROVE  f \in Seq(S) /\ Len(f) = n
BY SeqDef

\* The elements of a concatenation.
LEMMA ConcatOfSeqs ==
  ASSUME NEW S, NEW s \in Seq(S), NEW u \in Seq(S)
  PROVE  /\ s \o u \in Seq(S) /\ Len(s \o u) = Len(s) + Len(u)
         /\ \A i \in 1 .. Len(s) : (s \o u)[i] = s[i]
         /\ \A i \in 1 .. Len(u) : (s \o u)[Len(s) + i] = u[i]
OBVIOUS

\* The elements of a part of a sequence.
LEMMA SliceOfSeq ==
  ASSUME NEW S, NEW s \in Seq(S), NEW n \in Nat, n = Len(s), NEW r \in Nat, r <= n
  PROVE  /\ SubSeq(s, r + 1, n) \in Seq(S) /\ Len(SubSeq(s, r + 1, n)) = n - r
         /\ \A i \in 1 .. n - r : SubSeq(s, r + 1, n)[i] = s[r + i]
<1>1. \A i \in r + 1 .. n : s[i] \in S
  OBVIOUS
<1>2. /\ SubSeq(s, r + 1, n) \in Seq(S)
      /\ Len(SubSeq(s, r + 1, n)) = IF r + 1 <= n THEN n - (r + 1) + 1 ELSE 0
      /\ \A i \in 1 .. n - (r + 1) + 1 : SubSeq(s, r + 1, n)[i] = s[(r + 1) + i - 1]
  <2>1. r + 1 \in Int /\ n \in Int
    OBVIOUS
  <2>2. QED  BY <1>1, <2>1, SubSeqProperties
<1>3. n - (r + 1) + 1 = n - r /\ \A i \in Nat : (r + 1) + i - 1 = r + i
  OBVIOUS
<1>4. Len(SubSeq(s, r + 1, n)) = n - r
  BY <1>2
<1>5. ASSUME NEW i \in 1 .. n - r
      PROVE  SubSeq(s, r + 1, n)[i] = s[r + i]
  BY <1>2, <1>3
<1>6. QED  BY <1>2, <1>4, <1>5

\* What the sink does to its queue and to the transcript.
QueueIs(q, d, more, r) ==
  /\ {d, more} \subseteq Seq(Nat \ {0}) /\ r \in 0 .. Len(d)
  /\ q = SubSeq(d \o more, r + 1, Len(d \o more))

\* The transcript after the first r of the queued jobs are stitched.
TranscriptIs(t2, t, d, more, r) ==
  /\ t \in Seq(Transcriptions!Stitched) /\ {d, more} \subseteq Seq(Nat \ {0}) /\ r \in 0 .. Len(d)
  /\ jobs \in Seq(Transcriptions!Job) /\ \A i \in DOMAIN d : d[i] \in DOMAIN jobs
  /\ \A i \in 1 .. r : jobs[d[i]].result = d[i]
  /\ t2 = Transcriptions!StitchAll(t, SubSeq(d \o more, 1, r))

\* The queue is a sequence of jobs, those past the r-th.
LEMMA QueueAfter ==
  ASSUME NEW d, NEW more, NEW r, NEW q, QueueIs(q, d, more, r)
  PROVE  /\ q \in Seq(Nat \ {0}) /\ Len(q) = Len(d) - r + Len(more)
         /\ \A i \in 1 .. Len(d) - r : q[i] = d[r + i]
         /\ \A i \in 1 .. Len(more) : q[Len(d) - r + i] = more[i]
<1> /\ d \in Seq(Nat \ {0}) /\ more \in Seq(Nat \ {0}) /\ r \in 0 .. Len(d)
    /\ q = SubSeq(d \o more, r + 1, Len(d \o more))
  BY Zenon DEF QueueIs
<1> DEFINE all == d \o more
           nd == Len(d)
           nm == Len(more)
<1>1. /\ nd \in Nat /\ nm \in Nat /\ all \in Seq(Nat \ {0}) /\ Len(all) = nd + nm
      /\ r \in Nat /\ r <= nd
      /\ \A i \in 1 .. nd : all[i] = d[i]
      /\ \A i \in 1 .. nm : all[nd + i] = more[i]
  OBVIOUS
<1>2. /\ q \in Seq(Nat \ {0}) /\ Len(q) = nd - r + nm
      /\ \A i \in 1 .. nd - r + nm : q[i] = all[r + i]
  <2> DEFINE n == nd + nm
  <2>1. n \in Nat /\ n = Len(all) /\ r <= n /\ r \in Nat /\ all \in Seq(Nat \ {0})
    BY <1>1
  <2>2. q = SubSeq(all, r + 1, n)
    BY <1>1
  <2>3. n - r = nd - r + nm
    BY <1>1
  <2> HIDE DEF all, n, nd, nm
  <2>4. /\ SubSeq(all, r + 1, n) \in Seq(Nat \ {0}) /\ Len(SubSeq(all, r + 1, n)) = n - r
        /\ \A i \in 1 .. n - r : SubSeq(all, r + 1, n)[i] = all[r + i]
    <3> DEFINE S == Nat \ {0}
    <3>1. all \in Seq(S)
      BY <2>1
    <3> HIDE DEF S
    <3>2. /\ SubSeq(all, r + 1, n) \in Seq(S) /\ Len(SubSeq(all, r + 1, n)) = n - r
          /\ \A i \in 1 .. n - r : SubSeq(all, r + 1, n)[i] = all[r + i]
      BY <2>1, <3>1, SliceOfSeq
    <3>3. QED  BY <3>2 DEF S
  <2>5. QED
    BY <2>2, <2>3, <2>4
<1> HIDE DEF all, nd, nm
<1>4. ASSUME NEW i \in 1 .. nd - r
      PROVE  q[i] = d[r + i]
  <2>1. i \in 1 .. nd - r + nm /\ r + i \in 1 .. nd
    <3>1. i \in Nat /\ 1 <= i /\ i <= nd - r /\ nd \in Nat /\ nm \in Nat /\ r \in Nat
      BY <1>1
    <3>2. QED  BY <3>1
  <2>2. QED  BY <1>1, <1>2, <2>1
<1>5. ASSUME NEW i \in 1 .. nm
      PROVE  q[nd - r + i] = more[i]
  <2>1. nd - r + i \in 1 .. nd - r + nm /\ r + (nd - r + i) = nd + i
    BY <1>1
  <2>2. q[nd - r + i] = all[r + (nd - r + i)]
    BY <1>2, <2>1
  <2>3. QED  BY <1>1, <2>1, <2>2
<1>6. QED
  BY <1>2, <1>4, <1>5 DEF nd, nm

\* Each stitched entry carries the window of its job.
LEMMA TranscriptAfter ==
  ASSUME NEW t, NEW d, NEW more, NEW r, NEW t2, TranscriptIs(t2, t, d, more, r)
  PROVE  /\ t2 \in Seq(Transcriptions!Stitched) /\ Len(t2) = Len(t) + r
         /\ \A i \in 1 .. Len(t) : t2[i] = t[i]
         /\ \A i \in 1 .. r :
              t2[Len(t) + i].window = jobs[d[i]].window /\ t2[Len(t) + i].result = d[i]
<1> /\ t \in Seq(Transcriptions!Stitched) /\ d \in Seq(Nat \ {0}) /\ more \in Seq(Nat \ {0})
    /\ r \in 0 .. Len(d)
    /\ jobs \in Seq(Transcriptions!Job) /\ \A i \in DOMAIN d : d[i] \in DOMAIN jobs
    /\ \A i \in 1 .. r : jobs[d[i]].result = d[i]
  BY Zenon DEF TranscriptIs
<1>0. t2 = Transcriptions!StitchAll(t, SubSeq(d \o more, 1, r))
  BY Zenon DEF TranscriptIs
<1> DEFINE js == SubSeq(d \o more, 1, r)
           add == [i \in DOMAIN js |->
                     [window |-> jobs[js[i]].window, result |-> jobs[js[i]].result]]
<1>1. DOMAIN js = 1 .. r /\ \A i \in 1 .. r : js[i] = d[i]
  OBVIOUS
<1> HIDE DEF js
<1>2. DOMAIN add = 1 .. r /\ r \in Nat
  BY <1>1
<1>3. ASSUME NEW i \in 1 .. r
      PROVE  /\ add[i] \in Transcriptions!Stitched
             /\ add[i].window = jobs[d[i]].window /\ add[i].result = d[i]
  <2>1. i \in DOMAIN d /\ add[i] = [window |-> jobs[d[i]].window, result |-> d[i]]
    BY <1>1
  <2>2. jobs[d[i]] \in Transcriptions!Job /\ d[i] \in Nat
    BY <2>1
  <2>3. QED  BY <2>1, <2>2 DEF Transcriptions!Stitched, Transcriptions!Job
<1> HIDE DEF add
<1>4. add \in [1 .. r -> Transcriptions!Stitched]
  <2>1. add = [i \in 1 .. r |-> add[i]]
    BY <1>1 DEF add
  <2>2. QED  BY <1>3, <2>1
<1>5. add \in Seq(Transcriptions!Stitched) /\ Len(add) = r
  BY <1>2, <1>4, FunctionIsSeq
<1>6. t2 = t \o add
  <2>1. t2 = Transcriptions!StitchAll(t, js)
    BY <1>0, Zenon DEF js
  <2>2. QED
    BY <2>1, Zenon DEF add, Transcriptions!StitchAll
<1>7. /\ t2 \in Seq(Transcriptions!Stitched) /\ Len(t2) = Len(t) + r
      /\ \A i \in 1 .. Len(t) : t2[i] = t[i]
      /\ \A i \in 1 .. r : t2[Len(t) + i] = add[i]
  <2>1. /\ t \o add \in Seq(Transcriptions!Stitched) /\ Len(t \o add) = Len(t) + Len(add)
        /\ \A i \in 1 .. Len(t) + Len(add) :
             (t \o add)[i] = IF i <= Len(t) THEN t[i] ELSE add[i - Len(t)]
    BY <1>5, ConcatProperties
  <2>2. \A i \in 1 .. Len(t) : (t \o add)[i] = t[i]
    BY <1>5, <2>1
  <2>3. \A i \in 1 .. Len(add) : (t \o add)[Len(t) + i] = add[i]
    <3>1. TAKE i \in 1 .. Len(add)
    <3>2. Len(t) + i \in 1 .. Len(t) + Len(add) /\ ~(Len(t) + i <= Len(t)) /\ Len(t) + i - Len(t) = i
      BY <1>5
    <3>3. QED  BY <2>1, <3>2
  <2>4. QED  BY <1>5, <1>6, <2>1, <2>2, <2>3
<1>8. QED
  BY <1>3, <1>7

\* consumeFrames posts the group and stitches the queued jobs whose results have come.
LEMMA ConsumeFramesKeeps ==
  ASSUME TranscriptInv, NEW c \in Calls, Transcriptions!ConsumeFrames(c)
  PROVE  TranscriptInv'
<1> DEFINE k == call[c]
           t == k.transcript
           d == k.decJobs
           g == k.group
           n == Groups[g]
           first == Len(jobs) + 1
           more == [i \in 1 .. n |-> first + i - 1]
           r == Transcriptions!Ready(d)
           t2 == Transcriptions!StitchAll(t, SubSeq(d \o more, 1, r))
           d2 == SubSeq(d \o more, r + 1, Len(d \o more))
           a == Transcriptions!AfterGroup(k)
           k2 == [a EXCEPT !.decJobs = d2, !.transcript = t2]
           posted == Transcriptions!Posted(c, g)
           h == Heard(t, d, jobs)
           h2 == Heard(t2, d2, jobs')
<1>1. /\ k \in Transcriptions!Call /\ InPlace(k, jobs) /\ OwnJobs(c, t, d, jobs)
      /\ t \in Seq(Transcriptions!Stitched) /\ d \in Seq(Nat \ {0})
      /\ k.at = "groups" /\ g \notin Silent /\ jobs \in Seq(Transcriptions!Job)
      /\ \A j \in DOMAIN jobs : jobs[j].promise = "resolved" => jobs[j].result = j
  BY DEF TranscriptInv, Transcriptions!TypeOK, Transcriptions!ConsumeFrames,
    CallInv, Transcriptions!Call
<1>2. /\ g \in 1 .. Len(Groups) /\ n \in Nat \ {0} /\ k.window \in Nat \ {0}
      /\ k.window = Transcriptions!Before[g - 1] + 1 /\ Transcriptions!Before[g - 1] \in Nat
  <2>1. g \in 1 .. Len(Groups)
    BY <1>1, PlaygroundConstants DEF InPlace, Transcriptions!TranscriptionConstants
  <2>2. n \in Nat \ {0} /\ Transcriptions!Before[g - 1] \in Nat
    BY <2>1, GroupsPartWindows
  <2>3. QED  BY <1>1, <2>1, <2>2 DEF InPlace, Transcriptions!Call
<1>3. /\ jobs' = jobs \o posted
      /\ waiting' = waiting \union (first .. first + n - 1)
      /\ inbox' = Transcriptions!Deal(first .. first + n - 1)
      /\ call' = [call EXCEPT ![c] = k2]
      /\ UNCHANGED <<replies, disposed, decodeFailures>>
  <2>1. a.transcript = t
    BY <1>1, <1>2, NextGroup
  <2>2. call' = [call EXCEPT ![c] =
          [a EXCEPT !.decJobs = d2,
                    !.transcript = Transcriptions!StitchAll(@, SubSeq(d \o more, 1, r))]]
    BY DEF Transcriptions!ConsumeFrames
  <2>3. call' = [call EXCEPT ![c] = k2]
    BY <2>1, <2>2
  <2>4. QED  BY <2>3 DEF Transcriptions!ConsumeFrames
<1>4. /\ jobs' \in Seq(Transcriptions!Job) /\ DOMAIN jobs' = 1 .. Len(jobs) + n
      /\ \A i \in DOMAIN jobs : jobs'[i] = jobs[i]
      /\ \A i \in 1 .. n : jobs'[Len(jobs) + i] =
           [call |-> c, window |-> k.window + i - 1, promise |-> "pending", result |-> 0]
  <2>1. posted = [i \in 1 .. n |->
          [call |-> c, window |-> k.window + i - 1, promise |-> "pending", result |-> 0]]
    BY DEF Transcriptions!Posted
  <2>2. \A i \in 1 .. n :
          [call |-> c, window |-> k.window + i - 1, promise |-> "pending", result |-> 0]
            \in Transcriptions!Job
    BY <1>2 DEF Transcriptions!Job
  <2>3. posted \in [1 .. n -> Transcriptions!Job]
    BY <2>1, <2>2
  <2> HIDE DEF posted, n
  <2>4. posted \in Seq(Transcriptions!Job) /\ Len(posted) = n
    BY <1>2, <2>3, FunctionIsSeq
  <2>5. /\ jobs \o posted \in Seq(Transcriptions!Job) /\ Len(jobs \o posted) = Len(jobs) + n
        /\ \A i \in 1 .. Len(jobs) : (jobs \o posted)[i] = jobs[i]
        /\ \A i \in 1 .. n : (jobs \o posted)[Len(jobs) + i] = posted[i]
    <3>1. jobs \in Seq(Transcriptions!Job)
      BY <1>1
    <3>2. /\ jobs \o posted \in Seq(Transcriptions!Job)
          /\ Len(jobs \o posted) = Len(jobs) + Len(posted)
          /\ \A i \in 1 .. Len(jobs) : (jobs \o posted)[i] = jobs[i]
          /\ \A i \in 1 .. Len(posted) : (jobs \o posted)[Len(jobs) + i] = posted[i]
      <4> DEFINE S == Transcriptions!Job
      <4>1. jobs \in Seq(S) /\ posted \in Seq(S)
        BY <2>4, <3>1
      <4> HIDE DEF S
      <4>2. /\ jobs \o posted \in Seq(S)
            /\ Len(jobs \o posted) = Len(jobs) + Len(posted)
            /\ \A i \in 1 .. Len(jobs) : (jobs \o posted)[i] = jobs[i]
            /\ \A i \in 1 .. Len(posted) : (jobs \o posted)[Len(jobs) + i] = posted[i]
        BY <4>1, ConcatOfSeqs
      <4>3. QED  BY <4>2 DEF S
    <3>3. QED  BY <2>4, <3>2
  <2>6. /\ jobs' \in Seq(Transcriptions!Job) /\ DOMAIN jobs' = 1 .. Len(jobs) + n
        /\ \A i \in DOMAIN jobs : jobs'[i] = jobs[i]
    BY <1>1, <1>3, <2>5
  <2>7. \A i \in 1 .. n : posted[i] =
          [call |-> c, window |-> k.window + i - 1, promise |-> "pending", result |-> 0]
    BY <2>1
  <2>8. QED  BY <1>3, <2>5, <2>6, <2>7
<1>5. SameJobs(jobs, jobs') /\ DOMAIN jobs \subseteq DOMAIN jobs'
  <2>1. DOMAIN jobs = 1 .. Len(jobs) /\ Len(jobs) \in Nat
    BY <1>1
  <2>2. DOMAIN jobs \subseteq DOMAIN jobs'
    BY <1>2, <1>4, <2>1
  <2>3. QED  BY <1>4, <2>2 DEF SameJobs
<1>6. /\ more \in Seq(Nat \ {0}) /\ Len(more) = n
      /\ \A i \in 1 .. n : more[i] = Len(jobs) + i
  <2>1. more \in [1 .. n -> Nat \ {0}] /\ \A i \in 1 .. n : more[i] = Len(jobs) + i
    BY <1>1, <1>2
  <2>2. DOMAIN more = 1 .. n
    OBVIOUS
  <2> DEFINE Ids == Nat \ {0}
  <2>3. more \in [1 .. n -> Ids] /\ n \in Nat
    BY <1>2, <2>1
  <2> HIDE DEF more, n, Ids
  <2>4. more \in Seq(Ids) /\ Len(more) = n
    BY <2>3, FunctionIsSeq
  <2>5. QED  BY <2>1, <2>4 DEF Ids
<1> HIDE DEF more
<1>7. /\ r \in 0 .. Len(d)
      /\ \A i \in 1 .. r : jobs[d[i]].result = d[i]
  <2>1. r \in 0 .. Len(d) /\ \A i \in 1 .. r : Transcriptions!Resolved(d[i])
    BY <1>1, ReadyAreResolved
  <2>2. ASSUME NEW i \in 1 .. r
        PROVE  jobs[d[i]].result = d[i]
    <3>1. i \in DOMAIN d /\ jobs[d[i]].promise = "resolved"
      BY <1>1, <2>1 DEF Transcriptions!Resolved
    <3>2. QED  BY <1>1, <3>1 DEF OwnJobs
  <2>3. QED  BY <2>1, <2>2
<1> HIDE DEF r
<1>8. /\ t2 \in Seq(Transcriptions!Stitched) /\ Len(t2) = Len(t) + r
      /\ \A i \in 1 .. Len(t) : t2[i] = t[i]
      /\ \A i \in 1 .. r :
           t2[Len(t) + i].window = jobs[d[i]].window /\ t2[Len(t) + i].result = d[i]
  <2>1. \A i \in DOMAIN d : d[i] \in DOMAIN jobs
    BY <1>1 DEF OwnJobs
  <2>2. TranscriptIs(t2, t, d, more, r)
    BY <1>1, <1>6, <1>7, <2>1, Zenon DEF TranscriptIs
  <2> HIDE DEF t, d, t2
  <2>3. QED  BY <2>2, TranscriptAfter
<1>9. /\ d2 \in Seq(Nat \ {0}) /\ Len(d2) = Len(d) - r + Len(more)
      /\ \A i \in 1 .. Len(d) - r : d2[i] = d[r + i]
      /\ \A i \in 1 .. Len(more) : d2[Len(d) - r + i] = more[i]
  <2>1. QueueIs(d2, d, more, r)
    BY <1>1, <1>6, <1>7, Zenon DEF QueueIs
  <2> HIDE DEF t, d, d2
  <2>2. QED  BY <2>1, QueueAfter
<1> HIDE DEF t2, d2
<1>10. /\ OwnJobs(c, t2, d2, jobs')
       /\ DOMAIN h = 1 .. Len(t) + Len(d)
       /\ DOMAIN h2 = 1 .. Len(t) + Len(d) + n
       /\ \A i \in DOMAIN h : h2[i] = h[i]
       /\ \A i \in 1 .. n : h2[Len(t) + Len(d) + i] = Transcriptions!Before[g - 1] + i
  <2>1. Stitches(t, d, jobs, r, more, t2, d2)
    BY <1>8, <1>9 DEF Stitches
  <2>2. ASSUME NEW i \in 1 .. n
        PROVE  /\ more[i] \in DOMAIN jobs' /\ jobs'[more[i]].call = c
               /\ jobs'[more[i]].window = Transcriptions!Before[g - 1] + i
    <3>1. more[i] = Len(jobs) + i /\ more[i] \in 1 .. Len(jobs) + n
      BY <1>1, <1>2, <1>6
    <3>2. jobs'[more[i]] =
            [call |-> c, window |-> k.window + i - 1, promise |-> "pending", result |-> 0]
      BY <1>4, <3>1
    <3>3. k.window + i - 1 = Transcriptions!Before[g - 1] + i
      BY <1>2
    <3>4. QED  BY <1>4, <3>1, <3>2, <3>3
  <2>3. OwnJobs(c, <<>>, more, jobs')
    BY <1>6, <2>2 DEF OwnJobs
  <2>4. StitchesOwn(c, t, d, jobs, r, more, t2, d2, jobs')
    BY <1>1, <1>5, <1>6, <1>7, <1>8, <1>9, <2>1, <2>3, Zenon DEF StitchesOwn
  <2>5. /\ OwnJobs(c, t2, d2, jobs')
        /\ DOMAIN h = 1 .. Len(t) + Len(d)
        /\ DOMAIN h2 = 1 .. Len(t) + Len(d) + Len(more)
        /\ \A i \in DOMAIN h : h2[i] = h[i]
        /\ \A i \in 1 .. Len(more) : h2[Len(t) + Len(d) + i] = jobs'[more[i]].window
    <3> HIDE DEF t, d
    <3>1. QED  BY <2>4, StitchingKeeps
  <2>6. QED  BY <1>6, <2>2, <2>5
<1>11. /\ k2 \in Transcriptions!Call /\ k2.transcript = t2 /\ k2.decJobs = d2
       /\ k2.group = g + 1 /\ k2.window = k.window + n
       /\ k2.at = IF g < Len(Groups) THEN "groups" ELSE "finishing"
  <2>1. /\ a \in Transcriptions!Call /\ a.group = g + 1 /\ a.window = k.window + n
        /\ a.at = IF g < Len(Groups) THEN "groups" ELSE "finishing"
    BY <1>1, <1>2, NextGroup
  <2> HIDE DEF a
  <2>2. QED
    BY <1>8, <1>9, <2>1 DEF Transcriptions!Call
<1> HIDE DEF k2
<1>12. call'[c] = k2 /\ \A e \in Calls \ {c} : call'[e] = call[e]
  BY <1>3 DEF TranscriptInv, Transcriptions!TypeOK
<1>13. Transcriptions!TypeOK'
  <2>1. first .. first + n - 1 \subseteq DOMAIN jobs'
    BY <1>1, <1>2, <1>4
  <2>2. waiting' \subseteq DOMAIN jobs'
    BY <1>3, <1>5, <2>1 DEF TranscriptInv, Transcriptions!TypeOK
  <2>3. inbox' \in [Transcriptions!Workers -> SUBSET DOMAIN jobs']
    BY <1>3, <1>5, <2>1 DEF TranscriptInv, Transcriptions!TypeOK, Transcriptions!Deal
  <2>4. replies' \in [Transcriptions!Workers -> Seq([id : DOMAIN jobs', ok : BOOLEAN])]
    <3> DEFINE Answer == [id : DOMAIN jobs, ok : BOOLEAN]
               Answer2 == [id : DOMAIN jobs', ok : BOOLEAN]
    <3>1. Answer \subseteq Answer2
      BY <1>5
    <3>2. replies \in [Transcriptions!Workers -> Seq(Answer)]
      BY DEF TranscriptInv, Transcriptions!TypeOK
    <3> HIDE DEF Answer, Answer2
    <3>3. replies \in [Transcriptions!Workers -> Seq(Answer2)]
      <4>1. Seq(Answer) \subseteq Seq(Answer2)
        BY <3>1
      <4>2. QED  BY <3>2, <4>1
    <3>4. QED  BY <1>3, <3>3 DEF Answer2
  <2>5. call' \in [Calls -> Transcriptions!Call]
    BY <1>3, <1>11 DEF TranscriptInv, Transcriptions!TypeOK
  <2>6. QED
    BY <1>3, <1>4, <2>2, <2>3, <2>4, <2>5
    DEF TranscriptInv, Transcriptions!TypeOK, Transcriptions!Workers
<1>14. CallInv(c, k2, jobs')
  <2>1. h \in Seq(Nat) /\ Len(h) = Len(t) + Len(d)
    BY <1>1, HeardIsSeq
  <2>2. h2 \in Seq(Nat) /\ Len(h2) = Len(t2) + Len(d2)
    BY <1>4, <1>8, <1>9, <1>10, HeardIsSeq
  <2>3. Enumerates(h2, Transcriptions!Before[g] + 1)
    <3>1. Enumerates(h, Transcriptions!Before[g - 1] + 1)
      BY <1>1, <1>2 DEF InPlace
    <3>2. Len(h2) = Len(h) + n
      <4>1. /\ Len(t) \in Nat /\ Len(d) \in Nat /\ r \in Nat /\ n \in Nat
            /\ Len(t2) = Len(t) + r /\ Len(d2) = Len(d) - r + n
            /\ Len(h) = Len(t) + Len(d) /\ Len(h2) = Len(t2) + Len(d2)
        <5>1. Len(t) \in Nat /\ Len(d) \in Nat /\ n \in Nat
          BY <1>1, <1>2
        <5> HIDE DEF t, d, n, h, h2
        <5>2. r \in Nat
          BY <1>7, <5>1
        <5>3. QED  BY <1>6, <1>8, <1>9, <2>1, <2>2, <5>1, <5>2
      <4> HIDE DEF t, d, n, h, h2
      <4>2. QED  BY <4>1
    <3>3. /\ \A i \in 1 .. Len(h) : h2[i] = h[i]
          /\ \A i \in 1 .. n : h2[Len(h) + i] = Transcriptions!Before[g - 1] + i
      BY <1>10, <2>1
    <3> HIDE DEF h, h2, n
    <3>4. n \in Nat /\ n = IF g \in Silent THEN 0 ELSE Groups[g]
      BY <1>1, <1>2 DEF n
    <3>5. QED
      BY <1>2, <2>1, <2>2, <3>1, <3>2, <3>3, <3>4, EnumeratesNext
  <2>4. InPlace(k2, jobs')
    BY <1>1, <1>11, <2>3, NextGroupInPlace
  <2>5. QED  BY <1>10, <1>11, <2>4 DEF CallInv
<1>15. \A j \in DOMAIN jobs' : jobs'[j].promise = "resolved" => jobs'[j].result = j
  <2>1. TAKE j \in DOMAIN jobs'
  <2>2. CASE j \in DOMAIN jobs
    BY <1>1, <1>4, <2>2
  <2>3. CASE j \notin DOMAIN jobs
    <3>1. PICK i \in 1 .. n : j = Len(jobs) + i
      <4>1. j \in 1 .. Len(jobs) + n /\ j \notin 1 .. Len(jobs) /\ Len(jobs) \in Nat /\ n \in Nat
        BY <1>1, <1>2, <1>4, <2>3
      <4> HIDE DEF n
      <4>2. j - Len(jobs) \in 1 .. n /\ j = Len(jobs) + (j - Len(jobs))
        BY <4>1
      <4>3. QED  BY <4>2, Zenon
    <3>2. jobs'[j].promise = "pending"
      <4> HIDE DEF n, k
      <4>1. jobs'[Len(jobs) + i] =
              [call |-> c, window |-> k.window + i - 1, promise |-> "pending", result |-> 0]
        BY <1>4
      <4>2. QED  BY <3>1, <4>1
    <3>3. QED  BY <3>2
  <2>4. QED  BY <2>2, <2>3
<1>16. QED
  BY <1>5, <1>12, <1>13, <1>14, <1>15, OneCallSteps

\* Every step of the pipeline keeps the invariant.
LEMMA TranscriptStep == TranscriptInv /\ [Transcriptions!Next]_transcriptionVars => TranscriptInv'
<1> SUFFICES ASSUME TranscriptInv, [Transcriptions!Next]_transcriptionVars
             PROVE  TranscriptInv'
  OBVIOUS
<1>1. ASSUME NEW c \in Calls, Transcriptions!Start(c) PROVE TranscriptInv'
  BY <1>1, CallMoves DEF Transcriptions!Start, Transcriptions!poolVars, TranscriptInv, Transcriptions!TypeOK
<1>2. ASSUME NEW c \in Calls, Transcriptions!Advance(c) PROVE TranscriptInv'
  <2>1. CASE Transcriptions!Skip(c)
    BY <2>1, SkipKeeps
  <2>2. CASE Transcriptions!ConsumeFrames(c)
    BY <2>2, ConsumeFramesKeeps
  <2>3. CASE Transcriptions!ReadbackAborts(c)
    BY <2>3, CallMoves
    DEF Transcriptions!ReadbackAborts, Transcriptions!poolVars, TranscriptInv, Transcriptions!TypeOK
  <2>4. CASE Transcriptions!FinishOne(c)
    BY <2>4, FinishOneKeeps
  <2>5. CASE Transcriptions!Return(c)
    BY <2>5, CallMoves
    DEF Transcriptions!Return, Transcriptions!poolVars, TranscriptInv, Transcriptions!TypeOK
  <2>6. CASE Transcriptions!Rejected(c)
    BY <2>6, CallMoves
    DEF Transcriptions!Rejected, Transcriptions!poolVars, TranscriptInv, Transcriptions!TypeOK
  <2>7. QED
    BY <1>2, <2>1, <2>2, <2>3, <2>4, <2>5, <2>6 DEF Transcriptions!Advance
<1>3. ASSUME NEW c \in Calls, Transcriptions!EncodeFails(c) PROVE TranscriptInv'
  <2>1. decodeFailures' \in 0 .. MaxDecodeFailures
    BY <1>3, PlaygroundConstants
    DEF Transcriptions!EncodeFails, TranscriptInv, Transcriptions!TypeOK, Transcriptions!TranscriptionConstants
  <2>2. QED
    BY <1>3, <2>1, CallMoves DEF Transcriptions!EncodeFails, Transcriptions!poolVars
<1>4. QED
  BY <1>1, <1>2, <1>3, DecodeKeeps, ReplyKeeps, WorkerErrorKeeps, DisposeKeeps, StutterKeeps
  DEF Transcriptions!Next

\* What a call has heard is in the order of the recording, and complete when it returns.
LEMMA HeardInOrder == TranscriptInv => TranscriptIsInOrder
<1> SUFFICES ASSUME TranscriptInv, NEW c \in Calls
             PROVE  LET t == call[c].transcript
                        heard(n) == {t[i].window : i \in 1 .. n}
                    IN  /\ \A i \in DOMAIN t :
                             /\ t[i].window \in Transcriptions!Spoken
                             /\ heard(i - 1) = {w \in Transcriptions!Spoken : w < t[i].window}
                             /\ t[i].result \in DOMAIN jobs
                             /\ jobs[t[i].result].call = c /\ jobs[t[i].result].window = t[i].window
                        /\ call[c].at = "done" => heard(Len(t)) = Transcriptions!Spoken
  BY DEF TranscriptIsInOrder, Transcriptions!TranscriptIsInOrder
<1> DEFINE k == call[c]
           t == k.transcript
           d == k.decJobs
           h == Heard(t, d, jobs)
           heard(n) == {t[i].window : i \in 1 .. n}
<1>1. /\ OwnJobs(c, t, d, jobs) /\ InPlace(k, jobs) /\ k.window \in Nat
      /\ t \in Seq(Transcriptions!Stitched) /\ d \in Seq(Nat \ {0})
  BY DEF TranscriptInv, CallInv, Transcriptions!TypeOK, Transcriptions!Call
<1>2. Enumerates(h, k.window) /\ Transcriptions!Spoken \subseteq Nat
  <2>1. Transcriptions!LastWindow \in Nat
    BY BeforeIsSum, PlaygroundConstants DEF Transcriptions!LastWindow, Transcriptions!TranscriptionConstants
  <2>2. QED  BY <1>1, <2>1 DEF InPlace, Transcriptions!Spoken
<1>3. /\ DOMAIN h = 1 .. Len(t) + Len(d) /\ DOMAIN t = 1 .. Len(t) /\ Len(t) \in Nat /\ Len(d) \in Nat
      /\ \A i \in 1 .. Len(t) : h[i] = t[i].window
  <2> HIDE DEF t, d
  <2>1. DOMAIN t = 1 .. Len(t) /\ Len(t) \in Nat /\ Len(d) \in Nat
    BY <1>1
  <2>2. DOMAIN h = 1 .. Len(t) + Len(d)
    BY DEF Heard
  <2>3. ASSUME NEW i \in 1 .. Len(t) PROVE h[i] = t[i].window
    <3>1. i \in 1 .. Len(t) + Len(d) /\ i <= Len(t)
      BY <2>1
    <3>2. QED  BY <3>1 DEF Heard
  <2>4. QED  BY <2>1, <2>2, <2>3
<1> HIDE DEF h, d
<1>4. ASSUME NEW i \in DOMAIN t
      PROVE  /\ t[i].window \in Transcriptions!Spoken
             /\ heard(i - 1) = {w \in Transcriptions!Spoken : w < t[i].window}
             /\ t[i].result \in DOMAIN jobs
             /\ jobs[t[i].result].call = c /\ jobs[t[i].result].window = t[i].window
  <2>0. \A j \in 1 .. Len(t) : j \in DOMAIN h /\ h[j] = t[j].window
    <3> HIDE DEF t
    <3>1. QED  BY <1>3
  <2>1. i \in DOMAIN h /\ h[i] = t[i].window
    BY <1>3, <2>0
  <2>2. t[i].window \in Transcriptions!Spoken /\ t[i].window < k.window /\ t[i].window \in Nat
    BY <1>2, <2>1 DEF Enumerates
  <2>3. ASSUME NEW j \in 1 .. i - 1
        PROVE  t[j].window \in Transcriptions!Spoken /\ t[j].window < t[i].window
    <3>1. j \in DOMAIN h /\ j < i /\ h[j] = t[j].window
      <4> HIDE DEF t
      <4>1. j \in 1 .. Len(t) /\ j < i
        BY <1>3
      <4>2. QED  BY <2>0, <4>1
    <3>2. QED  BY <1>2, <2>1, <3>1 DEF Enumerates
  <2>4. ASSUME NEW w \in Transcriptions!Spoken, w < t[i].window
        PROVE  \E j \in 1 .. i - 1 : t[j].window = w
    <3>1. w \in Nat /\ w < k.window
      BY <1>1, <1>2, <2>2, <2>4
    <3>2. PICK j \in DOMAIN h : h[j] = w
      BY <1>2, <3>1 DEF Enumerates
    <3>3. j \in Nat /\ i \in Nat /\ 1 <= j /\ i <= Len(t)
      BY <1>3
    <3>4. ~(i < j) /\ i # j
      BY <1>2, <2>1, <2>2, <2>4, <3>1, <3>2 DEF Enumerates
    <3>5. j \in 1 .. i - 1 /\ j \in 1 .. Len(t)
      BY <1>3, <3>3, <3>4
    <3>6. QED  BY <1>3, <3>2, <3>5
  <2>5. heard(i - 1) = {w \in Transcriptions!Spoken : w < t[i].window}
    BY <2>3, <2>4
  <2>6. QED  BY <1>1, <2>2, <2>5 DEF OwnJobs
<1>5. ASSUME k.at = "done"
      PROVE  heard(Len(t)) = Transcriptions!Spoken
  <2>1. d = <<>> /\ k.window = Transcriptions!LastWindow + 1 /\ Transcriptions!LastWindow \in Nat
    <3>1. d = <<>> /\ k.group = Len(Groups) + 1 /\ k.window = Transcriptions!Before[k.group - 1] + 1
      BY <1>1, <1>5 DEF InPlace, d
    <3>2. Len(Groups) \in Nat
      BY PlaygroundConstants DEF Transcriptions!TranscriptionConstants
    <3>3. k.group - 1 = Len(Groups)
      BY <3>1, <3>2
    <3>4. QED  BY <3>1, <3>2, <3>3, BeforeIsSum DEF Transcriptions!LastWindow
  <2>2. DOMAIN h = 1 .. Len(t)
    BY <1>3, <2>1
  <2>3. \A w \in Transcriptions!Spoken : w < k.window
    BY <2>1 DEF Transcriptions!Spoken
  <2>4. \A w \in Transcriptions!Spoken : \E i \in 1 .. Len(t) : t[i].window = w
    BY <1>2, <1>3, <2>2, <2>3 DEF Enumerates
  <2>5. \A i \in 1 .. Len(t) : t[i].window \in Transcriptions!Spoken
    BY <1>3, <1>4
  <2>6. QED  BY <2>4, <2>5
<1>6. QED
  BY <1>4, <1>5

\* Each call of transcribe() stitches its own windows, each once and in the order of the recording
\* (decode-sink.js: "feeding the stitcher strictly in window order"), whatever the order in which the
\* workers of the shared pool answer, and for any calls, groups, workers and failures.
THEOREM TranscriptsAreInOrder == Transcriptions!Spec => []TranscriptIsInOrder
<1>1. TranscriptInv /\ [Transcriptions!Next]_transcriptionVars => TranscriptInv'
  BY TranscriptStep
<1>2. UNCHANGED Transcriptions!vars => UNCHANGED transcriptionVars
  BY DEF Transcriptions!vars, Transcriptions!poolVars, transcriptionVars
<1>3. TranscriptInv /\ [Transcriptions!Next]_(Transcriptions!vars) => TranscriptInv'
  BY <1>1, <1>2
<1>4. QED
  BY <1>3, TranscriptInit, HeardInOrder, PTL DEF Transcriptions!Spec

-----------------------------------------------------------------------------
(* The streaming engine: its buffers have one owner, its text is the audio. *)

(***************************************************************************)
(* The buffer pool.                                                        *)
(***************************************************************************)
LEMMA MinIsLeast ==
  ASSUME NEW S, S \subseteq Nat, S # {}
  PROVE  Streaming!Min(S) \in S /\ \A n \in S : Streaming!Min(S) <= n
<1>1. \E x \in S : \A y \in S : x <= y
  BY LeastNumber
<1>2. QED  BY <1>1 DEF Streaming!Min

\* What createBuffer returns is nobody's.
LEMMA NewIsUnused ==
  ASSUME NEW used, IsFiniteSet(used)
  PROVE  Streaming!NewBuffer(used) \in Streaming!Buffers \ used
<1> DEFINE n == Cardinality(used)
           fresh == (1 .. n + 1) \ used
<1>1. n \in Nat
  BY FS_CardinalityType
<1>2. fresh # {}
  <2>1. SUFFICES ASSUME (1 .. n + 1) \subseteq used PROVE FALSE
    OBVIOUS
  <2>2. Cardinality(1 .. n + 1) <= n
    BY <2>1, FS_Subset
  <2>3. Cardinality(1 .. n + 1) = n + 1
    <3> HIDE DEF n
    <3>1. 1 \in Int /\ n + 1 \in Int /\ ~(1 > n + 1) /\ (n + 1) - 1 + 1 = n + 1
      BY <1>1
    <3>2. QED  BY <3>1, FS_Interval
  <2>4. QED  BY <1>1, <2>2, <2>3
<1>3. fresh \subseteq Nat /\ fresh \subseteq Streaming!Buffers \ used
  <2> HIDE DEF n
  <2>1. 1 .. n + 1 \subseteq Nat \ {0}
    BY <1>1
  <2>2. QED  BY <2>1 DEF Streaming!Buffers
<1> HIDE DEF fresh
<1>4. Streaming!Min(fresh) \in fresh
  BY <1>2, <1>3, MinIsLeast
<1>5. Streaming!NewBuffer(used) = Streaming!Min(fresh)
  <2>1. Streaming!Cardinality(used) = Cardinality(used)
    BY DEF Streaming!Cardinality, Cardinality
  <2>2. QED  BY <2>1 DEF Streaming!NewBuffer, fresh
<1>6. QED  BY <1>3, <1>4, <1>5

\* The elements of a sequence are finitely many, and of its kind.
LEMMA SeqIsFinite ==
  ASSUME NEW S, NEW s \in Seq(S)
  PROVE  IsFiniteSet(Streaming!ToSet(s)) /\ Streaming!ToSet(s) \subseteq S
<1>1. Streaming!ToSet(s) = {s[i] : i \in DOMAIN s}
  BY DEF Streaming!ToSet
<1>2. s \in [DOMAIN s -> {s[i] : i \in DOMAIN s}]
  OBVIOUS
<1>3. s \in Surjection(DOMAIN s, {s[i] : i \in DOMAIN s})
  BY <1>2 DEF Surjection
<1>4. IsFiniteSet(DOMAIN s)
  <2>1. DOMAIN s = 1 .. Len(s) /\ Len(s) \in Int /\ 1 \in Int
    OBVIOUS
  <2>2. QED  BY <2>1, FS_Interval
<1>5. IsFiniteSet({s[i] : i \in DOMAIN s})
  BY <1>3, <1>4, FS_Surjection
<1>6. {s[i] : i \in DOMAIN s} \subseteq S
  OBVIOUS
<1>7. QED  BY <1>1, <1>5, <1>6

\* A pool between the passes, and one with an open arena.
Closed(p) == p \in Streaming!Pool /\ p.arenas = <<>>

OpenPool(p, arena) == p \in Streaming!Pool /\ arena \in Seq(Streaming!Buffers) /\ p.arenas = <<arena>>

\* What the open arenas track: nothing, or the one arena.
LEMMA ArenaBuffers ==
  ASSUME NEW p, NEW arena
  PROVE  /\ Closed(p) => Streaming!InArenas(p) = {}
         /\ OpenPool(p, arena) => Streaming!InArenas(p) = Streaming!ToSet(arena)
<1>1. ASSUME Closed(p) PROVE Streaming!InArenas(p) = {}
  <2>1. DOMAIN p.arenas = {}
    BY <1>1 DEF Closed
  <2>2. QED  BY <2>1 DEF Streaming!InArenas
<1>2. ASSUME OpenPool(p, arena) PROVE Streaming!InArenas(p) = Streaming!ToSet(arena)
  <2>1. DOMAIN p.arenas = {1} /\ p.arenas[1] = arena
    BY <1>2 DEF OpenPool
  <2>2. QED  BY <2>1 DEF Streaming!InArenas
<1>3. QED  BY <1>1, <1>2

\* What an allocation in the open arena returns is tracked there, was in nobody's hands and is no longer
\* in the pool.
Allocated(p, arena, held, q, b) ==
  /\ OpenPool(q, Append(arena, b)) /\ b \in Streaming!Buffers
  /\ Streaming!ToSet(q.free) \subseteq Streaming!ToSet(p.free)
  /\ b \in Streaming!ToSet(p.free) \/ b \notin held \cup Streaming!ToSet(arena) \cup Streaming!ToSet(p.free)
  /\ Streaming!IsInjective(p.free) =>
       Streaming!IsInjective(q.free) /\ b \notin Streaming!ToSet(q.free)

\* device.createBuffer returns a buffer that nobody has.
LEMMA CreateBufferIsNew ==
  ASSUME NEW p \in Streaming!Pool, IsFiniteSet(Streaming!InArenas(p)), NEW held, IsFiniteSet(held)
  PROVE  LET q == Streaming!CreateBuffer(p, held)
         IN  /\ q = [p EXCEPT !.last = q.last] /\ q \in Streaming!Pool
             /\ q.last \in Streaming!Buffers
             /\ q.last \notin held \cup Streaming!ToSet(p.free) \cup Streaming!InArenas(p)
<1> DEFINE used == held \union Streaming!ToSet(p.free) \union Streaming!InArenas(p)
<1>1. p.free \in Seq(Streaming!Buffers)
  BY DEF Streaming!Pool
<1>2. IsFiniteSet(Streaming!ToSet(p.free))
  BY <1>1, SeqIsFinite
<1>3. IsFiniteSet(used)
  BY <1>2, FS_Union
<1> HIDE DEF used
<1>4. Streaming!NewBuffer(used) \in Streaming!Buffers \ used
  BY <1>3, NewIsUnused
<1>5. Streaming!CreateBuffer(p, held) = [p EXCEPT !.last = Streaming!NewBuffer(used)]
  BY DEF Streaming!CreateBuffer, used
<1> QED  BY <1>4, <1>5 DEF Streaming!Pool, Streaming!Buffers, used

\* Sequences without their last element, and with one more.
LEMMA FrontDrops ==
  ASSUME NEW S, NEW s \in Seq(S), s # <<>>
  PROVE  /\ Streaming!Front(s) \in Seq(S)
         /\ Streaming!ToSet(Streaming!Front(s)) \subseteq Streaming!ToSet(s)
         /\ Streaming!Last(s) \in Streaming!ToSet(s) /\ Streaming!Last(s) \in S
         /\ Streaming!IsInjective(s) =>
              /\ Streaming!IsInjective(Streaming!Front(s))
              /\ Streaming!Last(s) \notin Streaming!ToSet(Streaming!Front(s))
<1> DEFINE n == Len(s)
           f == Streaming!Front(s)
<1>1. n \in Nat \ {0} /\ DOMAIN s = 1 .. n /\ Streaming!Last(s) = s[n]
  BY DEF Streaming!Last
<1>2. f \in Seq(S) /\ DOMAIN f = 1 .. n - 1 /\ \A i \in 1 .. n - 1 : f[i] = s[i]
  BY <1>1 DEF Streaming!Front
<1> HIDE DEF n, f
<1>3. Streaming!ToSet(f) \subseteq Streaming!ToSet(s) /\ s[n] \in Streaming!ToSet(s) /\ s[n] \in S
  BY <1>1, <1>2 DEF Streaming!ToSet
<1>4. ASSUME Streaming!IsInjective(s)
      PROVE  Streaming!IsInjective(f) /\ s[n] \notin Streaming!ToSet(f)
  BY <1>1, <1>2, <1>4 DEF Streaming!ToSet, Streaming!IsInjective
<1>5. QED  BY <1>1, <1>2, <1>3, <1>4 DEF f

\* One more element: a set with it, and still no element twice if it is new.
LEMMA AppendAdds ==
  ASSUME NEW S, NEW s \in Seq(S), NEW x \in S
  PROVE  /\ Append(s, x) \in Seq(S)
         /\ Streaming!ToSet(Append(s, x)) = Streaming!ToSet(s) \cup {x}
         /\ Streaming!IsInjective(s) /\ x \notin Streaming!ToSet(s) =>
              Streaming!IsInjective(Append(s, x))
<1> DEFINE n == Len(s)
           a == Append(s, x)
<1>1. n \in Nat /\ DOMAIN s = 1 .. n
  OBVIOUS
<1>2. a \in Seq(S) /\ DOMAIN a = 1 .. n + 1 /\ a[n + 1] = x /\ \A i \in 1 .. n : a[i] = s[i]
  OBVIOUS
<1> HIDE DEF n, a
<1>3. Streaming!ToSet(a) = Streaming!ToSet(s) \cup {x}
  BY <1>1, <1>2 DEF Streaming!ToSet
<1>4. ASSUME Streaming!IsInjective(s), x \notin Streaming!ToSet(s)
      PROVE  Streaming!IsInjective(a)
  BY <1>1, <1>2, <1>4 DEF Streaming!ToSet, Streaming!IsInjective
<1>5. QED  BY <1>2, <1>3, <1>4 DEF a

\* An allocation while one arena is open (allocRaw).
LEMMA AllocIsTracked ==
  ASSUME NEW p, NEW arena, OpenPool(p, arena), NEW held, IsFiniteSet(held)
  PROVE  LET q == Streaming!AllocRaw(p, held)
         IN  Allocated(p, arena, held, q, q.last)
<1> DEFINE g == Streaming!Get(p, held)
           b == g.last
<1>1. /\ p \in Streaming!Pool /\ p.arenas = <<arena>> /\ arena \in Seq(Streaming!Buffers)
      /\ p.free \in Seq(Streaming!Buffers)
  BY DEF OpenPool, Streaming!Pool
<1>2. IsFiniteSet(Streaming!ToSet(arena)) /\ Streaming!InArenas(p) = Streaming!ToSet(arena)
  BY <1>1, SeqIsFinite, ArenaBuffers
<1>3. /\ g \in Streaming!Pool /\ g.arenas = <<arena>> /\ b \in Streaming!Buffers
      /\ Streaming!ToSet(g.free) \subseteq Streaming!ToSet(p.free)
      /\ b \in Streaming!ToSet(p.free)
           \/ b \notin held \cup Streaming!ToSet(arena) \cup Streaming!ToSet(p.free)
      /\ Streaming!IsInjective(p.free) =>
           Streaming!IsInjective(g.free) /\ b \notin Streaming!ToSet(g.free)
  <2>1. CASE p.free = <<>>
    <3>1. g = Streaming!CreateBuffer(p, held)
      BY <2>1 DEF Streaming!Get
    <3>2. /\ g = [p EXCEPT !.last = b] /\ g \in Streaming!Pool /\ b \in Streaming!Buffers
          /\ b \notin held \cup Streaming!ToSet(p.free) \cup Streaming!InArenas(p)
      BY <1>1, <1>2, <3>1, CreateBufferIsNew
    <3>3. g.free = p.free /\ g.arenas = p.arenas
      BY <1>1, <3>2 DEF Streaming!Pool
    <3> QED  BY <1>1, <1>2, <3>2, <3>3
  <2>2. CASE p.free # <<>>
    <3>1. g = [p EXCEPT !.free = Streaming!Front(p.free), !.last = Streaming!Last(p.free)]
      BY <2>2 DEF Streaming!Get
    <3>2. /\ Streaming!Front(p.free) \in Seq(Streaming!Buffers)
          /\ Streaming!ToSet(Streaming!Front(p.free)) \subseteq Streaming!ToSet(p.free)
          /\ Streaming!Last(p.free) \in Streaming!ToSet(p.free)
          /\ Streaming!Last(p.free) \in Streaming!Buffers
          /\ Streaming!IsInjective(p.free) =>
               /\ Streaming!IsInjective(Streaming!Front(p.free))
               /\ Streaming!Last(p.free) \notin Streaming!ToSet(Streaming!Front(p.free))
      BY <1>1, <2>2, FrontDrops
    <3>3. /\ g.free = Streaming!Front(p.free) /\ b = Streaming!Last(p.free) /\ g.arenas = p.arenas
          /\ g \in Streaming!Pool
      BY <1>1, <3>1, <3>2 DEF Streaming!Pool, Streaming!Buffers
    <3> QED  BY <1>1, <3>2, <3>3
  <2> QED  BY <2>1, <2>2
<1> DEFINE q == Streaming!AllocRaw(p, held)
<1>4. q = [g EXCEPT !.arenas[Len(g.arenas)] = Append(@, b)]
  BY <1>1 DEF Streaming!AllocRaw
<1>5. q = [g EXCEPT !.arenas = <<Append(arena, b)>>]
  <2>1. Len(g.arenas) = 1 /\ [g.arenas EXCEPT ![1] = Append(@, b)] = <<Append(arena, b)>>
    BY <1>3
  <2>2. QED  BY <1>4, <2>1
<1>6. Append(arena, b) \in Seq(Streaming!Buffers)
  BY <1>1, <1>3
<1>7. q.free = g.free /\ q.last = b /\ OpenPool(q, Append(arena, b))
  <2>1. <<Append(arena, b)>> \in Seq(Seq(Streaming!Buffers))
    BY <1>6
  <2> HIDE DEF g
  <2>2. QED  BY <1>3, <1>5, <1>6, <2>1 DEF Streaming!Pool, OpenPool
<1> HIDE DEF g, q
<1>8. QED  BY <1>3, <1>7 DEF Allocated, q

\* Small sets are finite.
LEMMA PairIsFinite ==
  ASSUME NEW x, NEW y
  PROVE  IsFiniteSet({x}) /\ IsFiniteSet({x, y})
<1>1. IsFiniteSet({x})
  BY FS_Singleton
<1>2. {x, y} = {x} \cup {y}
  OBVIOUS
<1>3. IsFiniteSet({x} \cup {y})
  BY <1>1, FS_AddElement
<1>4. QED  BY <1>1, <1>2, <1>3

\* Appending to a sequence of one gives the pair.
LEMMA AppendToOne ==
  ASSUME NEW S, NEW x \in S, NEW y \in S
  PROVE  Append(<<x>>, y) = <<x, y>>
<1>1. <<x>> \in Seq(S) /\ Len(<<x>>) = 1 /\ <<x>>[1] = x
  OBVIOUS
<1>2. <<x, y>> \in Seq(S) /\ Len(<<x, y>>) = 2 /\ <<x, y>>[1] = x /\ <<x, y>>[2] = y
  OBVIOUS
<1>3. /\ Append(<<x>>, y) \in Seq(S) /\ Len(Append(<<x>>, y)) = 2
      /\ Append(<<x>>, y)[1] = x /\ Append(<<x>>, y)[2] = y
  BY <1>1, AppendProperties
<1>4. QED
  <2> DEFINE s == Append(<<x>>, y)
             t == <<x, y>>
  <2>1. /\ s \in Seq(S) /\ t \in Seq(S) /\ Len(s) = Len(t)
        /\ \A i \in 1 .. Len(s) : s[i] = t[i]
    BY <1>2, <1>3
  <2> HIDE DEF s, t
  <2>2. s = t
    BY <2>1, SeqEqual
  <2>3. QED  BY <2>2 DEF s, t

\* A buffer is unpinned from the end of an arena of two.
LEMMA PinTakes ==
  ASSUME NEW p, NEW x, NEW b, OpenPool(p, <<x, b>>)
  PROVE  LET q == Streaming!Pin(p, b)
         IN  OpenPool(q, <<x>>) /\ q.free = p.free
<1> DEFINE having == {i \in DOMAIN p.arenas : b \in Streaming!ToSet(p.arenas[i])}
           newest == Streaming!Max(having)
           entries == {j \in DOMAIN p.arenas[newest] : p.arenas[newest][j] = b}
           entry == Streaming!Min(entries)
           q == Streaming!Pin(p, b)
<1>1. /\ p \in Streaming!Pool /\ p.arenas = <<<<x, b>>>> /\ <<x, b>> \in Seq(Streaming!Buffers)
      /\ x \in Streaming!Buffers /\ b \in Streaming!Buffers
  <2>1. p \in Streaming!Pool /\ p.arenas = <<<<x, b>>>> /\ <<x, b>> \in Seq(Streaming!Buffers)
    BY DEF OpenPool
  <2>2. <<x, b>>[1] \in Streaming!Buffers /\ <<x, b>>[2] \in Streaming!Buffers
    BY <2>1
  <2>3. QED  BY <2>1, <2>2
<1>2. having = {1}
  BY <1>1 DEF Streaming!ToSet
<1>3. newest = 1
  BY <1>2 DEF Streaming!Max
<1> DEFINE t == <<x, b>>
<1>t. t \in Seq(Streaming!Buffers) /\ Len(t) = 2 /\ DOMAIN t = {1, 2} /\ t[1] = x /\ t[2] = b
  BY <1>1
<1>4. entry = IF x = b THEN 1 ELSE 2
  <2>1. entries = {j \in DOMAIN t : t[j] = b}
    BY <1>1, <1>3
  <2> HIDE DEF t, entries
  <2>2. entries \subseteq {1, 2} /\ 2 \in entries /\ (1 \in entries <=> x = b)
    BY <2>1, <1>t
  <2>3. entry \in entries /\ \A n \in entries : entry <= n
    <3>1. entries \subseteq Nat /\ entries # {}
      BY <2>2
    <3>2. QED  BY <3>1, MinIsLeast
  <2> HIDE DEF entry
  <2>4. QED  BY <2>2, <2>3
<1>5. q = [p EXCEPT !.arenas[newest] = SubSeq(@, 1, entry - 1) \o SubSeq(@, entry + 1, Len(@))]
  BY <1>2 DEF Streaming!Pin
<1> HIDE DEF having, newest, entries, entry, q
<1>6. SubSeq(t, 1, entry - 1) \o SubSeq(t, entry + 1, Len(t)) = <<x>>
  <2> DEFINE front == SubSeq(t, 1, entry - 1)
             back == SubSeq(t, entry + 1, 2)
  <2> HIDE DEF t
  <2>1. front \in Seq(Streaming!Buffers) /\ back \in Seq(Streaming!Buffers)
    <3>1. entry \in {1, 2} /\ t[1] \in Streaming!Buffers /\ t[2] \in Streaming!Buffers
      BY <1>1, <1>t, <1>4
    <3>2. CASE entry = 1
      BY <3>1, <3>2, <1>t
    <3>3. CASE entry = 2
      BY <3>1, <3>3, <1>t
    <3>4. QED  BY <3>1, <3>2, <3>3
  <2>2. Len(front) = entry - 1 /\ Len(back) = 2 - entry
    BY <1>t, <1>4
  <2>3. (entry = 2 => front[1] = x) /\ (entry = 1 => back[1] = x)
    BY <1>t, <1>4
  <2> HIDE DEF front, back
  <2>4. Len(front \o back) = 1 /\ (front \o back)[1] = x /\ front \o back \in Seq(Streaming!Buffers)
    BY <1>4, <2>1, <2>2, <2>3
  <2>5. front \o back = <<x>>
    <3> DEFINE u == front \o back
               v == <<x>>
    <3>1. v \in Seq(Streaming!Buffers) /\ Len(v) = 1 /\ v[1] = x
      BY <1>1
    <3> HIDE DEF u, v
    <3>2. u \in Seq(Streaming!Buffers) /\ Len(u) = 1 /\ u[1] = x
      BY <2>4 DEF u
    <3>3. Len(u) = Len(v) /\ \A i \in 1 .. Len(u) : u[i] = v[i]
      BY <3>1, <3>2
    <3>4. u = v
      BY <3>1, <3>2, <3>3, SeqEqual
    <3>5. QED  BY <3>4 DEF u, v
  <2>6. QED  BY <1>t, <2>5 DEF front, back
<1>7. q = [p EXCEPT !.arenas = <<<<x>>>>]
  <2>1. p.arenas[1] = t /\ DOMAIN p.arenas = {1} /\ p.arenas = <<t>>
    BY <1>1
  <2>2. [p.arenas EXCEPT ![1] = <<x>>] = <<<<x>>>>
    BY <1>1
  <2> HIDE DEF t
  <2>3. q = [p EXCEPT !.arenas[1] = SubSeq(@, 1, entry - 1) \o SubSeq(@, entry + 1, Len(@))]
    BY <1>3, <1>5
  <2>4. q = [p EXCEPT !.arenas[1] = <<x>>]
    BY <1>6, <2>1, <2>3
  <2>5. QED  BY <2>2, <2>4
<1>8. <<<<x>>>> \in Seq(Seq(Streaming!Buffers)) /\ <<x>> \in Seq(Streaming!Buffers)
  BY <1>1
<1>9. QED  BY <1>1, <1>7, <1>8 DEF OpenPool, Streaming!Pool, q

\* What a chunk pass makes of the pool (PassBuffers): a cache and frames that are nobody's, and a pool
\* that holds none of the tensors in use if it held none before.
Passed(free, held, b) ==
  /\ Closed(b.pool) /\ b.cache \in Streaming!Buffers /\ b.frames \in Streaming!Buffers
  /\ Streaming!IsInjective(free) /\ Streaming!ToSet(free) \cap held = {} =>
       /\ Streaming!IsInjective(b.pool.free)
       /\ Streaming!ToSet(b.pool.free) \cap held = {}
       /\ {b.cache, b.frames} \cap held = {}
       /\ {b.cache, b.frames} \cap Streaming!ToSet(b.pool.free) = {}
       /\ b.cache # b.frames

\* A chunk pass between passes (runChunk, up to its submission).
LEMMA PassTakes ==
  ASSUME Closed(pool), IsFiniteSet(Streaming!Held)
  PROVE  Passed(pool.free, Streaming!Held, Streaming!PassBuffers)
<1> DEFINE B == Streaming!Buffers
           T(s) == Streaming!ToSet(s)
           held == Streaming!Held
           p0 == Streaming!PushArena(pool)
           p1 == Streaming!CreateBuffer(p0, held)
           mel == p1.last
           h2 == held \union {mel}
           p2 == Streaming!AllocRaw(p1, h2)
           scratch == p2.last
           p3 == Streaming!AllocRaw(p2, h2)
           cache == p3.last
           h4 == held \union {mel, cache}
           p3b == Streaming!Pin(p3, cache)
           p4 == Streaming!AllocRaw(p3b, h4)
           frames == p4.last
           p5 == Streaming!Pin(p4, frames)
           p6 == Streaming!PopArena(p5)
           p7 == Streaming!Put(p6, mel)
<1>1. p0 = [pool EXCEPT !.arenas = <<<<>>>>] /\ OpenPool(p0, <<>>) /\ p0.free = pool.free
      /\ pool.free \in Seq(B)
  <2>1. pool \in Streaming!Pool /\ pool.arenas = <<>> /\ pool.free \in Seq(B)
    BY DEF Closed, Streaming!Pool
  <2>2. Append(pool.arenas, <<>>) = <<<<>>>>
    BY <2>1
  <2>3. <<<<>>>> \in Seq(Seq(B)) /\ <<>> \in Seq(B)
    OBVIOUS
  <2>4. p0 = [pool EXCEPT !.arenas = <<<<>>>>]
    BY <2>2 DEF Streaming!PushArena
  <2>5. QED  BY <2>1, <2>3, <2>4 DEF OpenPool, Streaming!Pool
<1> HIDE DEF p0, held
<1>2. p1 = [p0 EXCEPT !.last = mel] /\ OpenPool(p1, <<>>) /\ p1.free = pool.free
      /\ mel \in B /\ mel \notin held \cup T(pool.free)
  <2>1. Streaming!InArenas(p0) = T(<<>>) /\ T(<<>>) = {}
    BY <1>1, ArenaBuffers DEF Streaming!ToSet
  <2>2. IsFiniteSet(Streaming!InArenas(p0)) /\ IsFiniteSet(held)
    BY <2>1, FS_EmptySet DEF held
  <2>3. p0 \in Streaming!Pool
    BY <1>1 DEF OpenPool
  <2>4. /\ p1 = [p0 EXCEPT !.last = p1.last] /\ p1 \in Streaming!Pool /\ p1.last \in B
        /\ p1.last \notin held \cup T(p0.free) \cup Streaming!InArenas(p0)
    BY <2>2, <2>3, CreateBufferIsNew
  <2> HIDE DEF p1
  <2>5. p1.arenas = p0.arenas /\ p1.free = p0.free
    BY <2>3, <2>4 DEF Streaming!Pool
  <2>6. QED  BY <1>1, <2>4, <2>5 DEF OpenPool
<1> HIDE DEF p1, mel, h2
<1>3. IsFiniteSet(h2) /\ IsFiniteSet(h4)
  <2> HIDE DEF p3, cache
  <2>1. IsFiniteSet({mel}) /\ IsFiniteSet({mel, cache}) /\ IsFiniteSet(held)
    BY PairIsFinite DEF held
  <2>2. QED  BY <2>1, FS_Union DEF h2
<1>4. Allocated(p1, <<>>, h2, p2, scratch)
  BY <1>2, <1>3, AllocIsTracked
<1> HIDE DEF p2, scratch
<1>5. OpenPool(p2, <<scratch>>) /\ scratch \in B
  <2>1. Append(<<>>, scratch) = <<scratch>>
    OBVIOUS
  <2>2. QED  BY <1>4, <2>1 DEF Allocated
<1>6. Allocated(p2, <<scratch>>, h2, p3, cache)
  BY <1>3, <1>5, AllocIsTracked
<1> HIDE DEF p3, cache, h4
<1>7. OpenPool(p3, <<scratch, cache>>) /\ cache \in B
  <2>1. Append(<<scratch>>, cache) = <<scratch, cache>>
    BY <1>5, <1>6, AppendToOne DEF Allocated
  <2>2. QED  BY <1>6, <2>1 DEF Allocated
<1>8. OpenPool(p3b, <<scratch>>) /\ p3b.free = p3.free
  BY <1>7, PinTakes
<1> HIDE DEF p3b
<1>9. Allocated(p3b, <<scratch>>, h4, p4, frames)
  BY <1>3, <1>8, AllocIsTracked
<1> HIDE DEF p4, frames
<1>10. OpenPool(p4, <<scratch, frames>>) /\ frames \in B
  <2>1. Append(<<scratch>>, frames) = <<scratch, frames>>
    BY <1>5, <1>9, AppendToOne DEF Allocated
  <2>2. QED  BY <1>9, <2>1 DEF Allocated
<1>11. OpenPool(p5, <<scratch>>) /\ p5.free = p4.free
  BY <1>10, PinTakes
<1> HIDE DEF p5
<1>12. /\ p6.free = Append(p4.free, scratch) /\ Closed(p6) /\ p4.free \in Seq(B)
  <2>1. p5 \in Streaming!Pool /\ p5.arenas = <<<<scratch>>>> /\ p4.free \in Seq(B)
    BY <1>10, <1>11 DEF OpenPool, Streaming!Pool
  <2>2. Streaming!Front(p5.arenas) = <<>> /\ Streaming!Last(p5.arenas) = <<scratch>>
    BY <2>1 DEF Streaming!Front, Streaming!Last
  <2>3. p4.free \o <<scratch>> = Append(p4.free, scratch) /\ Append(p4.free, scratch) \in Seq(B)
    BY <1>5, <2>1
  <2>4. p6 = [p5 EXCEPT !.arenas = <<>>, !.free = Append(p4.free, scratch)]
    BY <1>11, <2>1, <2>2, <2>3 DEF Streaming!PopArena
  <2>5. QED  BY <2>1, <2>3, <2>4 DEF Closed, Streaming!Pool
<1> HIDE DEF p6
<1>13. p7.free = Append(Append(p4.free, scratch), mel) /\ Closed(p7)
  <2>1. p7 = [p6 EXCEPT !.free = Append(p6.free, mel)]
    BY DEF Streaming!Put
  <2>2. p6 \in Streaming!Pool /\ Append(p6.free, mel) \in Seq(B)
    BY <1>2, <1>5, <1>12, AppendAdds DEF Closed
  <2>3. QED  BY <1>12, <2>1, <2>2 DEF Closed, Streaming!Pool
<1> HIDE DEF p7
<1>14. Streaming!PassBuffers = [pool |-> p7, cache |-> cache, frames |-> frames]
  BY DEF Streaming!PassBuffers, p7, p6, p5, frames, p4, p3b, h4, cache, p3, scratch, p2, h2, mel, p1, held, p0
<1>15. ASSUME Streaming!IsInjective(pool.free), T(pool.free) \cap held = {}
       PROVE  /\ Streaming!IsInjective(p7.free) /\ T(p7.free) \cap held = {}
              /\ {cache, frames} \cap held = {} /\ {cache, frames} \cap T(p7.free) = {}
              /\ cache # frames
  <2>1. /\ T(p2.free) \subseteq T(pool.free) /\ Streaming!IsInjective(p2.free)
        /\ scratch \notin T(p2.free) /\ scratch \notin h2
    BY <1>2, <1>4, <1>15 DEF Allocated, h2
  <2>2. /\ T(p3.free) \subseteq T(p2.free) /\ Streaming!IsInjective(p3.free)
        /\ cache \notin T(p3.free) /\ cache \notin h2 /\ cache # scratch
    <3>1. T(<<scratch>>) = {scratch}
      BY DEF Streaming!ToSet
    <3>2. QED  BY <1>2, <1>6, <1>15, <2>1, <3>1 DEF Allocated, h2
  <2>3. /\ T(p4.free) \subseteq T(p3.free) /\ Streaming!IsInjective(p4.free)
        /\ frames \notin T(p4.free) /\ frames \notin h4 /\ frames # scratch
    <3>1. T(<<scratch>>) = {scratch}
      BY DEF Streaming!ToSet
    <3>2. QED  BY <1>2, <1>8, <1>9, <1>15, <2>1, <2>2, <3>1 DEF Allocated, h4
  <2>4. /\ Append(p4.free, scratch) \in Seq(B) /\ T(Append(p4.free, scratch)) = T(p4.free) \cup {scratch}
        /\ Streaming!IsInjective(Append(p4.free, scratch))
    BY <1>5, <1>12, <2>1, <2>2, <2>3, AppendAdds
  <2>5. mel \notin T(p4.free) \cup {scratch}
    BY <1>2, <2>1, <2>2, <2>3 DEF h2
  <2>6. T(p7.free) = T(p4.free) \cup {scratch, mel} /\ Streaming!IsInjective(p7.free)
    <3> DEFINE a == Append(p4.free, scratch)
    <3>1. /\ a \in Seq(B) /\ mel \in B /\ mel \notin T(a) /\ Streaming!IsInjective(a)
          /\ T(a) = T(p4.free) \cup {scratch} /\ p7.free = Append(a, mel)
      BY <1>2, <1>13, <2>4, <2>5
    <3> HIDE DEF a
    <3>2. T(Append(a, mel)) = T(a) \cup {mel} /\ Streaming!IsInjective(Append(a, mel))
      BY <3>1, AppendAdds
    <3>3. QED  BY <3>1, <3>2
  <2>7. QED  BY <1>2, <1>15, <2>1, <2>2, <2>3, <2>6 DEF h2, h4
<1>16. QED  BY <1>7, <1>10, <1>13, <1>14, <1>15 DEF Passed, held

\* A buffer goes back to the pool.
LEMMA PutAdds ==
  ASSUME NEW p, Closed(p), NEW b \in Streaming!Buffers
  PROVE  LET q == Streaming!Put(p, b)
         IN  /\ Closed(q)
             /\ Streaming!ToSet(q.free) = Streaming!ToSet(p.free) \cup {b}
             /\ Streaming!IsInjective(p.free) /\ b \notin Streaming!ToSet(p.free) =>
                  Streaming!IsInjective(q.free)
<1>1. p \in Streaming!Pool /\ p.arenas = <<>> /\ p.free \in Seq(Streaming!Buffers)
  BY DEF Closed, Streaming!Pool
<1>2. /\ Append(p.free, b) \in Seq(Streaming!Buffers)
      /\ Streaming!ToSet(Append(p.free, b)) = Streaming!ToSet(p.free) \cup {b}
      /\ Streaming!IsInjective(p.free) /\ b \notin Streaming!ToSet(p.free) =>
           Streaming!IsInjective(Append(p.free, b))
  BY <1>1, AppendAdds
<1>3. Streaming!Put(p, b).free = Append(p.free, b) /\ Closed(Streaming!Put(p, b))
  BY <1>1, <1>2 DEF Streaming!Put, Closed, Streaming!Pool
<1>4. QED  BY <1>2, <1>3

\* trimPool takes buffers from the pool.
LEMMA TrimTakes ==
  ASSUME NEW p, Closed(p)
  PROVE  LET q == Streaming!Trim(p, Budget)
         IN  /\ Closed(q)
             /\ Streaming!ToSet(q.free) \subseteq Streaming!ToSet(p.free)
             /\ Streaming!IsInjective(p.free) => Streaming!IsInjective(q.free)
<1>1. p \in Streaming!Pool /\ p.arenas = <<>> /\ p.free \in Seq(Streaming!Buffers) /\ Budget \in Nat
  BY PlaygroundConstants DEF Closed, Streaming!Pool, Streaming!StreamingConstants
<1> DEFINE s == SubSeq(p.free, 1, Budget)
<1>2. CASE Len(p.free) <= Budget
  BY <1>2 DEF Streaming!Trim
<1>3. CASE ~(Len(p.free) <= Budget)
  <2>1. /\ s \in Seq(Streaming!Buffers) /\ DOMAIN s = 1 .. Budget /\ DOMAIN p.free = 1 .. Len(p.free)
        /\ \A i \in 1 .. Budget : s[i] = p.free[i] /\ i \in 1 .. Len(p.free)
    BY <1>1, <1>3
  <2> HIDE DEF s
  <2>2. Streaming!ToSet(s) \subseteq Streaming!ToSet(p.free)
    BY <2>1 DEF Streaming!ToSet
  <2>3. Streaming!IsInjective(p.free) => Streaming!IsInjective(s)
    BY <2>1 DEF Streaming!IsInjective
  <2>4. Streaming!Trim(p, Budget) = [p EXCEPT !.free = s]
    BY <1>3 DEF Streaming!Trim, s
  <2>5. Streaming!Trim(p, Budget).free = s /\ Closed(Streaming!Trim(p, Budget))
    BY <1>1, <2>1, <2>4 DEF Closed, Streaming!Pool
  <2>6. QED  BY <2>2, <2>3, <2>5
<1>4. QED  BY <1>2, <1>3

\* disposeEncodeStream puts the stream's tensors into the pool.
LEMMA DisposePools ==
  ASSUME enc \in [Streaming!Streams -> Streaming!Stream],
         NEW s \in Streaming!Streams, enc[s].fixed # 0, NEW p, Closed(p)
  PROVE  LET q == Streaming!Dispose(p, s)
         IN  /\ Closed(q)
             /\ Streaming!ToSet(q.free) = Streaming!ToSet(p.free) \cup Streaming!Tensors(s)
             /\ /\ Streaming!IsInjective(p.free) /\ enc[s].fixed # enc[s].cache
                /\ Streaming!Tensors(s) \cap Streaming!ToSet(p.free) = {}
                => Streaming!IsInjective(q.free)
<1> DEFINE c == enc[s].cache
           f == enc[s].fixed
           p1 == IF c = 0 THEN p ELSE Streaming!Put(p, c)
           q == Streaming!Put(p1, f)
<1>1. c \in Nat /\ f \in Streaming!Buffers /\ (c # 0 => c \in Streaming!Buffers)
  BY DEF Streaming!Stream, Streaming!Buffers
<1>2. Streaming!Dispose(p, s) = q /\ Streaming!Tensors(s) = {c, f} \ {0}
  BY DEF Streaming!Dispose, Streaming!Tensors
<1> HIDE DEF c, f
<1>3. /\ Closed(p1) /\ Streaming!ToSet(p1.free) = Streaming!ToSet(p.free) \cup ({c} \ {0})
      /\ Streaming!IsInjective(p.free) /\ (c # 0 => c \notin Streaming!ToSet(p.free)) =>
           Streaming!IsInjective(p1.free)
  <2>1. CASE c = 0
    BY <2>1
  <2>2. CASE c # 0
    <3>1. p1 = Streaming!Put(p, c) /\ c \in Streaming!Buffers /\ {c} \ {0} = {c}
      BY <1>1, <2>2
    <3> HIDE DEF p1
    <3>2. QED  BY <3>1, PutAdds
  <2>3. QED  BY <2>1, <2>2
<1> HIDE DEF p1
<1>4. /\ Closed(q) /\ Streaming!ToSet(q.free) = Streaming!ToSet(p1.free) \cup {f}
      /\ Streaming!IsInjective(p1.free) /\ f \notin Streaming!ToSet(p1.free) =>
           Streaming!IsInjective(q.free)
  BY <1>1, <1>3, PutAdds
<1> HIDE DEF q
<1>5. f # 0
  BY <1>1 DEF Streaming!Buffers
<1>6. QED  BY <1>2, <1>3, <1>4, <1>5 DEF c, f

(***************************************************************************)
(* The promise chain.                                                      *)
(***************************************************************************)
\* A call that nothing is done for.
Idle(k) ==
  k.at \in {"queued", "done", "failed"} /\ k.on = 0 /\ k.frames = 0 /\ k.outs = <<>>

\* The promise chain: a call has begun only when those before it are over.
InTurn(cs) ==
  \A i, j \in DOMAIN cs : i < j /\ cs[j].at # "queued" => cs[i].at \in {"done", "failed"}

\* A call k hears stream s with decoder d: the passes it has yet to return follow what is decoded, and
\* the decoder has followed the stream from the start.
Hears(k, s, d) ==
  /\ d = [on |-> k.on, next |-> Len(s.ids) + 1]
  /\ Len(s.ids) + Len(k.outs) = s.subT
  /\ \A n \in DOMAIN k.outs : k.outs[n] = Len(s.ids) + n
  /\ k.kind = "push" =>
       /\ ~s.finished /\ ~s.broken /\ s.subT <= s.fed
       /\ k.at = "download" => s.subT < s.fed
  /\ k.kind = "finish" => s.finished

Working(k, st, en, d) ==
  /\ k.at \in {"encode", "download", "flush", "flushed"}
  /\ k.on \in Streaming!Streams /\ en[k.on].fixed # 0
  /\ k.frames # 0 <=> k.at = "download"
  /\ k.kind = "push" => k.at = "encode" \/ (k.at = "download" /\ ~en[k.on].flushed)
  /\ st # 0 => k.kind # "transcribe" /\ k.on = st /\ Hears(k, en[st], d)

CallFits(k, st, en, d) ==
  /\ k.kind # "transcribe" => k.decode = "main"
  /\ Idle(k) \/ Working(k, st, en, d)

\* The live stream: its text is in order, and complete when it is idle and open.
StreamFits(idle, st, en, d) ==
  st # 0 =>
    /\ en[st].fixed # 0
    /\ \A n \in DOMAIN en[st].ids : en[st].ids[n] = n
    /\ idle /\ ~en[st].finished /\ ~en[st].broken =>
         /\ Len(en[st].ids) = en[st].subT /\ en[st].subT = en[st].fed
         /\ d = [on |-> st, next |-> Len(en[st].ids) + 1]

StreamingInv ==
  /\ Streaming!TypeOK
  /\ pool.arenas = <<>>
  /\ InTurn(calls)
  /\ \A i \in DOMAIN calls : CallFits(calls[i], stream, enc, decoder["main"])
  /\ StreamFits(\A i \in DOMAIN calls : Idle(calls[i]), stream, enc, decoder["main"])

\* The call whose turn it is.
Acts(i) ==
  /\ i \in DOMAIN calls /\ calls[i].at \notin {"done", "failed"}
  /\ calls[i].at = "queued" => Streaming!Turn(i)

\* The other calls are idle, those before it over, those after it queued.
LEMMA Acting ==
  ASSUME StreamingInv, NEW i, Acts(i)
  PROVE  /\ i \in Nat /\ calls[i] \in Streaming!Call
         /\ \A j \in DOMAIN calls \ {i} : Idle(calls[j])
         /\ \A j \in DOMAIN calls : j < i => calls[j].at \in {"done", "failed"}
         /\ \A j \in DOMAIN calls : j > i => calls[j].at = "queued"
         /\ CallFits(calls[i], stream, enc, decoder["main"])
         /\ StreamFits(Idle(calls[i]), stream, enc, decoder["main"])
<1>1. /\ calls \in Seq(Streaming!Call) /\ i \in DOMAIN calls /\ i \in Nat
      /\ calls[i] \in Streaming!Call /\ \A j \in DOMAIN calls : j \in Nat
  BY DEF StreamingInv, Streaming!TypeOK, Acts
<1>2. \A j \in DOMAIN calls : j < i => calls[j].at \in {"done", "failed"}
  <2>1. CASE calls[i].at = "queued"
    BY <1>1, <2>1 DEF Acts, Streaming!Turn
  <2>2. CASE calls[i].at # "queued"
    BY <1>1, <2>2 DEF StreamingInv, InTurn
  <2>3. QED  BY <2>1, <2>2
<1>3. \A j \in DOMAIN calls : j > i => calls[j].at = "queued"
  BY <1>1 DEF StreamingInv, InTurn, Acts
<1>4. ASSUME NEW j \in DOMAIN calls \ {i}
      PROVE  Idle(calls[j])
  <2>1. calls[j].at \in {"queued", "done", "failed"}
    BY <1>1, <1>2, <1>3
  <2>2. CallFits(calls[j], stream, enc, decoder["main"])
    BY DEF StreamingInv
  <2>3. QED  BY <2>1, <2>2 DEF CallFits, Working
<1>5. CallFits(calls[i], stream, enc, decoder["main"])
  BY <1>1 DEF StreamingInv
<1>6. StreamFits(Idle(calls[i]), stream, enc, decoder["main"])
  <2>1. (\A j \in DOMAIN calls : Idle(calls[j])) <=> Idle(calls[i])
    BY <1>1, <1>4
  <2>2. StreamFits(\A j \in DOMAIN calls : Idle(calls[j]), stream, enc, decoder["main"])
    BY DEF StreamingInv
  <2>3. QED  BY <2>1, <2>2 DEF StreamFits
<1>7. QED  BY <1>1, <1>2, <1>3, <1>4, <1>5, <1>6

\* A step of the call whose turn it is.
LEMMA ActingStep ==
  ASSUME StreamingInv, NEW i, Acts(i),
         NEW k \in Streaming!Call, k.at # "queued", calls' = [calls EXCEPT ![i] = k],
         Closed(pool'), enc' \in [Streaming!Streams -> Streaming!Stream],
         stream' \in {0} \cup Streaming!Streams,
         decoder' \in [Streaming!Decoders -> [on : {0} \cup Streaming!Streams, next : Nat]],
         readbackFailures' \in 0 .. MaxReadbackFailures,
         CallFits(k, stream', enc', decoder'["main"]),
         StreamFits(Idle(k), stream', enc', decoder'["main"])
  PROVE  StreamingInv'
<1>1. /\ i \in Nat /\ \A j \in DOMAIN calls \ {i} : Idle(calls[j])
      /\ \A j \in DOMAIN calls : j < i => calls[j].at \in {"done", "failed"}
      /\ \A j \in DOMAIN calls : j > i => calls[j].at = "queued"
  BY Acting
<1>2. /\ calls \in Seq(Streaming!Call) /\ i \in DOMAIN calls /\ Len(calls) <= MaxCalls
      /\ \A j \in DOMAIN calls : j \in Nat
  BY DEF StreamingInv, Streaming!TypeOK, Acts
<1>3. /\ calls' \in Seq(Streaming!Call) /\ Len(calls') = Len(calls) /\ DOMAIN calls' = DOMAIN calls
      /\ calls'[i] = k /\ \A j \in DOMAIN calls \ {i} : calls'[j] = calls[j]
  BY <1>2
<1>4. Streaming!TypeOK' /\ pool'.arenas = <<>>
  BY <1>2, <1>3 DEF Closed, Streaming!TypeOK
<1>5. InTurn(calls')
  <2>1. ASSUME NEW a \in DOMAIN calls, NEW b \in DOMAIN calls, a < b, calls'[b].at # "queued"
        PROVE  calls'[a].at \in {"done", "failed"}
    <3>1. a \in Nat /\ b \in Nat
      BY <1>2
    <3>2. b <= i
      BY <1>1, <1>3, <2>1, <3>1
    <3>3. a < i
      BY <1>1, <2>1, <3>1, <3>2
    <3>4. QED  BY <1>1, <1>3, <3>3
  <2>2. QED  BY <1>3, <2>1 DEF InTurn
<1>6. ASSUME NEW j \in DOMAIN calls
      PROVE  CallFits(calls'[j], stream', enc', decoder'["main"])
  <2>1. CASE j = i
    BY <1>3, <2>1
  <2>2. CASE j # i
    <3>1. Idle(calls[j]) /\ calls'[j] = calls[j]
      BY <1>1, <1>3, <2>2
    <3>2. calls[j].kind # "transcribe" => calls[j].decode = "main"
      BY DEF StreamingInv, CallFits
    <3>3. QED  BY <3>1, <3>2 DEF CallFits
  <2>3. QED  BY <2>1, <2>2
<1>7. StreamFits(\A j \in DOMAIN calls' : Idle(calls'[j]), stream', enc', decoder'["main"])
  <2>1. (\A j \in DOMAIN calls' : Idle(calls'[j])) <=> Idle(k)
    BY <1>1, <1>2, <1>3
  <2>2. QED  BY <2>1 DEF StreamFits
<1>8. QED  BY <1>3, <1>4, <1>5, <1>6, <1>7 DEF StreamingInv

\* The buffers in somebody's hands: the tensors of the live stream and of the one a call works on, and
\* what that call downloads.
LEMMA Holding ==
  ASSUME StreamingInv, NEW i, Acts(i)
  PROVE  /\ Streaming!Unused = Streaming!Streams \ {stream, calls[i].on}
         /\ IsFiniteSet(Streaming!Held)
         /\ \A x : x \in Streaming!Held <=>
              /\ x # 0
              /\ \/ x = calls[i].frames
                 \/ \E s \in {stream, calls[i].on} \ {0} : x = enc[s].cache \/ x = enc[s].fixed
<1> DEFINE T(s) == {enc[s].cache, enc[s].fixed}
           used == {stream, calls[i].on} \ {0}
<1>1. /\ i \in DOMAIN calls /\ calls[i] \in Streaming!Call
      /\ \A j \in DOMAIN calls \ {i} : calls[j].on = 0 /\ calls[j].frames = 0
      /\ stream \in {0} \cup Streaming!Streams /\ calls[i].on \in {0} \cup Streaming!Streams
  <2>1. calls[i].on \in {0} \cup Streaming!Streams
    BY Acting DEF Streaming!Call, Streaming!Streams
  <2>2. QED  BY <2>1, Acting DEF Acts, Idle, StreamingInv, Streaming!TypeOK
<1>2. Streaming!Unused = Streaming!Streams \ {stream, calls[i].on}
  <2>1. 0 \notin Streaming!Streams
    BY DEF Streaming!Streams
  <2>2. \A s \in Streaming!Streams : s \in {calls[j].on : j \in DOMAIN calls} <=> s = calls[i].on
    BY <1>1, <2>1
  <2>3. QED  BY <2>2 DEF Streaming!Unused
<1>3. Streaming!Streams \ Streaming!Unused = used
  <2>1. 0 \notin Streaming!Streams
    BY DEF Streaming!Streams
  <2>2. QED  BY <1>1, <1>2, <2>1
<1>4. ASSUME NEW x
      PROVE  x \in Streaming!Held <=>
               /\ x # 0
               /\ \/ x = calls[i].frames
                  \/ \E s \in used : x = enc[s].cache \/ x = enc[s].fixed
  <2>1. x \in Streaming!Held <=>
          /\ x # 0
          /\ \/ \E s \in Streaming!Streams \ Streaming!Unused : x \in {enc[s].cache, enc[s].fixed}
             \/ \E j \in DOMAIN calls : x = calls[j].frames
    BY DEF Streaming!Held
  <2>2. x # 0 => ((\E j \in DOMAIN calls : x = calls[j].frames) <=> x = calls[i].frames)
    BY <1>1
  <2> HIDE DEF used
  <2>3. QED  BY <1>3, <2>1, <2>2
<1>5. IsFiniteSet(Streaming!Held)
  <2> DEFINE all == (T(stream) \cup T(calls[i].on)) \cup {calls[i].frames}
  <2>1. IsFiniteSet(T(stream)) /\ IsFiniteSet(T(calls[i].on)) /\ IsFiniteSet({calls[i].frames})
    BY PairIsFinite
  <2>2. IsFiniteSet(T(stream) \cup T(calls[i].on))
    BY <2>1, FS_Union
  <2>3. IsFiniteSet(all)
    BY <2>1, <2>2, FS_Union
  <2>4. Streaming!Held \subseteq all
    BY <1>4
  <2> HIDE DEF all
  <2>5. QED  BY <2>3, <2>4, FS_Subset
<1>6. QED  BY <1>2, <1>4, <1>5

\* createEncodeStream for a push or a batch.
LEMMA CreateKeeps ==
  ASSUME StreamingInv, NEW i, Acts(i), Idle(calls[i]), stream = 0, calls[i].kind # "finish",
         NEW d \in Streaming!Decoders, calls[i].kind # "transcribe" => d = "main",
         Streaming!Create(i, Streaming!Min(Streaming!Unused), d),
         stream' = IF calls[i].kind = "transcribe" THEN 0 ELSE Streaming!Min(Streaming!Unused),
         UNCHANGED <<pool, readbackFailures>>
  PROVE  StreamingInv'
<1> DEFINE s == Streaming!Min(Streaming!Unused)
           k == calls[i]
           b == Streaming!CreateBuffer(pool, Streaming!Held).last
           k2 == [k EXCEPT !.at = "encode", !.on = s, !.decode = d]
<1>1. /\ k \in Streaming!Call /\ CallFits(k, stream, enc, decoder["main"]) /\ Closed(pool)
      /\ enc \in [Streaming!Streams -> Streaming!Stream]
      /\ decoder \in [Streaming!Decoders -> [on : {0} \cup Streaming!Streams, next : Nat]]
      /\ readbackFailures \in 0 .. MaxReadbackFailures
  BY Acting DEF StreamingInv, Streaming!TypeOK, Closed
<1>2. s \in Streaming!Streams
  <2>1. Streaming!Unused = Streaming!Streams \ {0}
    BY Holding DEF Idle
  <2>2. Streaming!Unused \subseteq Nat /\ Streaming!Unused # {}
    BY <2>1 DEF Streaming!Streams
  <2>3. QED  BY <2>1, <2>2, MinIsLeast
<1>3. b \in Streaming!Buffers
  <2>1. IsFiniteSet(Streaming!InArenas(pool)) /\ IsFiniteSet(Streaming!Held) /\ pool \in Streaming!Pool
    BY <1>1, ArenaBuffers, FS_EmptySet, Holding DEF Closed
  <2>2. QED  BY <2>1, CreateBufferIsNew
<1> DEFINE e2 == [Streaming!NoStream EXCEPT !.fed = k.size, !.fixed = b]
<1>4. /\ enc' = [enc EXCEPT ![s] = e2]
      /\ decoder' = [decoder EXCEPT ![d] = [on |-> s, next |-> 1]]
      /\ calls' = [calls EXCEPT ![i] = k2]
  <2>1. i \in DOMAIN calls /\ calls \in Seq(Streaming!Call)
    BY DEF Acts, StreamingInv, Streaming!TypeOK
  <2> HIDE DEF b
  <2>2. calls' = [calls EXCEPT ![i].at = "encode", ![i].on = s, ![i].decode = d]
    BY DEF Streaming!Create
  <2> HIDE DEF s
  <2>3. calls' = [calls EXCEPT ![i] = k2]
    BY <2>1, <2>2 DEF Streaming!Call
  <2>4. QED  BY <2>3 DEF Streaming!Create, s, b
<1> HIDE DEF s, b, k
<1>5. /\ e2 \in Streaming!Stream /\ e2.fixed = b /\ e2.ids = <<>> /\ e2.subT = 0 /\ e2.fed = k.size
      /\ e2.finished = FALSE /\ e2.broken = FALSE
  <2>1. k.size \in Nat /\ b \in Nat /\ <<>> \in Seq(Nat)
    BY <1>1, <1>3, PlaygroundConstants DEF Streaming!Call, Streaming!Buffers, Streaming!StreamingConstants
  <2>2. QED  BY <2>1 DEF Streaming!NoStream, Streaming!Stream
<1>6. /\ k2 \in Streaming!Call /\ k2.at = "encode" /\ k2.on = s /\ k2.decode = d /\ k2.kind = k.kind
      /\ k2.frames = 0 /\ k2.outs = <<>> /\ k2.size = k.size
  <2>1. s \in 0 .. 3 /\ k.frames = 0 /\ k.outs = <<>>
    BY <1>2 DEF Streaming!Streams, Idle, k
  <2>2. QED  BY <1>1, <2>1 DEF Streaming!Call, Streaming!Decoders
<1> HIDE DEF e2, k2
<1>7. /\ enc' \in [Streaming!Streams -> Streaming!Stream] /\ enc'[s] = e2
      /\ decoder' \in [Streaming!Decoders -> [on : {0} \cup Streaming!Streams, next : Nat]]
      /\ decoder'[d] = [on |-> s, next |-> 1] /\ Closed(pool')
      /\ stream' \in {0} \cup Streaming!Streams /\ (stream' # 0 => stream' = s /\ k.kind # "transcribe")
  BY <1>1, <1>2, <1>4, <1>5 DEF k, s
<1>8. /\ e2.fixed # 0 /\ k.size \in Nat /\ Len(e2.ids) = 0 /\ DOMAIN e2.ids = {} /\ DOMAIN k2.outs = {}
      /\ Len(k2.outs) = 0
  BY <1>1, <1>3, <1>5, <1>6, PlaygroundConstants
     DEF Streaming!Buffers, Streaming!Call, Streaming!StreamingConstants
<1>9. ASSUME stream' # 0
      PROVE  k2.kind # "transcribe" /\ k2.on = stream' /\ Hears(k2, enc'[stream'], decoder'["main"])
  <2>1. stream' = s /\ k.kind # "transcribe" /\ k.kind # "finish" /\ d = "main"
    BY <1>7, <1>9 DEF k
  <2>2. QED  BY <1>5, <1>6, <1>7, <1>8, <2>1 DEF Hears
<1>10. CallFits(k2, stream', enc', decoder'["main"])
  BY <1>1, <1>2, <1>5, <1>6, <1>7, <1>8, <1>9 DEF CallFits, Working, k
<1>11. StreamFits(Idle(k2), stream', enc', decoder'["main"])
  BY <1>5, <1>6, <1>7, <1>8 DEF StreamFits, Idle
<1>12. QED
  BY <1>1, <1>4, <1>6, <1>7, <1>10, <1>11, ActingStep

\* A call that is over, and leaves the live stream as it fits.
LEMMA OverKeeps ==
  ASSUME StreamingInv, NEW i, Acts(i), NEW how \in {"done", "failed"}, calls' = Streaming!Over(i, how),
         Closed(pool'), enc' \in [Streaming!Streams -> Streaming!Stream], stream' = stream,
         decoder' \in [Streaming!Decoders -> [on : {0} \cup Streaming!Streams, next : Nat]],
         readbackFailures' \in 0 .. MaxReadbackFailures,
         StreamFits(TRUE, stream, enc', decoder'["main"])
  PROVE  StreamingInv'
<1> DEFINE k == calls[i]
           k2 == [k EXCEPT !.at = how, !.on = 0, !.frames = 0, !.outs = <<>>]
<1>1. /\ k \in Streaming!Call /\ CallFits(k, stream, enc, decoder["main"])
      /\ i \in DOMAIN calls /\ calls \in Seq(Streaming!Call) /\ stream \in {0} \cup Streaming!Streams
  BY Acting DEF Acts, StreamingInv, Streaming!TypeOK
<1>2. calls' = [calls EXCEPT ![i] = k2]
  BY <1>1 DEF Streaming!Over, Streaming!Call
<1> HIDE DEF k
<1>3. /\ k2 \in Streaming!Call /\ k2.at = how /\ k2.kind = k.kind /\ k2.decode = k.decode
      /\ k2.on = 0 /\ k2.frames = 0 /\ k2.outs = <<>>
  <2>1. <<>> \in Seq(Nat) /\ 0 \in 0 .. 3 /\ 0 \in Nat
    OBVIOUS
  <2>2. QED  BY <1>1, <2>1 DEF Streaming!Call
<1> HIDE DEF k2
<1>4. Idle(k2)
  BY <1>3 DEF Idle
<1>5. CallFits(k2, stream', enc', decoder'["main"])
  BY <1>1, <1>3, <1>4 DEF CallFits
<1>6. StreamFits(Idle(k2), stream', enc', decoder'["main"])
  BY <1>4 DEF StreamFits
<1>7. k2.at # "queued"
  BY <1>3
<1>8. QED
  BY <1>1, <1>2, <1>3, <1>5, <1>6, <1>7, ActingStep

\* What the state gives the action of a call that is under way.
LEMMA UnderWay ==
  ASSUME StreamingInv, NEW i, i \in DOMAIN calls,
         calls[i].at \in {"encode", "download", "flush", "flushed"}
  PROVE  /\ Acts(i) /\ calls[i] \in Streaming!Call
         /\ Working(calls[i], stream, enc, decoder["main"])
         /\ calls[i].kind # "transcribe" => calls[i].decode = "main"
         /\ StreamFits(FALSE, stream, enc, decoder["main"])
<1>1. Acts(i)
  BY DEF Acts
<1>2. /\ calls[i] \in Streaming!Call /\ CallFits(calls[i], stream, enc, decoder["main"])
      /\ StreamFits(Idle(calls[i]), stream, enc, decoder["main"])
  BY <1>1, Acting
<1>3. ~Idle(calls[i])
  BY DEF Idle
<1>4. QED  BY <1>1, <1>2, <1>3 DEF CallFits, StreamFits

\* The kinds of the variables, between two passes.
LEMMA StreamingTypes ==
  ASSUME StreamingInv
  PROVE  /\ Closed(pool) /\ enc \in [Streaming!Streams -> Streaming!Stream]
         /\ stream \in {0} \cup Streaming!Streams
         /\ decoder \in [Streaming!Decoders -> [on : {0} \cup Streaming!Streams, next : Nat]]
         /\ calls \in Seq(Streaming!Call)
         /\ readbackFailures \in 0 .. MaxReadbackFailures
         /\ 0 \notin Streaming!Streams
BY DEF StreamingInv, Streaming!TypeOK, Closed, Streaming!Streams

\* A batch that ends gives its tensors to the pool and trims it.
LEMMA EndPool ==
  ASSUME StreamingInv, NEW i, i \in DOMAIN calls,
         calls[i].at \in {"encode", "download", "flush", "flushed"},
         pool' = IF calls[i].kind = "transcribe"
                 THEN Streaming!Trim(Streaming!Dispose(pool, calls[i].on), Budget) ELSE pool
  PROVE  Closed(pool')
<1>1. /\ calls[i].on \in Streaming!Streams /\ enc[calls[i].on].fixed # 0
  BY UnderWay DEF Working
<1>2. Closed(Streaming!Dispose(pool, calls[i].on))
  BY <1>1, StreamingTypes, DisposePools
<1>3. Closed(Streaming!Trim(Streaming!Dispose(pool, calls[i].on), Budget))
  BY <1>2, TrimTakes
<1>4. QED  BY <1>3, StreamingTypes

\* The live stream once a call's passes are decoded.
Decoded(s, st, d) ==
  /\ Len(s.ids) = s.subT /\ \A n \in DOMAIN s.ids : s.ids[n] = n
  /\ d = [on |-> st, next |-> Len(s.ids) + 1]

\* Two states of a stream that differ in its text.
TextApart(s, s2) ==
  /\ s2.fixed = s.fixed /\ s2.cache = s.cache /\ s2.fed = s.fed /\ s2.subT = s.subT
  /\ s2.finished = s.finished /\ s2.broken = s.broken /\ s2.flushed = s.flushed

\* A call decodes its passes in order, and changes nothing but the text of its stream.
LEMMA ConsumeDecodes ==
  ASSUME StreamingInv, NEW i, i \in DOMAIN calls,
         calls[i].at \in {"encode", "download", "flush", "flushed"}, Streaming!Consume(i)
  PROVE  /\ enc' \in [Streaming!Streams -> Streaming!Stream]
         /\ decoder' \in [Streaming!Decoders -> [on : {0} \cup Streaming!Streams, next : Nat]]
         /\ \A s \in Streaming!Streams : TextApart(enc[s], enc'[s])
         /\ stream # 0 => Decoded(enc'[stream], stream, decoder'["main"])
<1> DEFINE k == calls[i]
           t == Streaming!Target(i)
           d == decoder[k.decode]
           tokens == Streaming!Tokens(i)
<1>1. /\ k \in Streaming!Call /\ Working(k, stream, enc, decoder["main"])
      /\ k.kind # "transcribe" => k.decode = "main"
      /\ stream # 0 => \A n \in DOMAIN enc[stream].ids : enc[stream].ids[n] = n
  BY UnderWay DEF StreamFits
<1>2. /\ enc \in [Streaming!Streams -> Streaming!Stream] /\ stream \in {0} \cup Streaming!Streams
      /\ decoder \in [Streaming!Decoders -> [on : {0} \cup Streaming!Streams, next : Nat]]
      /\ k.outs \in Seq(Nat) /\ k.decode \in Streaming!Decoders /\ k.on \in Streaming!Streams
  BY <1>1, StreamingTypes DEF Streaming!Call, Streaming!Decoders, Working
<1>3. CASE k.outs = <<>>
  <2>1. enc' = enc /\ decoder' = decoder
    BY <1>3 DEF Streaming!Consume
  <2>2. \A s \in Streaming!Streams : TextApart(enc[s], enc'[s])
    BY <2>1 DEF TextApart
  <2>3. ASSUME stream # 0
        PROVE  Decoded(enc'[stream], stream, decoder'["main"])
    <3>1. Hears(k, enc[stream], decoder["main"]) /\ k.on = stream
      BY <1>1, <2>3 DEF Working
    <3>2. Len(k.outs) = 0 /\ enc[stream].ids \in Seq(Nat) /\ enc[stream].subT \in Nat
      BY <1>2, <1>3, <2>3 DEF Streaming!Stream
    <3>3. QED  BY <1>1, <2>1, <2>3, <3>1, <3>2 DEF Hears, Decoded
  <2>4. QED  BY <1>2, <2>1, <2>2, <2>3
<1>4. CASE k.outs # <<>>
  <2>1. /\ t # 0 /\ enc' = [enc EXCEPT ![t].ids = @ \o tokens]
        /\ decoder' = [decoder EXCEPT ![k.decode].next = @ + Len(k.outs)]
    BY <1>4 DEF Streaming!Consume
  <2>2. t \in Streaming!Streams /\ (stream # 0 => t = stream /\ k.decode = "main")
    BY <1>1, <1>2, <2>1 DEF Streaming!Target, Working
  <2>3. tokens \in Seq(Nat) /\ Len(tokens) = Len(k.outs)
    <3>1. tokens \in [1 .. Len(k.outs) -> Nat] /\ Len(k.outs) \in Nat
      BY <1>2 DEF Streaming!Tokens
    <3> HIDE DEF tokens
    <3>2. QED  BY <3>1, FunctionIsSeq
  <2> DEFINE ids == enc[t].ids
  <2>4. ids \in Seq(Nat) /\ ids \o tokens \in Seq(Nat) /\ enc[t] \in Streaming!Stream
        /\ Len(ids \o tokens) = Len(ids) + Len(tokens)
    <3>1. ids \in Seq(Nat) /\ enc[t] \in Streaming!Stream
      BY <1>2, <2>2 DEF Streaming!Stream
    <3> HIDE DEF ids, tokens
    <3>2. QED  BY <2>3, <3>1, ConcatOfSeqs
  <2> HIDE DEF t, tokens
  <2>5. /\ enc' \in [Streaming!Streams -> Streaming!Stream] /\ enc'[t].ids = ids \o tokens
        /\ \A s \in Streaming!Streams : TextApart(enc[s], enc'[s])
    <3>1. [enc[t] EXCEPT !.ids = ids \o tokens] \in Streaming!Stream
      BY <2>4 DEF Streaming!Stream
    <3>2. /\ enc'[t] = [enc[t] EXCEPT !.ids = ids \o tokens]
          /\ \A s \in Streaming!Streams \ {t} : enc'[s] = enc[s]
          /\ enc' \in [Streaming!Streams -> Streaming!Stream]
      BY <1>2, <2>1, <2>2, <3>1
    <3>3. TextApart(enc[t], enc'[t]) /\ enc'[t].ids = ids \o tokens
      BY <2>4, <3>2 DEF TextApart, Streaming!Stream
    <3>4. QED  BY <3>2, <3>3 DEF TextApart
  <2>6. /\ decoder' \in [Streaming!Decoders -> [on : {0} \cup Streaming!Streams, next : Nat]]
        /\ decoder'[k.decode] = [on |-> d.on, next |-> d.next + Len(k.outs)]
    <3>1. d \in [on : {0} \cup Streaming!Streams, next : Nat] /\ Len(k.outs) \in Nat
      BY <1>2
    <3>2. [d EXCEPT !.next = @ + Len(k.outs)] = [on |-> d.on, next |-> d.next + Len(k.outs)]
      BY <3>1
    <3> DEFINE r == [on |-> d.on, next |-> d.next + Len(k.outs)]
    <3>3. r \in [on : {0} \cup Streaming!Streams, next : Nat]
      BY <3>1
    <3>4. decoder' = [decoder EXCEPT ![k.decode] = r]
      BY <2>1, <3>2
    <3> HIDE DEF r
    <3>5. decoder' \in [Streaming!Decoders -> [on : {0} \cup Streaming!Streams, next : Nat]]
          /\ decoder'[k.decode] = r
      BY <1>2, <3>3, <3>4
    <3>6. QED  BY <3>5 DEF r
  <2>7. ASSUME stream # 0
        PROVE  Decoded(enc'[stream], stream, decoder'["main"])
    <3>1. /\ Hears(k, enc[stream], decoder["main"]) /\ k.on = stream /\ t = stream /\ k.decode = "main"
          /\ \A n \in DOMAIN ids : ids[n] = n
      BY <1>1, <2>2, <2>7 DEF Working
    <3>2. /\ d = [on |-> stream, next |-> Len(ids) + 1] /\ Len(ids) + Len(k.outs) = enc[stream].subT
          /\ \A n \in DOMAIN k.outs : k.outs[n] = Len(ids) + n
      BY <3>1 DEF Hears
    <3>3. \A n \in 1 .. Len(k.outs) : tokens[n] = Len(ids) + n
      <4>1. ASSUME NEW n \in 1 .. Len(k.outs)
            PROVE  tokens[n] = Len(ids) + n
        <5>1. n \in DOMAIN k.outs /\ n \in Nat /\ Len(ids) \in Nat
          BY <1>2, <2>4
        <5>2. d.on = k.on /\ d.next = Len(ids) + 1
          BY <3>1, <3>2
        <5>3. (d.next + n) - 1 = k.outs[n] /\ d.next + n - 1 = (d.next + n) - 1
          BY <3>2, <5>1, <5>2
        <5>4. tokens[n] = IF d.on = k.on /\ d.next + n - 1 = k.outs[n] THEN k.outs[n] ELSE 0
          BY <5>1 DEF tokens, Streaming!Tokens
        <5>5. QED  BY <3>2, <5>1, <5>2, <5>3, <5>4
      <4>2. QED  BY <4>1
    <3> DEFINE all == ids \o tokens
    <3>4. \A n \in DOMAIN all : all[n] = n
      <4>1. /\ DOMAIN all = 1 .. Len(ids) + Len(tokens)
            /\ \A n \in 1 .. Len(ids) : all[n] = ids[n]
            /\ \A n \in 1 .. Len(tokens) : all[Len(ids) + n] = tokens[n]
            /\ Len(ids) \in Nat /\ Len(tokens) \in Nat /\ DOMAIN ids = 1 .. Len(ids)
        <5> HIDE DEF ids
        <5>1. QED  BY <2>3, <2>4, ConcatOfSeqs
      <4> HIDE DEF ids, all
      <4>2. ASSUME NEW n \in 1 .. Len(ids) + Len(tokens)
            PROVE  all[n] = n
        <5>1. CASE n <= Len(ids)
          BY <3>1, <4>1, <5>1
        <5>2. CASE n > Len(ids)
          <6>1. n - Len(ids) \in 1 .. Len(tokens) /\ Len(ids) + (n - Len(ids)) = n
            BY <4>1, <5>2
          <6>2. QED  BY <2>3, <3>3, <4>1, <6>1
        <5>3. QED  BY <4>1, <5>1, <5>2
      <4>3. QED  BY <4>1, <4>2
    <3>5. Len(all) = enc[stream].subT /\ Len(all) = Len(ids) + Len(k.outs)
      BY <2>3, <2>4, <3>2
    <3>6. decoder'["main"] = [on |-> stream, next |-> Len(all) + 1]
      <4>1. d.on = stream /\ d.next = Len(ids) + 1 /\ Len(ids) \in Nat /\ Len(k.outs) \in Nat
        BY <1>2, <2>4, <3>2
      <4>2. d.next + Len(k.outs) = Len(all) + 1
        <5>1. \A e, b \in Nat : (e + 1) + b = (e + b) + 1
          OBVIOUS
        <5>2. (Len(ids) + 1) + Len(k.outs) = (Len(ids) + Len(k.outs)) + 1
          BY <4>1, <5>1
        <5>3. QED  BY <3>5, <4>1, <5>2, Zenon
      <4>3. QED  BY <2>6, <3>1, <4>1, <4>2
    <3> HIDE DEF all
    <3>7. enc'[stream].ids = all /\ enc'[stream].subT = enc[stream].subT
      BY <1>2, <2>5, <2>7, <3>1 DEF TextApart, all
    <3>8. QED  BY <3>4, <3>5, <3>6, <3>7 DEF Decoded
  <2>8. QED  BY <2>5, <2>6, <2>7
<1>5. QED  BY <1>3, <1>4

(***************************************************************************)
(* The steps.                                                              *)
(***************************************************************************)
LEMMA AskKeeps ==
  ASSUME StreamingInv, NEW kind \in {"push", "finish", "transcribe"}, NEW size \in 0 .. MaxPasses,
         Streaming!Ask(kind, size)
  PROVE  StreamingInv'
<1> DEFINE k == [kind |-> kind, size |-> size, at |-> "queued", on |-> 0,
                 frames |-> 0, outs |-> <<>>, decode |-> "main"]
           n == Len(calls)
<1>1. /\ calls \in Seq(Streaming!Call) /\ n \in Nat /\ n < MaxCalls /\ DOMAIN calls = 1 .. n
      /\ MaxCalls \in Nat
  BY PlaygroundConstants DEF StreamingInv, Streaming!TypeOK, Streaming!Ask, Streaming!StreamingConstants
<1>2. k \in Streaming!Call /\ Idle(k) /\ k.decode = "main" /\ k.at = "queued"
  BY DEF Streaming!Call, Idle
<1>3. calls' = Append(calls, k) /\ UNCHANGED <<pool, enc, stream, decoder, readbackFailures>>
  BY DEF Streaming!Ask
<1> HIDE DEF k
<1>4. /\ calls' \in Seq(Streaming!Call) /\ Len(calls') = n + 1 /\ DOMAIN calls' = 1 .. n + 1
      /\ calls'[n + 1] = k /\ \A j \in 1 .. n : calls'[j] = calls[j]
  BY <1>1, <1>2, <1>3
<1> HIDE DEF n
<1>5. Streaming!TypeOK' /\ pool'.arenas = <<>>
  BY <1>1, <1>3, <1>4 DEF StreamingInv, Streaming!TypeOK
<1>6. InTurn(calls')
  BY <1>1, <1>2, <1>4 DEF StreamingInv, InTurn
<1>7. \A j \in DOMAIN calls' : CallFits(calls'[j], stream', enc', decoder'["main"])
  <2>1. CallFits(k, stream, enc, decoder["main"])
    BY <1>2 DEF CallFits
  <2>2. \A j \in 1 .. n : CallFits(calls[j], stream, enc, decoder["main"])
    BY <1>1 DEF StreamingInv
  <2>3. QED  BY <1>1, <1>3, <1>4, <2>1, <2>2
<1>8. StreamFits(\A j \in DOMAIN calls' : Idle(calls'[j]), stream', enc', decoder'["main"])
  <2>1. (\A j \in DOMAIN calls' : Idle(calls'[j])) <=> (\A j \in DOMAIN calls : Idle(calls[j]))
    BY <1>1, <1>2, <1>4
  <2>2. QED  BY <1>3, <2>1 DEF StreamingInv, StreamFits
<1>9. QED  BY <1>5, <1>6, <1>7, <1>8 DEF StreamingInv

\* A call that begins is idle.
LEMMA Beginning ==
  ASSUME StreamingInv, NEW i, NEW kind, Streaming!Waiting(i, kind)
  PROVE  /\ Acts(i) /\ Idle(calls[i]) /\ calls[i] \in Streaming!Call
         /\ calls[i].kind = kind /\ calls[i].at = "queued"
         /\ calls[i].kind # "transcribe" => calls[i].decode = "main"
         /\ StreamFits(TRUE, stream, enc, decoder["main"])
<1>1. i \in DOMAIN calls /\ calls[i].at = "queued" /\ calls[i].kind = kind /\ Acts(i)
  BY DEF Streaming!Waiting, Acts
<1>2. /\ calls[i] \in Streaming!Call /\ CallFits(calls[i], stream, enc, decoder["main"])
      /\ StreamFits(Idle(calls[i]), stream, enc, decoder["main"])
  BY <1>1, Acting
<1>3. Idle(calls[i])
  BY <1>1, <1>2 DEF CallFits, Working
<1>4. QED  BY <1>1, <1>2, <1>3 DEF CallFits, StreamFits

\* A push or finish feeds the live stream that takes audio.
LEMMA FeedKeeps ==
  ASSUME StreamingInv, NEW i, NEW kind \in {"push", "finish"}, Streaming!Waiting(i, kind), Streaming!Open,
         Streaming!Feed(i, kind = "finish"), UNCHANGED <<pool, stream, decoder, readbackFailures>>
  PROVE  StreamingInv'
<1> DEFINE k == calls[i]
           s == enc[stream]
           k2 == [k EXCEPT !.at = "encode", !.on = stream]
           s2 == [s EXCEPT !.fed = @ + k.size, !.finished = (kind = "finish")]
<1>1. /\ Acts(i) /\ Idle(k) /\ k \in Streaming!Call /\ k.kind = kind /\ k.at = "queued"
      /\ k.decode = "main" /\ StreamFits(TRUE, stream, enc, decoder["main"])
  BY Beginning
<1>2. /\ Closed(pool) /\ enc \in [Streaming!Streams -> Streaming!Stream]
      /\ stream \in Streaming!Streams /\ ~s.finished /\ ~s.broken /\ stream # 0
      /\ decoder \in [Streaming!Decoders -> [on : {0} \cup Streaming!Streams, next : Nat]]
      /\ calls \in Seq(Streaming!Call)
      /\ readbackFailures \in 0 .. MaxReadbackFailures
  BY StreamingTypes DEF Streaming!Open
<1>3. /\ s.fixed # 0 /\ \A n \in DOMAIN s.ids : s.ids[n] = n
      /\ Len(s.ids) = s.subT /\ s.subT = s.fed
      /\ decoder["main"] = [on |-> stream, next |-> Len(s.ids) + 1]
  BY <1>1, <1>2 DEF StreamFits
<1>4. s \in Streaming!Stream /\ k.size \in Nat
  BY <1>1, <1>2, PlaygroundConstants DEF Streaming!Call, Streaming!StreamingConstants
<1>5. calls' = [calls EXCEPT ![i] = k2] /\ enc' = [enc EXCEPT ![stream] = s2]
  BY <1>1, <1>2, <1>4 DEF Streaming!Feed, Acts, Streaming!Call, Streaming!Stream
<1>6. /\ s2 \in Streaming!Stream /\ s2.fixed = s.fixed /\ s2.ids = s.ids /\ s2.subT = s.subT
      /\ s2.fed = s.fed + k.size /\ s2.broken = FALSE /\ s2.finished = (kind = "finish")
  <2> DEFINE fin == (kind = "finish")
             fed == s.fed + k.size
  <2>1. fin \in BOOLEAN /\ s2 = [s EXCEPT !.fed = fed, !.finished = fin]
    OBVIOUS
  <2>2. fed \in Nat /\ s.broken = FALSE
    BY <1>2, <1>4 DEF Streaming!Stream
  <2> HIDE DEF fin, fed, s2
  <2>3. /\ s2 \in Streaming!Stream /\ s2.fixed = s.fixed /\ s2.ids = s.ids /\ s2.subT = s.subT
        /\ s2.fed = fed /\ s2.broken = s.broken /\ s2.finished = fin
    BY <1>4, <2>1, <2>2 DEF Streaming!Stream
  <2>4. QED  BY <2>2, <2>3 DEF fin, fed
<1>7. /\ k2 \in Streaming!Call /\ k2.at = "encode" /\ k2.on = stream /\ k2.kind = kind
      /\ k2.decode = "main" /\ k2.frames = 0 /\ k2.outs = <<>>
  <2>1. stream \in 0 .. 3 /\ k.frames = 0 /\ k.outs = <<>>
    BY <1>1, <1>2 DEF Streaming!Streams, Idle
  <2>2. QED  BY <1>1, <2>1 DEF Streaming!Call
<1> HIDE DEF k2, s2, k
<1>8. enc' \in [Streaming!Streams -> Streaming!Stream] /\ enc'[stream] = s2
  BY <1>2, <1>5, <1>6
<1>9. Hears(k2, s2, decoder["main"])
  <2>1. Len(k2.outs) = 0 /\ DOMAIN k2.outs = {} /\ s.subT \in Nat /\ s.fed \in Nat /\ Len(s.ids) \in Nat
    BY <1>4, <1>7 DEF Streaming!Stream
  <2>2. s2.subT <= s2.fed
    BY <1>3, <1>4, <1>6, <2>1
  <2>3. Len(s2.ids) + Len(k2.outs) = s2.subT
    BY <1>3, <1>6, <2>1
  <2>4. decoder["main"] = [on |-> k2.on, next |-> Len(s2.ids) + 1]
    BY <1>3, <1>6, <1>7
  <2>5. kind = "push" => ~s2.finished
    BY <1>6
  <2>6. QED  BY <1>6, <1>7, <2>1, <2>2, <2>3, <2>4, <2>5 DEF Hears
<1>10. CallFits(k2, stream', enc', decoder'["main"])
  BY <1>2, <1>3, <1>6, <1>7, <1>8, <1>9 DEF CallFits, Working
<1>11. StreamFits(Idle(k2), stream', enc', decoder'["main"])
  BY <1>3, <1>6, <1>7, <1>8 DEF StreamFits, Idle
<1>12. QED
  BY <1>1, <1>2, <1>5, <1>7, <1>8, <1>10, <1>11, ActingStep

\* A push begins: it makes a stream, feeds the live one or fails.
LEMMA BeginPushKeeps ==
  ASSUME StreamingInv, NEW i, Streaming!BeginPush(i)
  PROVE  StreamingInv'
<1>1. /\ Streaming!Waiting(i, "push") /\ UNCHANGED <<pool, readbackFailures>>
  BY DEF Streaming!BeginPush
<1>2. /\ Acts(i) /\ Idle(calls[i]) /\ calls[i].kind = "push"
      /\ StreamFits(TRUE, stream, enc, decoder["main"])
  BY <1>1, Beginning
<1>3. CASE /\ stream = 0 /\ stream' = Streaming!Min(Streaming!Unused)
           /\ Streaming!Create(i, Streaming!Min(Streaming!Unused), "main")
  <2>1. "main" \in Streaming!Decoders
    BY DEF Streaming!Decoders
  <2>2. QED  BY <1>1, <1>2, <1>3, <2>1, CreateKeeps
<1>4. CASE Streaming!Open /\ Streaming!Feed(i, FALSE) /\ UNCHANGED <<stream, decoder>>
  <2>1. Streaming!Feed(i, "push" = "finish")
    BY <1>4 DEF Streaming!Feed
  <2>2. QED  BY <1>1, <1>4, <2>1, FeedKeeps
<1>5. CASE calls' = Streaming!Over(i, "failed") /\ UNCHANGED <<enc, stream, decoder>>
  BY <1>1, <1>2, <1>5, StreamingTypes, OverKeeps
<1>6. QED  BY <1>3, <1>4, <1>5 DEF Streaming!BeginPush

\* A finish begins: it feeds the live stream its last audio, or has nothing to do.
LEMMA BeginFinishKeeps ==
  ASSUME StreamingInv, NEW i, Streaming!BeginFinish(i)
  PROVE  StreamingInv'
<1>1. /\ Streaming!Waiting(i, "finish") /\ UNCHANGED <<pool, stream, decoder, readbackFailures>>
  BY DEF Streaming!BeginFinish
<1>2. Acts(i) /\ StreamFits(TRUE, stream, enc, decoder["main"])
  BY <1>1, Beginning
<1>3. CASE Streaming!Open /\ Streaming!Feed(i, TRUE)
  <2>1. Streaming!Feed(i, "finish" = "finish")
    BY <1>3 DEF Streaming!Feed
  <2>2. QED  BY <1>1, <1>3, <2>1, FeedKeeps
<1>4. CASE calls' = Streaming!Over(i, "done") /\ UNCHANGED enc
  BY <1>1, <1>2, <1>4, StreamingTypes, OverKeeps
<1>5. QED  BY <1>3, <1>4 DEF Streaming!BeginFinish

\* A batch begins with a stream of its own, unless there is a live one.
LEMMA BeginTranscribeKeeps ==
  ASSUME StreamingInv, NEW i, Streaming!BeginTranscribe(i)
  PROVE  StreamingInv'
<1>1. Streaming!Waiting(i, "transcribe")
  BY DEF Streaming!BeginTranscribe
<1>2. /\ Acts(i) /\ Idle(calls[i]) /\ calls[i].kind = "transcribe"
      /\ StreamFits(TRUE, stream, enc, decoder["main"])
  BY <1>1, Beginning
<1>3. CASE stream = 0 /\ Streaming!StartBatch(i)
  <2>1. PICK d \in Streaming!Decoders : Streaming!Create(i, Streaming!Min(Streaming!Unused), d)
    BY <1>3 DEF Streaming!StartBatch
  <2>2. UNCHANGED <<pool, stream, readbackFailures>>
    BY <1>3 DEF Streaming!StartBatch
  <2>3. QED  BY <1>2, <1>3, <2>1, <2>2, CreateKeeps
<1>4. CASE calls' = Streaming!Over(i, "failed") /\ UNCHANGED <<pool, enc, stream, decoder, readbackFailures>>
  BY <1>2, <1>4, StreamingTypes, OverKeeps
<1>5. QED  BY <1>3, <1>4 DEF Streaming!BeginTranscribe

\* A chunk pass: the stream's next cache and the frames come from the pool.
LEMMA PassKeeps ==
  ASSUME StreamingInv, NEW i, i \in DOMAIN calls, calls[i].at \in {"encode", "flush"},
         calls[i].at = "encode" => Streaming!Passes(i), Streaming!RunChunk(i, calls[i].on)
  PROVE  StreamingInv'
<1> DEFINE k == calls[i]
           s == enc[k.on]
           b == Streaming!PassBuffers
           k2 == [k EXCEPT !.at = "download", !.frames = b.frames]
           s2 == [s EXCEPT !.cache = b.cache, !.flushed = (k.at = "flush")]
<1>1. /\ Acts(i) /\ k \in Streaming!Call /\ Working(k, stream, enc, decoder["main"])
      /\ k.kind # "transcribe" => k.decode = "main"
      /\ StreamFits(FALSE, stream, enc, decoder["main"])
  BY UnderWay
<1>2. /\ Closed(pool) /\ enc \in [Streaming!Streams -> Streaming!Stream]
      /\ stream \in {0} \cup Streaming!Streams
      /\ decoder \in [Streaming!Decoders -> [on : {0} \cup Streaming!Streams, next : Nat]]
      /\ calls \in Seq(Streaming!Call)
      /\ readbackFailures \in 0 .. MaxReadbackFailures
      /\ k.on \in Streaming!Streams /\ s \in Streaming!Stream /\ s.fixed # 0
  BY <1>1, StreamingTypes DEF Working
<1>3. Closed(b.pool) /\ b.cache \in Streaming!Buffers /\ b.frames \in Streaming!Buffers
  BY <1>1, <1>2, Holding, PassTakes DEF Passed
<1> HIDE DEF b
<1>4. /\ pool' = IF s.cache = 0 THEN b.pool ELSE Streaming!Put(b.pool, s.cache)
      /\ UNCHANGED <<stream, decoder, readbackFailures>>
      /\ calls' = [calls EXCEPT ![i] = k2] /\ enc' = [enc EXCEPT ![k.on] = s2]
  <2>1. /\ enc' = [enc EXCEPT ![k.on].cache = b.cache, ![k.on].flushed = (calls[i].at = "flush")]
        /\ calls' = [calls EXCEPT ![i].at = "download", ![i].frames = b.frames]
        /\ pool' = IF s.cache = 0 THEN b.pool ELSE Streaming!Put(b.pool, s.cache)
        /\ UNCHANGED <<stream, decoder, readbackFailures>>
    BY DEF Streaming!RunChunk, b
  <2>2. QED  BY <1>1, <1>2, <2>1 DEF Streaming!Call, Streaming!Stream
<1>5. Closed(pool')
  <2>1. s.cache \in Nat
    BY <1>2 DEF Streaming!Stream
  <2>2. CASE s.cache = 0  BY <1>3, <1>4, <2>2
  <2>3. CASE s.cache # 0
    <3>1. s.cache \in Streaming!Buffers
      BY <2>1, <2>3 DEF Streaming!Buffers
    <3>2. QED  BY <1>3, <1>4, <2>3, <3>1, PutAdds
  <2>4. QED  BY <2>2, <2>3
<1>6. /\ s2 \in Streaming!Stream /\ s2.fixed = s.fixed /\ s2.ids = s.ids /\ s2.subT = s.subT
      /\ s2.fed = s.fed /\ s2.broken = s.broken /\ s2.finished = s.finished
      /\ s2.flushed = (k.at = "flush")
  BY <1>2, <1>3 DEF Streaming!Stream, Streaming!Buffers
<1>7. /\ k2 \in Streaming!Call /\ k2.at = "download" /\ k2.on = k.on /\ k2.kind = k.kind
      /\ k2.decode = k.decode /\ k2.frames # 0 /\ k2.outs = k.outs
  BY <1>1, <1>3 DEF Streaming!Call, Streaming!Buffers
<1>8. k.kind = "push" => k.at = "encode" /\ s.subT < s.fed
  <2>1. k.kind = "push" => k.at = "encode"
    BY <1>1 DEF Working
  <2>2. QED  BY <2>1 DEF Streaming!Passes
<1> HIDE DEF k2, s2
<1>9. /\ enc' \in [Streaming!Streams -> Streaming!Stream] /\ enc'[k.on] = s2
      /\ stream # 0 => k.on = stream
  BY <1>1, <1>2, <1>4, <1>6 DEF Working
<1>10. ASSUME stream # 0
       PROVE  k2.kind # "transcribe" /\ k2.on = stream /\ Hears(k2, enc'[stream], decoder["main"])
  <2>1. Hears(k, s, decoder["main"]) /\ k.kind # "transcribe" /\ k.on = stream
    BY <1>1, <1>9, <1>10 DEF Working
  <2>2. k.kind = "push" => s.subT < s.fed
    BY <1>8
  <2> HIDE DEF s
  <2>3. Hears(k2, s2, decoder["main"])
    BY <1>6, <1>7, <2>1, <2>2 DEF Hears
  <2>4. QED  BY <1>4, <1>7, <1>9, <1>10, <2>1, <2>3
<1>11. CallFits(k2, stream', enc', decoder'["main"])
  <2>1. k.kind = "push" => ~s2.flushed
    BY <1>6, <1>8
  <2>2. QED  BY <1>1, <1>2, <1>4, <1>6, <1>7, <1>9, <1>10, <2>1 DEF CallFits, Working
<1>12. StreamFits(Idle(k2), stream', enc', decoder'["main"])
  BY <1>1, <1>4, <1>6, <1>7, <1>9 DEF StreamFits, Idle
<1>13. QED
  BY <1>1, <1>2, <1>4, <1>5, <1>7, <1>9, <1>11, <1>12, ActingStep

\* The readback of a pass lands.
LEMMA DownloadKeeps ==
  ASSUME StreamingInv, NEW i, Streaming!Download(i)
  PROVE  StreamingInv'
<1> DEFINE k == calls[i]
           s == enc[k.on]
           at2 == IF s.flushed THEN "flushed" ELSE "encode"
           outs2 == Append(k.outs, s.subT + 1)
           k2 == [k EXCEPT !.at = at2, !.frames = 0, !.outs = outs2]
           s2 == [s EXCEPT !.subT = @ + 1]
<1>0. i \in DOMAIN calls /\ k.at = "download"
  BY DEF Streaming!Download, Streaming!At
<1>1. /\ Acts(i) /\ k \in Streaming!Call /\ Working(k, stream, enc, decoder["main"])
      /\ k.kind # "transcribe" => k.decode = "main"
      /\ StreamFits(FALSE, stream, enc, decoder["main"])
  BY <1>0, UnderWay
<1>2. /\ Closed(pool) /\ enc \in [Streaming!Streams -> Streaming!Stream]
      /\ stream \in {0} \cup Streaming!Streams
      /\ decoder \in [Streaming!Decoders -> [on : {0} \cup Streaming!Streams, next : Nat]]
      /\ calls \in Seq(Streaming!Call)
      /\ readbackFailures \in 0 .. MaxReadbackFailures
      /\ k.on \in Streaming!Streams /\ s \in Streaming!Stream /\ s.fixed # 0
      /\ k.frames \in Streaming!Buffers
  <2>1. k.frames \in Nat /\ k.frames # 0
    BY <1>0, <1>1 DEF Working, Streaming!Call
  <2>2. QED  BY <1>1, <2>1, StreamingTypes DEF Working, Streaming!Buffers
<1>3. /\ pool' = Streaming!Put(pool, k.frames)
      /\ UNCHANGED <<stream, decoder, readbackFailures>>
      /\ calls' = [calls EXCEPT ![i] = k2] /\ enc' = [enc EXCEPT ![k.on] = s2]
  <2>1. /\ enc' = [enc EXCEPT ![k.on].subT = @ + 1]
        /\ calls' = [calls EXCEPT ![i].at = at2, ![i].frames = 0, ![i].outs = Append(@, s.subT + 1)]
        /\ pool' = Streaming!Put(pool, k.frames) /\ UNCHANGED <<stream, decoder, readbackFailures>>
    BY DEF Streaming!Download
  <2>2. QED  BY <1>0, <1>1, <1>2, <2>1 DEF Streaming!Call, Streaming!Stream
<1>4. Closed(pool')
  BY <1>2, <1>3, PutAdds
<1>5. s.subT \in Nat /\ s.ids \in Seq(Nat) /\ Len(s.ids) \in Nat /\ s.fed \in Nat
  BY <1>2 DEF Streaming!Stream
<1>6. /\ s2 \in Streaming!Stream /\ s2.fixed = s.fixed /\ s2.ids = s.ids /\ s2.subT = s.subT + 1
      /\ s2.fed = s.fed /\ s2.broken = s.broken /\ s2.finished = s.finished
      /\ s2.flushed = s.flushed
  <2> DEFINE m == s.subT + 1
  <2>1. m \in Nat /\ s2 = [s EXCEPT !.subT = m]
    BY <1>5
  <2> HIDE DEF m, s2, s
  <2>2. /\ s2 \in Streaming!Stream /\ s2.fixed = s.fixed /\ s2.ids = s.ids /\ s2.subT = m
        /\ s2.fed = s.fed /\ s2.broken = s.broken /\ s2.finished = s.finished
        /\ s2.flushed = s.flushed
    BY <1>2, <2>1 DEF Streaming!Stream
  <2>3. QED  BY <2>2 DEF m
<1>7. /\ outs2 \in Seq(Nat) /\ Len(outs2) = Len(k.outs) + 1 /\ Len(k.outs) \in Nat
      /\ outs2[Len(k.outs) + 1] = s.subT + 1 /\ DOMAIN outs2 = 1 .. Len(k.outs) + 1
      /\ \A n \in 1 .. Len(k.outs) : outs2[n] = k.outs[n]
      /\ DOMAIN k.outs = 1 .. Len(k.outs)
  BY <1>1, <1>5 DEF Streaming!Call
<1> HIDE DEF outs2
<1>8. /\ k2 \in Streaming!Call /\ k2.at = at2 /\ k2.on = k.on /\ k2.kind = k.kind
      /\ k2.decode = k.decode /\ k2.frames = 0 /\ k2.outs = outs2
  BY <1>1, <1>7 DEF Streaming!Call
<1>9. at2 \in {"encode", "flushed"} /\ (k.kind = "push" => at2 = "encode")
  BY <1>0, <1>1 DEF Working
<1> HIDE DEF k2, s2, at2
<1>10. /\ enc' \in [Streaming!Streams -> Streaming!Stream] /\ enc'[k.on] = s2
       /\ stream # 0 => k.on = stream
  BY <1>1, <1>2, <1>3, <1>6 DEF Working
<1>11. ASSUME stream # 0
       PROVE  k2.kind # "transcribe" /\ k2.on = stream /\ Hears(k2, enc'[stream], decoder["main"])
  <2>1. Hears(k, s, decoder["main"]) /\ k.kind # "transcribe" /\ k.on = stream
    BY <1>1, <1>10, <1>11 DEF Working
  <2> DEFINE n == Len(s.ids)
             m == Len(k.outs)
  <2>2. /\ n \in Nat /\ m \in Nat /\ n + m = s.subT /\ \A j \in 1 .. m : k.outs[j] = n + j
        /\ k.kind = "push" => s.subT < s.fed /\ ~s.finished /\ ~s.broken
    BY <1>0, <1>5, <1>7, <2>1 DEF Hears
  <2>3. decoder["main"] = [on |-> k2.on, next |-> Len(s2.ids) + 1] /\ (k2.kind = "finish" => s2.finished)
    BY <1>6, <1>8, <2>1 DEF Hears
  <2>4. Len(s2.ids) = n /\ Len(k2.outs) = m + 1 /\ DOMAIN k2.outs = 1 .. m + 1
    BY <1>6, <1>7, <1>8
  <2>5. s2.subT = n + m + 1 /\ \A j \in 1 .. m + 1 : k2.outs[j] = n + j
    <3> HIDE DEF n, m
    <3>1. s2.subT = n + m + 1 /\ outs2[m + 1] = n + (m + 1)
      BY <1>5, <1>6, <1>7, <2>2 DEF m
    <3>2. ASSUME NEW j \in 1 .. m
          PROVE  outs2[j] = n + j
      BY <1>7, <2>2 DEF m
    <3>3. \A j \in 1 .. m + 1 : j \in 1 .. m \/ j = m + 1
      BY <2>2
    <3>4. QED  BY <1>8, <3>1, <3>2, <3>3
  <2>6. k2.kind = "push" => ~s2.finished /\ ~s2.broken /\ s2.subT <= s2.fed
    <3> HIDE DEF n, m
    <3>1. QED  BY <1>5, <1>6, <1>8, <2>2
  <2> HIDE DEF n, m
  <2>7. Len(s2.ids) + Len(k2.outs) = s2.subT
    BY <2>2, <2>4, <2>5
  <2>8. \A j \in DOMAIN k2.outs : k2.outs[j] = Len(s2.ids) + j
    BY <2>4, <2>5
  <2>9. k2.at # "download"
    BY <1>8, <1>9
  <2>10. Hears(k2, s2, decoder["main"])
    BY <2>3, <2>6, <2>7, <2>8, <2>9 DEF Hears
  <2>11. QED  BY <1>8, <1>10, <1>11, <2>1, <2>10
<1>12. CallFits(k2, stream', enc', decoder'["main"])
  BY <1>1, <1>2, <1>3, <1>6, <1>8, <1>9, <1>10, <1>11 DEF CallFits, Working
<1>13. StreamFits(Idle(k2), stream', enc', decoder'["main"])
  BY <1>1, <1>3, <1>6, <1>8, <1>9, <1>10 DEF StreamFits, Idle
<1>14. QED
  BY <1>1, <1>2, <1>3, <1>4, <1>8, <1>9, <1>10, <1>12, <1>13, ActingStep

\* The call's text is complete.
LEMMA CompleteKeeps ==
  ASSUME StreamingInv, NEW i, i \in DOMAIN calls, calls[i].at \in {"encode", "flush", "flushed"},
         Streaming!Complete(i),
         enc' \in [Streaming!Streams -> Streaming!Stream],
         decoder' \in [Streaming!Decoders -> [on : {0} \cup Streaming!Streams, next : Nat]],
         StreamFits(TRUE, stream, enc', decoder'["main"])
  PROVE  StreamingInv'
<1>1. /\ calls' = Streaming!Over(i, "done") /\ UNCHANGED <<stream, readbackFailures>>
      /\ pool' = IF calls[i].kind = "transcribe"
                 THEN Streaming!Trim(Streaming!Dispose(pool, calls[i].on), Budget) ELSE pool
  BY DEF Streaming!Complete
<1>2. Closed(pool') /\ Acts(i)
  BY <1>1, EndPool, UnderWay
<1>3. QED  BY <1>1, <1>2, StreamingTypes, OverKeeps

\* A call runs its next pass, or decodes what it has run.
LEMMA EncodeKeeps ==
  ASSUME StreamingInv, NEW i, Streaming!Encode(i)
  PROVE  StreamingInv'
<1> DEFINE k == calls[i]
<1>0. i \in DOMAIN calls /\ k.at = "encode"
  BY DEF Streaming!Encode, Streaming!At
<1>1. /\ Acts(i) /\ k \in Streaming!Call /\ Working(k, stream, enc, decoder["main"])
      /\ k.kind # "transcribe" => k.decode = "main"
      /\ StreamFits(FALSE, stream, enc, decoder["main"])
  BY <1>0, UnderWay
<1>2. CASE Streaming!Passes(i) /\ Streaming!RunChunk(i, calls[i].on)
  BY <1>0, <1>2, PassKeeps
<1>3. ASSUME ~Streaming!Passes(i), Streaming!Consume(i)
      PROVE  /\ enc' \in [Streaming!Streams -> Streaming!Stream]
             /\ decoder' \in [Streaming!Decoders -> [on : {0} \cup Streaming!Streams, next : Nat]]
             /\ \A s \in Streaming!Streams : TextApart(enc[s], enc'[s])
             /\ stream # 0 => Decoded(enc'[stream], stream, decoder'["main"])
  BY <1>0, <1>3, ConsumeDecodes
<1>4. CASE /\ ~Streaming!Passes(i) /\ Streaming!Consume(i)
           /\ k.kind = "push" /\ Streaming!Complete(i)
  <2>1. StreamFits(TRUE, stream, enc', decoder'["main"])
    <3>1. SUFFICES ASSUME stream # 0
                   PROVE  /\ enc'[stream].fixed # 0
                          /\ \A n \in DOMAIN enc'[stream].ids : enc'[stream].ids[n] = n
                          /\ Len(enc'[stream].ids) = enc'[stream].subT
                          /\ enc'[stream].subT = enc'[stream].fed
                          /\ decoder'["main"] = [on |-> stream, next |-> Len(enc'[stream].ids) + 1]
      BY DEF StreamFits
    <3>2. /\ stream \in Streaming!Streams /\ enc[stream] \in Streaming!Stream
          /\ enc[stream].fixed # 0 /\ k.on = stream /\ enc[stream].subT <= enc[stream].fed
      BY <1>1, <1>4, <3>1, StreamingTypes DEF StreamFits, Working, Hears
    <3>3. TextApart(enc[stream], enc'[stream]) /\ Decoded(enc'[stream], stream, decoder'["main"])
      BY <1>3, <1>4, <3>1, <3>2
    <3>4. enc[stream].subT = enc[stream].fed
      <4>1. enc[stream].subT \in Nat /\ enc[stream].fed \in Nat /\ ~(enc[stream].subT < enc[stream].fed)
        BY <1>4, <3>2 DEF Streaming!Passes, Streaming!Stream
      <4>2. QED  BY <3>2, <4>1
    <3>5. QED  BY <3>2, <3>3, <3>4 DEF TextApart, Decoded
  <2>2. QED  BY <1>0, <1>3, <1>4, <2>1, CompleteKeeps
<1>5. CASE /\ ~Streaming!Passes(i) /\ Streaming!Consume(i)
           /\ k.kind # "push"
           /\ calls' = [calls EXCEPT ![i].at = "flush", ![i].outs = <<>>]
           /\ UNCHANGED <<pool, stream, readbackFailures>>
  <2> DEFINE k2 == [k EXCEPT !.at = "flush", !.outs = <<>>]
  <2>1. /\ calls' = [calls EXCEPT ![i] = k2] /\ k2 \in Streaming!Call /\ k2.at = "flush"
        /\ k2.on = k.on /\ k2.frames = 0 /\ k2.outs = <<>> /\ k2.kind = k.kind /\ k2.decode = k.decode
    <3>1. calls \in Seq(Streaming!Call) /\ k.frames = 0
      BY <1>0, <1>1, StreamingTypes DEF Working
    <3>2. <<>> \in Seq(Nat)
      OBVIOUS
    <3>3. QED  BY <1>0, <1>1, <1>5, <3>1, <3>2 DEF Streaming!Call
  <2> HIDE DEF k, k2
  <2>2. /\ k.on \in Streaming!Streams /\ TextApart(enc[k.on], enc'[k.on]) /\ enc[k.on].fixed # 0
        /\ stream # 0 => k.kind # "transcribe" /\ k.on = stream /\ Hears(k, enc[stream], decoder["main"])
    BY <1>1, <1>3, <1>5 DEF Working
  <2>3. ASSUME stream # 0
        PROVE  Hears(k2, enc'[stream], decoder'["main"])
    <3>1. /\ k.on = stream /\ k.kind # "transcribe" /\ Hears(k, enc[stream], decoder["main"])
          /\ Decoded(enc'[stream], stream, decoder'["main"])
          /\ TextApart(enc[stream], enc'[stream])
      BY <1>3, <1>5, <2>2, <2>3
    <3>2. Len(k2.outs) = 0 /\ DOMAIN k2.outs = {} /\ enc'[stream].ids \in Seq(Nat)
      BY <1>3, <1>5, <2>1, <2>2, <3>1 DEF Streaming!Stream
    <3>3. Len(enc'[stream].ids) \in Nat
      BY <3>2
    <3> DEFINE m == Len(enc'[stream].ids)
    <3>4. m + Len(k2.outs) = enc'[stream].subT
      BY <3>1, <3>2, <3>3 DEF Decoded
    <3>5. k2.kind = "finish" => enc'[stream].finished
      BY <2>1, <3>1 DEF Hears, TextApart
    <3>6. k2.kind # "push" /\ k2.on = stream
      BY <1>5, <2>1, <3>1
    <3>7. QED  BY <3>1, <3>2, <3>4, <3>5, <3>6 DEF Hears, Decoded
  <2>4. CallFits(k2, stream', enc', decoder'["main"])
    BY <1>1, <1>5, <2>1, <2>2, <2>3 DEF CallFits, Working, TextApart, k
  <2>5. StreamFits(Idle(k2), stream', enc', decoder'["main"])
    BY <1>1, <1>3, <1>5, <2>1, <2>2 DEF StreamFits, Idle, TextApart, Decoded
  <2>6. Closed(pool') /\ stream' \in {0} \cup Streaming!Streams
        /\ readbackFailures' \in 0 .. MaxReadbackFailures
    BY <1>5, StreamingTypes
  <2>7. QED
    BY <1>1, <1>3, <1>5, <2>1, <2>4, <2>5, <2>6, ActingStep
<1>6. QED  BY <1>2, <1>4, <1>5 DEF Streaming!Encode

\* The tail of the stream is one more pass, or nothing.
LEMMA FlushKeeps ==
  ASSUME StreamingInv, NEW i, Streaming!Flush(i)
  PROVE  StreamingInv'
<1>1. i \in DOMAIN calls /\ calls[i].at = "flush"
  BY DEF Streaming!Flush, Streaming!At
<1>2. CASE Streaming!RunChunk(i, calls[i].on)
  BY <1>1, <1>2, PassKeeps
<1>3. CASE UNCHANGED <<enc, decoder>> /\ Streaming!Complete(i)
  <2>1. /\ Working(calls[i], stream, enc, decoder["main"]) /\ calls[i] \in Streaming!Call
        /\ StreamFits(FALSE, stream, enc, decoder["main"])
    BY <1>1, UnderWay
  <2>2. stream # 0 => enc[stream].finished
    BY <1>1, <2>1 DEF Working, Hears, Streaming!Call
  <2>3. StreamFits(TRUE, stream, enc', decoder'["main"])
    BY <1>3, <2>1, <2>2 DEF StreamFits
  <2>4. QED  BY <1>1, <1>3, <2>3, StreamingTypes, CompleteKeeps
<1>4. QED  BY <1>2, <1>3 DEF Streaming!Flush

\* The pass over the tail is decoded, and the call is over.
LEMMA FlushedKeeps ==
  ASSUME StreamingInv, NEW i, Streaming!Flushed(i)
  PROVE  StreamingInv'
<1>1. /\ i \in DOMAIN calls /\ calls[i].at = "flushed"
      /\ Streaming!Consume(i) /\ Streaming!Complete(i)
  BY DEF Streaming!Flushed, Streaming!At
<1>2. /\ Working(calls[i], stream, enc, decoder["main"]) /\ calls[i] \in Streaming!Call
      /\ StreamFits(FALSE, stream, enc, decoder["main"])
  BY <1>1, UnderWay
<1>3. /\ enc' \in [Streaming!Streams -> Streaming!Stream]
      /\ decoder' \in [Streaming!Decoders -> [on : {0} \cup Streaming!Streams, next : Nat]]
      /\ \A s \in Streaming!Streams : TextApart(enc[s], enc'[s])
      /\ stream # 0 => Decoded(enc'[stream], stream, decoder'["main"])
  BY <1>1, ConsumeDecodes
<1>4. ASSUME stream # 0
      PROVE  /\ stream \in Streaming!Streams /\ enc[stream].finished /\ enc[stream].fixed # 0
             /\ TextApart(enc[stream], enc'[stream])
  BY <1>1, <1>2, <1>3, <1>4, StreamingTypes DEF Working, Hears, Streaming!Call, StreamFits
<1>5. StreamFits(TRUE, stream, enc', decoder'["main"])
  BY <1>3, <1>4 DEF StreamFits, TextApart, Decoded
<1>6. QED  BY <1>1, <1>3, <1>5, CompleteKeeps

\* A call that fails: a push leaves a broken stream, a finish one that is finished.
LEMMA BrokenKeeps ==
  ASSUME StreamingInv, NEW i, i \in DOMAIN calls,
         calls[i].at \in {"encode", "download", "flush", "flushed"},
         Streaming!Broken(i), readbackFailures' \in 0 .. MaxReadbackFailures
  PROVE  StreamingInv'
<1> DEFINE k == calls[i]
           s2 == [enc[k.on] EXCEPT !.broken = TRUE]
<1>1. /\ Acts(i) /\ Working(k, stream, enc, decoder["main"]) /\ k \in Streaming!Call
      /\ StreamFits(FALSE, stream, enc, decoder["main"])
  BY UnderWay
<1>2. /\ calls' = Streaming!Over(i, "failed") /\ UNCHANGED <<stream, decoder>>
      /\ enc' = IF k.kind = "push" THEN [enc EXCEPT ![k.on].broken = TRUE] ELSE enc
      /\ pool' = IF k.kind = "transcribe"
                 THEN Streaming!Trim(Streaming!Dispose(pool, k.on), Budget) ELSE pool
  BY DEF Streaming!Broken
<1>3. Closed(pool')
  BY <1>2, EndPool
<1>4. /\ enc \in [Streaming!Streams -> Streaming!Stream] /\ k.on \in Streaming!Streams
  BY <1>1, StreamingTypes DEF Working
<1>5. /\ s2 \in Streaming!Stream /\ s2.broken /\ s2.ids = enc[k.on].ids /\ s2.fixed = enc[k.on].fixed
  BY <1>4 DEF Streaming!Stream
<1>6. CASE k.kind = "push"
  <2>1. enc' = [enc EXCEPT ![k.on] = s2]
    BY <1>2, <1>4, <1>6
  <2> HIDE DEF k, s2
  <2>2. enc' \in [Streaming!Streams -> Streaming!Stream] /\ enc'[k.on] = s2
    BY <1>4, <1>5, <2>1
  <2>3. stream # 0 => stream = k.on
    BY <1>1 DEF Working
  <2>4. StreamFits(TRUE, stream, enc', decoder'["main"])
    BY <1>1, <1>5, <2>2, <2>3 DEF StreamFits
  <2>5. QED  BY <1>1, <1>2, <1>3, <2>2, <2>4, StreamingTypes, OverKeeps
<1>7. CASE k.kind # "push"
  <2>1. enc' = enc
    BY <1>2, <1>7
  <2>2. stream # 0 => enc[stream].finished
    BY <1>1, <1>7 DEF Working, Hears, Streaming!Call
  <2>3. StreamFits(TRUE, stream, enc', decoder'["main"])
    BY <1>1, <2>1, <2>2 DEF StreamFits
  <2>4. QED  BY <1>1, <1>2, <1>3, <2>1, <2>3, StreamingTypes, OverKeeps
<1>8. QED  BY <1>6, <1>7

\* A readback rejects, or the live stream is gone when a call decodes.
LEMMA FailureKeeps ==
  ASSUME StreamingInv, NEW i, Streaming!ReadbackFails(i) \/ Streaming!ConsumeFails(i)
  PROVE  StreamingInv'
<1>1. readbackFailures \in 0 .. MaxReadbackFailures /\ MaxReadbackFailures \in Nat
  BY PlaygroundConstants, StreamingTypes DEF Streaming!StreamingConstants
<1>2. CASE Streaming!ReadbackFails(i)
  <2>1. /\ i \in DOMAIN calls /\ calls[i].at = "download" /\ Streaming!Broken(i)
        /\ readbackFailures' \in 0 .. MaxReadbackFailures
    BY <1>1, <1>2 DEF Streaming!ReadbackFails, Streaming!At
  <2>2. QED  BY <2>1, BrokenKeeps
<1>3. CASE Streaming!ConsumeFails(i)
  <2>1. /\ i \in DOMAIN calls /\ calls[i].at \in {"encode", "flushed"} /\ Streaming!Broken(i)
        /\ readbackFailures' = readbackFailures
    BY <1>3 DEF Streaming!ConsumeFails, Streaming!At
  <2>2. QED  BY <1>1, <2>1, BrokenKeeps
<1>4. QED  BY <1>2, <1>3

\* reset() gives the live stream's tensors to the pool; a call may still await its readback.
LEMMA ResetKeeps ==
  ASSUME StreamingInv, Streaming!Reset
  PROVE  StreamingInv'
<1>1. /\ stream \in Streaming!Streams /\ UNCHANGED <<enc, calls, decoder, readbackFailures>>
      /\ pool' = Streaming!Trim(Streaming!Dispose(pool, stream), Budget) /\ stream' = 0
      /\ enc[stream].fixed # 0
  BY StreamingTypes DEF Streaming!Reset, StreamingInv, StreamFits
<1>2. Closed(Streaming!Dispose(pool, stream))
  BY <1>1, StreamingTypes, DisposePools
<1>3. Closed(pool')
  BY <1>1, <1>2, TrimTakes
<1>4. Streaming!TypeOK' /\ pool'.arenas = <<>> /\ InTurn(calls')
  BY <1>1, <1>3 DEF Closed, StreamingInv, Streaming!TypeOK
<1>5. \A j \in DOMAIN calls' : CallFits(calls'[j], stream', enc', decoder'["main"])
  <2>1. ASSUME NEW k, CallFits(k, stream, enc, decoder["main"])
        PROVE  CallFits(k, 0, enc, decoder["main"])
    BY <2>1 DEF CallFits, Working
  <2>2. QED  BY <1>1, <2>1 DEF StreamingInv
<1>6. StreamFits(\A j \in DOMAIN calls' : Idle(calls'[j]), stream', enc', decoder'["main"])
  BY <1>1 DEF StreamFits
<1>7. QED  BY <1>4, <1>5, <1>6 DEF StreamingInv

\* The engine starts without a stream.
LEMMA StreamingInit == Streaming!Init => StreamingInv
<1> SUFFICES ASSUME Streaming!Init PROVE StreamingInv
  OBVIOUS
<1>1. /\ pool = [free |-> <<>>, arenas |-> <<>>, last |-> 0] /\ stream = 0 /\ calls = <<>>
      /\ readbackFailures = MaxReadbackFailures
      /\ enc = [s \in Streaming!Streams |-> Streaming!NoStream]
      /\ decoder = [d \in Streaming!Decoders |-> [on |-> 0, next |-> 1]]
  BY DEF Streaming!Init, Streaming!EmptyPool
<1>2. Streaming!NoStream \in Streaming!Stream
  BY DEF Streaming!NoStream, Streaming!Stream
<1>3. MaxCalls \in Nat /\ MaxReadbackFailures \in Nat
  BY PlaygroundConstants DEF Streaming!StreamingConstants
<1>4. calls \in Seq(Streaming!Call) /\ Len(calls) = 0 /\ DOMAIN calls = {}
  BY <1>1
<1>5. pool \in Streaming!Pool
  <2>1. <<>> \in Seq(Streaming!Buffers) /\ <<>> \in Seq(Seq(Streaming!Buffers))
    OBVIOUS
  <2>2. QED  BY <1>1, <2>1 DEF Streaming!Pool
<1>6. decoder \in [Streaming!Decoders -> [on : {0} \cup Streaming!Streams, next : Nat]]
  BY <1>1
<1>7. Streaming!TypeOK
  BY <1>1, <1>2, <1>3, <1>4, <1>5, <1>6 DEF Streaming!TypeOK
<1>8. QED
  BY <1>1, <1>4, <1>7 DEF StreamingInv, InTurn, StreamFits

\* Each step of the engine keeps its streams in order.
LEMMA StreamingStep == StreamingInv /\ [Streaming!Next]_streamingVars => StreamingInv'
<1> SUFFICES ASSUME StreamingInv, [Streaming!Next]_streamingVars
             PROVE  StreamingInv'
  OBVIOUS
<1>1. ASSUME NEW kind \in {"push", "finish", "transcribe"}, NEW size \in 0 .. MaxPasses,
             Streaming!Ask(kind, size)
      PROVE  StreamingInv'
  BY <1>1, AskKeeps
<1>2. ASSUME NEW i \in 1 .. MaxCalls,
             Streaming!BeginPush(i) \/ Streaming!BeginFinish(i) \/ Streaming!BeginTranscribe(i)
      PROVE  StreamingInv'
  BY <1>2, BeginPushKeeps, BeginFinishKeeps, BeginTranscribeKeeps
<1>3. ASSUME NEW i \in 1 .. MaxCalls,
             \/ Streaming!Encode(i) \/ Streaming!Download(i) \/ Streaming!Flush(i) \/ Streaming!Flushed(i)
             \/ Streaming!ReadbackFails(i) \/ Streaming!ConsumeFails(i)
      PROVE  StreamingInv'
  BY <1>3, EncodeKeeps, DownloadKeeps, FlushKeeps, FlushedKeeps, FailureKeeps
<1>4. CASE Streaming!Reset
  BY <1>4, ResetKeeps
<1>5. CASE UNCHANGED streamingVars
  <2>1. /\ pool' = pool /\ enc' = enc /\ stream' = stream /\ calls' = calls /\ decoder' = decoder
        /\ readbackFailures' = readbackFailures
    BY <1>5 DEF streamingVars
  <2>2. Streaming!TypeOK'
    BY <2>1 DEF StreamingInv, Streaming!TypeOK
  <2>3. QED  BY <2>1, <2>2 DEF StreamingInv
<1>6. QED  BY <1>1, <1>2, <1>3, <1>4, <1>5 DEF Streaming!Next

\* The invariant says what a live stream heard.
LEMMA HearsItsAudio == StreamingInv => StreamHearsItsAudio
<1> SUFFICES ASSUME StreamingInv, stream # 0
             PROVE  /\ enc[stream].ids = [k \in DOMAIN enc[stream].ids |-> k]
                    /\ \/ ~Streaming!Open
                       \/ \E i \in DOMAIN calls : calls[i].on = stream
                       \/ Len(enc[stream].ids) = enc[stream].fed
  BY DEF StreamHearsItsAudio, Streaming!StreamHearsItsAudio
<1> DEFINE idle == \A i \in DOMAIN calls : Idle(calls[i])
<1>1. StreamFits(idle, stream, enc, decoder["main"]) /\ enc[stream].ids \in Seq(Nat)
  <2>1. enc[stream] \in Streaming!Stream
    BY StreamingTypes
  <2>2. QED  BY <2>1 DEF StreamingInv, Streaming!Stream
<1>2. enc[stream].ids = [k \in DOMAIN enc[stream].ids |-> k]
  <2> DEFINE ids == enc[stream].ids
  <2>1. ids \in Seq(Nat) /\ \A n \in DOMAIN ids : ids[n] = n
    BY <1>1 DEF StreamFits
  <2> HIDE DEF ids
  <2>2. ids = [k \in DOMAIN ids |-> k]
    BY <2>1
  <2>3. QED  BY <2>2 DEF ids
<1>3. CASE idle
  BY <1>1, <1>2, <1>3 DEF StreamFits, Streaming!Open
<1>4. ASSUME NEW i \in DOMAIN calls, ~Idle(calls[i])
      PROVE  calls[i].on = stream
  BY <1>4 DEF StreamingInv, CallFits, Working
<1>5. QED  BY <1>2, <1>3, <1>4

\* The text of the live stream is what was pushed to it (index.ts, consume): every pass is decoded once,
\* in order, by a decoder that followed the stream from its start, and between calls nothing of the audio
\* is missing, for any calls, any failed readbacks and a reset() at any time, however impatient.
THEOREM LiveTextIsWhatWasSaid == Streaming!Spec => []StreamHearsItsAudio
<1>1. StreamingInv /\ [Streaming!Next]_(Streaming!vars) => StreamingInv'
  BY StreamingStep DEF Streaming!vars, streamingVars
<1>2. QED
  BY <1>1, StreamingInit, HearsItsAudio, PTL DEF Streaming!Spec

(***************************************************************************)
(* Whose a buffer is, on pages that do not reset the engine under a call   *)
(* with a further pass to run.                                             *)
(***************************************************************************)
\* The tensors of stream s are two buffers that are neither in the pool nor downloaded to frames.
Owns(s, en, free, frames) ==
  /\ en[s].fixed # en[s].cache
  /\ \A b \in {en[s].fixed, en[s].cache} \ {0} : b \notin Streaming!ToSet(free) /\ b # frames

\* What is left to do for a call from under which the stream was reset runs no pass.
Winding(k, st, en) ==
  st = 0 /\ k.kind # "transcribe" /\ ~Idle(k) =>
    \/ k.at = "download" /\ ~(en[k.on].subT + 1 < en[k.on].fed)
    \/ k.at = "encode" /\ ~(en[k.on].subT < en[k.on].fed) /\ k.outs # <<>>
    \/ k.at = "flushed" /\ k.outs # <<>>

CallOwns(k, st, en, free) ==
  /\ k.frames \notin Streaming!ToSet(free)
  /\ k.kind = "transcribe" /\ k.on # 0 => Owns(k.on, en, free, k.frames)
  /\ st # 0 => Owns(st, en, free, k.frames)
  /\ Winding(k, st, en)

OwnInv ==
  /\ Streaming!IsInjective(pool.free)
  /\ stream # 0 => Owns(stream, enc, pool.free, 0)
  /\ \A i \in DOMAIN calls : CallOwns(calls[i], stream, enc, pool.free)

\* 0 is no buffer.
LEMMA PoolHasBuffers ==
  ASSUME NEW p, Closed(p)
  PROVE  0 \notin Streaming!ToSet(p.free) /\ Streaming!ToSet(p.free) \subseteq Streaming!Buffers
<1>1. p.free \in Seq(Streaming!Buffers)
  BY DEF Closed, Streaming!Pool
<1>2. Streaming!ToSet(p.free) \subseteq Streaming!Buffers
  BY <1>1, SeqIsFinite
<1>3. QED  BY <1>2 DEF Streaming!Buffers

\* A step of the call whose turn it is.
LEMMA OwningStep ==
  ASSUME StreamingInv, StreamingInv', NEW i, Acts(i), NEW k, calls' = [calls EXCEPT ![i] = k],
         Streaming!IsInjective(pool'.free), CallOwns(k, stream', enc', pool'.free)
  PROVE  OwnInv'
<1>1. /\ i \in DOMAIN calls /\ calls \in Seq(Streaming!Call)
      /\ \A j \in DOMAIN calls \ {i} : Idle(calls[j])
  BY Acting, StreamingTypes DEF Acts
<1>2. /\ DOMAIN calls' = DOMAIN calls /\ calls'[i] = k
      /\ \A j \in DOMAIN calls \ {i} : calls'[j] = calls[j]
  BY <1>1
<1>3. stream' # 0 => Owns(stream', enc', pool'.free, 0)
  BY DEF CallOwns, Owns
<1>4. Closed(pool')
  BY DEF StreamingInv, Streaming!TypeOK, Closed
<1>5. ASSUME NEW c, Idle(c)
      PROVE  CallOwns(c, stream', enc', pool'.free)
  <2>1. c.frames = 0 /\ c.on = 0 /\ 0 \notin Streaming!ToSet(pool'.free)
    BY <1>4, <1>5, PoolHasBuffers DEF Idle
  <2>2. QED  BY <1>3, <1>5, <2>1 DEF CallOwns, Winding
<1>6. ASSUME NEW j \in DOMAIN calls
      PROVE  CallOwns(calls'[j], stream', enc', pool'.free)
  <2>1. CASE j = i  BY <1>2, <2>1
  <2>2. CASE j # i  BY <1>1, <1>2, <1>5, <2>2
  <2>3. QED  BY <2>1, <2>2
<1>7. QED  BY <1>2, <1>3, <1>6 DEF OwnInv

\* Steps that leave every stream its tensors.
SameTensors(en, en2) ==
  \A s \in Streaming!Streams : en2[s].fixed = en[s].fixed /\ en2[s].cache = en[s].cache

\* A stream that keeps its tensors owns them.
LEMMA OwnsStays ==
  ASSUME NEW en, NEW en2, SameTensors(en, en2), NEW s \in Streaming!Streams, NEW free, NEW frames,
         Owns(s, en, free, frames)
  PROVE  Owns(s, en2, free, frames)
BY DEF SameTensors, Owns

\* A call that is over downloads nothing; a batch returned its tensors.
LEMMA OverOwns ==
  ASSUME StreamingInv, StreamingInv', OwnInv, NEW i, Acts(i), NEW how \in {"done", "failed"},
         calls' = Streaming!Over(i, how), stream' = stream, SameTensors(enc, enc'),
         \/ pool' = pool
         \/ /\ calls[i].kind = "transcribe" /\ calls[i].on # 0 /\ stream = 0
            /\ pool' = Streaming!Trim(Streaming!Dispose(pool, calls[i].on), Budget)
  PROVE  OwnInv'
<1> DEFINE c == calls[i]
           k == [c EXCEPT !.at = how, !.on = 0, !.frames = 0, !.outs = <<>>]
<1>1. /\ i \in DOMAIN calls /\ c \in Streaming!Call /\ calls \in Seq(Streaming!Call)
      /\ stream \in {0} \cup Streaming!Streams /\ Closed(pool) /\ Closed(pool')
      /\ enc \in [Streaming!Streams -> Streaming!Stream]
  BY Acting, StreamingTypes DEF Acts, StreamingInv, Streaming!TypeOK, Closed
<1>2. calls' = [calls EXCEPT ![i] = k] /\ Idle(k)
  BY <1>1 DEF Streaming!Over, Streaming!Call, Idle
<1>3. k.frames = 0 /\ k.on = 0 /\ 0 \notin Streaming!ToSet(pool'.free)
  BY <1>1, <1>2, PoolHasBuffers DEF Idle
<1> HIDE DEF k
<1>4. Streaming!IsInjective(pool.free) /\ (stream # 0 => Owns(stream, enc, pool.free, 0))
      /\ CallOwns(c, stream, enc, pool.free)
  BY <1>1 DEF OwnInv
<1>5. CASE pool' = pool
  <2>1. stream # 0 => Owns(stream, enc', pool'.free, 0)
    BY <1>1, <1>4, <1>5, OwnsStays
  <2>2. CallOwns(k, stream', enc', pool'.free)
    BY <1>2, <1>3, <2>1 DEF CallOwns, Winding
  <2>3. QED  BY <1>2, <1>4, <1>5, <2>2, OwningStep
<1>6. CASE /\ c.kind = "transcribe" /\ c.on # 0 /\ stream = 0
           /\ pool' = Streaming!Trim(Streaming!Dispose(pool, c.on), Budget)
  <2>1. c.on \in Streaming!Streams /\ enc[c.on].fixed # 0
    <3>1. CallFits(c, stream, enc, decoder["main"])
      BY Acting
    <3>2. QED  BY <1>6, <3>1 DEF CallFits, Working, Idle
  <2>2. Owns(c.on, enc, pool.free, c.frames)
    BY <1>4, <1>6 DEF CallOwns
  <2>3. enc[c.on].fixed # enc[c.on].cache /\ Streaming!Tensors(c.on) \cap Streaming!ToSet(pool.free) = {}
    BY <2>2 DEF Owns, Streaming!Tensors
  <2> HIDE DEF c
  <2>4. /\ Closed(Streaming!Dispose(pool, c.on))
        /\ Streaming!IsInjective(Streaming!Dispose(pool, c.on).free)
    BY <1>1, <1>4, <2>1, <2>3, DisposePools
  <2>5. Streaming!IsInjective(pool'.free)
    BY <1>6, <2>4, TrimTakes
  <2>6. CallOwns(k, stream', enc', pool'.free)
    BY <1>2, <1>3, <1>6 DEF CallOwns, Winding
  <2>7. QED  BY <1>2, <2>5, <2>6, OwningStep
<1>7. QED  BY <1>5, <1>6

\* A call that is made has no buffer.
LEMMA AskOwns ==
  ASSUME StreamingInv, StreamingInv', OwnInv,
         NEW kind \in {"push", "finish", "transcribe"}, NEW size \in 0 .. MaxPasses, Streaming!Ask(kind, size)
  PROVE  OwnInv'
<1> DEFINE k == [kind |-> kind, size |-> size, at |-> "queued", on |-> 0,
                 frames |-> 0, outs |-> <<>>, decode |-> "main"]
           n == Len(calls)
<1>1. /\ calls \in Seq(Streaming!Call) /\ DOMAIN calls = 1 .. n /\ n \in Nat
      /\ 0 \notin Streaming!ToSet(pool.free)
  BY StreamingTypes, PoolHasBuffers
<1>2. k \in Streaming!Call /\ Idle(k)
  BY DEF Streaming!Call, Idle
<1>3. CallOwns(k, stream, enc, pool.free)
  BY <1>1, <1>2 DEF OwnInv, CallOwns, Winding, Idle
<1>4. calls' = Append(calls, k) /\ UNCHANGED <<pool, enc, stream, decoder, readbackFailures>>
  BY DEF Streaming!Ask
<1> HIDE DEF k
<1>5. DOMAIN calls' = 1 .. n + 1 /\ calls'[n + 1] = k /\ \A j \in 1 .. n : calls'[j] = calls[j]
  BY <1>1, <1>2, <1>4
<1>6. ASSUME NEW j \in DOMAIN calls'
      PROVE  CallOwns(calls'[j], stream, enc, pool.free)
  <2>1. CASE j = n + 1  BY <1>3, <1>5, <2>1
  <2>2. CASE j \in 1 .. n  BY <1>1, <1>5, <2>2 DEF OwnInv
  <2>3. QED  BY <1>1, <1>5, <2>1, <2>2
<1>7. QED  BY <1>4, <1>6 DEF OwnInv

\* A new stream's constants are in a buffer of their own.
LEMMA CreateOwns ==
  ASSUME StreamingInv, StreamingInv', OwnInv, NEW i, Acts(i), Idle(calls[i]), stream = 0,
         NEW d \in Streaming!Decoders, NEW s \in Streaming!Streams, Streaming!Create(i, s, d),
         stream' = IF calls[i].kind = "transcribe" THEN 0 ELSE s, UNCHANGED pool
  PROVE  OwnInv'
<1> DEFINE c == calls[i]
           b == Streaming!CreateBuffer(pool, Streaming!Held).last
           k == [c EXCEPT !.at = "encode", !.on = s, !.decode = d]
           e2 == [Streaming!NoStream EXCEPT !.fed = c.size, !.fixed = b]
<1>1. /\ Closed(pool) /\ pool \in Streaming!Pool /\ 0 \notin Streaming!ToSet(pool.free)
      /\ calls \in Seq(Streaming!Call) /\ i \in DOMAIN calls /\ c \in Streaming!Call
      /\ enc \in [Streaming!Streams -> Streaming!Stream]
  BY StreamingTypes, PoolHasBuffers, Acting DEF Acts, Closed
<1>2. b \in Streaming!Buffers /\ b \notin Streaming!ToSet(pool.free)
  <2>1. IsFiniteSet(Streaming!InArenas(pool)) /\ IsFiniteSet(Streaming!Held)
    BY <1>1, ArenaBuffers, FS_EmptySet, Holding
  <2>2. QED  BY <1>1, <2>1, CreateBufferIsNew
<1> HIDE DEF b
<1>3. enc' = [enc EXCEPT ![s] = e2] /\ calls' = [calls EXCEPT ![i] = k]
  <2>1. calls' = [calls EXCEPT ![i].at = "encode", ![i].on = s, ![i].decode = d]
    BY DEF Streaming!Create
  <2>2. calls' = [calls EXCEPT ![i] = k]
    BY <1>1, <2>1 DEF Streaming!Call
  <2>3. QED  BY <2>2 DEF Streaming!Create, b
<1>4. enc'[s] = e2 /\ e2.fixed = b /\ e2.cache = 0
  BY <1>1, <1>3 DEF Streaming!NoStream
<1>5. k.on = s /\ k.frames = 0 /\ k.kind = c.kind
  BY <1>1 DEF Streaming!Call, Idle
<1> HIDE DEF e2, k, c
<1>6. Owns(s, enc', pool.free, 0)
  BY <1>2, <1>4 DEF Owns, Streaming!Buffers
<1>7. CallOwns(k, stream', enc', pool'.free)
  BY <1>1, <1>5, <1>6 DEF CallOwns, Winding, Streaming!Streams, c
<1>8. QED  BY <1>3, <1>7, OwningStep DEF OwnInv

\* A call takes audio to the live stream.
LEMMA FeedOwns ==
  ASSUME StreamingInv, StreamingInv', OwnInv, NEW i, Acts(i), Idle(calls[i]), Streaming!Open,
         calls[i].kind # "transcribe",
         NEW fin, Streaming!Feed(i, fin), UNCHANGED <<pool, stream>>
  PROVE  OwnInv'
<1> DEFINE c == calls[i]
           k == [c EXCEPT !.at = "encode", !.on = stream]
<1>1. /\ Closed(pool) /\ 0 \notin Streaming!ToSet(pool.free) /\ stream \in Streaming!Streams
      /\ calls \in Seq(Streaming!Call) /\ i \in DOMAIN calls /\ c \in Streaming!Call
      /\ enc \in [Streaming!Streams -> Streaming!Stream] /\ stream # 0
  BY StreamingTypes, PoolHasBuffers, Acting DEF Acts, Streaming!Open
<1>2. /\ calls' = [calls EXCEPT ![i] = k]
      /\ k.frames = 0 /\ k.kind # "transcribe"
  BY <1>1 DEF Streaming!Feed, Streaming!Call, Idle
<1>3. SameTensors(enc, enc')
  BY <1>1 DEF Streaming!Feed, SameTensors, Streaming!Stream
<1> HIDE DEF k
<1>4. Owns(stream, enc', pool.free, 0)
  BY <1>1, <1>3, OwnsStays DEF OwnInv
<1>5. CallOwns(k, stream', enc', pool'.free)
  BY <1>1, <1>2, <1>4 DEF CallOwns, Winding
<1>6. QED  BY <1>2, <1>5, OwningStep DEF OwnInv

\* A call that begins takes at most one buffer, which is new.
LEMMA BeginOwns ==
  ASSUME StreamingInv, StreamingInv', OwnInv, NEW i,
         Streaming!BeginPush(i) \/ Streaming!BeginFinish(i) \/ Streaming!BeginTranscribe(i)
  PROVE  OwnInv'
<1>1. SameTensors(enc, enc) /\ "main" \in Streaming!Decoders
  BY DEF SameTensors, Streaming!Decoders
<1>2. ASSUME Acts(i), Idle(calls[i]), stream = 0
      PROVE  Streaming!Min(Streaming!Unused) \in Streaming!Streams
  <2>1. Streaming!Unused = Streaming!Streams \ {0}
    BY <1>2, Holding DEF Idle
  <2>2. Streaming!Unused \subseteq Nat /\ Streaming!Unused # {}
    BY <2>1 DEF Streaming!Streams
  <2>3. QED  BY <2>1, <2>2, MinIsLeast
<1>3. CASE Streaming!BeginPush(i)
  <2>1. Acts(i) /\ Idle(calls[i]) /\ calls[i].kind = "push" /\ UNCHANGED pool
    BY <1>3, Beginning DEF Streaming!BeginPush
  <2>2. CASE /\ stream = 0 /\ stream' = Streaming!Min(Streaming!Unused)
             /\ Streaming!Create(i, Streaming!Min(Streaming!Unused), "main")
    BY <1>1, <1>2, <2>1, <2>2, CreateOwns
  <2>3. CASE Streaming!Open /\ Streaming!Feed(i, FALSE) /\ UNCHANGED <<stream, decoder>>
    BY <2>1, <2>3, FeedOwns
  <2>4. CASE calls' = Streaming!Over(i, "failed") /\ UNCHANGED <<enc, stream, decoder>>
    BY <1>1, <2>1, <2>4, OverOwns
  <2>5. QED  BY <1>3, <2>2, <2>3, <2>4 DEF Streaming!BeginPush
<1>4. CASE Streaming!BeginFinish(i)
  <2>1. Acts(i) /\ Idle(calls[i]) /\ calls[i].kind = "finish" /\ UNCHANGED <<pool, stream>>
    BY <1>4, Beginning DEF Streaming!BeginFinish
  <2>2. CASE Streaming!Open /\ Streaming!Feed(i, TRUE)
    BY <2>1, <2>2, FeedOwns
  <2>3. CASE calls' = Streaming!Over(i, "done") /\ UNCHANGED enc
    BY <1>1, <2>1, <2>3, OverOwns
  <2>4. QED  BY <1>4, <2>2, <2>3 DEF Streaming!BeginFinish
<1>5. CASE Streaming!BeginTranscribe(i)
  <2>1. Acts(i) /\ Idle(calls[i]) /\ calls[i].kind = "transcribe"
    BY <1>5, Beginning DEF Streaming!BeginTranscribe
  <2>2. CASE stream = 0 /\ Streaming!StartBatch(i)
    <3>1. PICK d \in Streaming!Decoders : Streaming!Create(i, Streaming!Min(Streaming!Unused), d)
      BY <2>2 DEF Streaming!StartBatch
    <3>2. UNCHANGED <<pool, stream>>
      BY <2>2 DEF Streaming!StartBatch
    <3>3. QED  BY <1>2, <2>1, <2>2, <3>1, <3>2, CreateOwns
  <2>3. CASE calls' = Streaming!Over(i, "failed") /\ UNCHANGED <<pool, enc, stream, decoder, readbackFailures>>
    BY <1>1, <2>1, <2>3, OverOwns
  <2>4. QED  BY <1>5, <2>2, <2>3 DEF Streaming!BeginTranscribe
<1>6. QED  BY <1>3, <1>4, <1>5

\* A pass runs only over a stream that owns its tensors, and the ones it makes are new.
LEMMA PassOwns ==
  ASSUME StreamingInv, StreamingInv', OwnInv, NEW i, i \in DOMAIN calls, calls[i].at \in {"encode", "flush"},
         calls[i].at = "encode" => Streaming!Passes(i), Streaming!RunChunk(i, calls[i].on)
  PROVE  OwnInv'
<1> DEFINE c == calls[i]
           s == enc[c.on]
           b == Streaming!PassBuffers
           k == [c EXCEPT !.at = "download", !.frames = b.frames]
<1>1. /\ Acts(i) /\ c \in Streaming!Call /\ Working(c, stream, enc, decoder["main"])
      /\ ~Idle(c)
  BY UnderWay DEF Idle
<1>2. /\ Closed(pool) /\ 0 \notin Streaming!ToSet(pool.free)
      /\ enc \in [Streaming!Streams -> Streaming!Stream] /\ calls \in Seq(Streaming!Call)
      /\ c.on \in Streaming!Streams /\ s \in Streaming!Stream /\ s.fixed # 0 /\ s.cache \in Nat /\ c.on # 0
      /\ c.frames = 0 /\ CallOwns(c, stream, enc, pool.free) /\ Streaming!IsInjective(pool.free)
  BY <1>1, StreamingTypes, PoolHasBuffers DEF Working, OwnInv, Streaming!Stream
<1>3. c.kind = "transcribe" \/ c.on = stream
  <2>1. SUFFICES ASSUME c.kind # "transcribe", stream = 0 PROVE FALSE
    BY <1>1 DEF Working
  <2>2. c.at = "encode" /\ ~(enc[c.on].subT < enc[c.on].fed)
    BY <1>1, <1>2, <2>1 DEF CallOwns, Winding
  <2>3. QED  BY <2>2 DEF Streaming!Passes
<1>4. stream = 0 \/ stream = c.on
  BY <1>1 DEF Working
<1>5. Owns(c.on, enc, pool.free, 0)
  BY <1>2, <1>3 DEF CallOwns
<1>6. Streaming!Held = {s.fixed, s.cache} \ {0}
  <2>1. \A x : x \in Streaming!Held <=> x # 0 /\ (x = s.cache \/ x = s.fixed)
    <3>1. {stream, c.on} \ {0} = {c.on}
      BY <1>2, <1>4
    <3>2. \A x : x \in Streaming!Held <=>
             /\ x # 0
             /\ \/ x = c.frames
                \/ \E t \in {stream, c.on} \ {0} : x = enc[t].cache \/ x = enc[t].fixed
      BY <1>1, Holding
    <3>3. QED  BY <1>2, <3>1, <3>2
  <2>2. QED  BY <2>1
<1>7. Streaming!ToSet(pool.free) \cap Streaming!Held = {}
  BY <1>5, <1>6 DEF Owns
<1>8. /\ Closed(b.pool) /\ b.cache \in Streaming!Buffers /\ b.frames \in Streaming!Buffers
      /\ Streaming!IsInjective(b.pool.free)
      /\ Streaming!ToSet(b.pool.free) \cap Streaming!Held = {}
      /\ {b.cache, b.frames} \cap Streaming!Held = {}
      /\ {b.cache, b.frames} \cap Streaming!ToSet(b.pool.free) = {}
      /\ b.cache # b.frames
  BY <1>1, <1>2, <1>7, Holding, PassTakes DEF Passed
<1> HIDE DEF b
<1>9. /\ pool' = IF s.cache = 0 THEN b.pool ELSE Streaming!Put(b.pool, s.cache)
      /\ stream' = stream /\ calls' = [calls EXCEPT ![i] = k]
      /\ enc'[c.on].fixed = s.fixed /\ enc'[c.on].cache = b.cache
  <2>1. /\ enc' = [enc EXCEPT ![c.on].cache = b.cache, ![c.on].flushed = (calls[i].at = "flush")]
        /\ calls' = [calls EXCEPT ![i].at = "download", ![i].frames = b.frames]
        /\ pool' = IF s.cache = 0 THEN b.pool ELSE Streaming!Put(b.pool, s.cache)
        /\ stream' = stream
    BY DEF Streaming!RunChunk, b
  <2>2. QED  BY <1>1, <1>2, <2>1 DEF Streaming!Call, Streaming!Stream
<1>10. k.frames = b.frames /\ k.on = c.on /\ k.kind = c.kind
  BY <1>1 DEF Streaming!Call
<1> HIDE DEF k
<1>11. /\ Streaming!IsInjective(pool'.free)
       /\ Streaming!ToSet(pool'.free) = Streaming!ToSet(b.pool.free) \cup ({s.cache} \ {0})
  <2>1. CASE s.cache = 0  BY <1>8, <1>9, <2>1
  <2>2. CASE s.cache # 0
    <3>1. s.cache \in Streaming!Buffers /\ s.cache \notin Streaming!ToSet(b.pool.free)
      BY <1>2, <1>6, <1>8, <2>2 DEF Streaming!Buffers
    <3>2. pool' = Streaming!Put(b.pool, s.cache)
      BY <1>9, <2>2
    <3> HIDE DEF s
    <3>3. /\ Streaming!ToSet(pool'.free) = Streaming!ToSet(b.pool.free) \cup {s.cache}
          /\ Streaming!IsInjective(pool'.free)
      BY <1>8, <3>1, <3>2, PutAdds
    <3>4. QED  BY <2>2, <3>3
  <2>3. QED  BY <2>1, <2>2
<1>12. Owns(c.on, enc', pool'.free, b.frames) /\ b.frames \notin Streaming!ToSet(pool'.free)
  <2> HIDE DEF s
  <2>1. s.fixed # 0 /\ s.fixed # s.cache
    BY <1>2, <1>5 DEF Owns, s
  <2>2. /\ s.fixed \notin Streaming!ToSet(b.pool.free) /\ s.fixed # b.cache /\ s.fixed # b.frames
    BY <1>6, <1>8, <2>1
  <2>3. s.cache = 0 \/ (s.cache # b.cache /\ s.cache # b.frames)
    BY <1>6, <1>8
  <2>4. QED  BY <1>8, <1>9, <1>11, <2>1, <2>2, <2>3 DEF Owns
<1>13. CallOwns(k, stream', enc', pool'.free)
  <2>1. c.kind # "transcribe" => stream # 0
    BY <1>2, <1>3
  <2> HIDE DEF c, s, b
  <2>2. Winding(k, stream', enc')
    BY <1>9, <1>10, <2>1 DEF Winding
  <2>3. /\ k.frames \notin Streaming!ToSet(pool'.free)
        /\ Owns(c.on, enc', pool'.free, k.frames)
    BY <1>10, <1>12
  <2>4. stream' # 0 => stream' = c.on
    BY <1>4, <1>9
  <2>5. QED  BY <1>10, <2>2, <2>3, <2>4 DEF CallOwns
<1>14. QED  BY <1>1, <1>9, <1>11, <1>13, OwningStep

\* What is downloaded goes back to the pool, and is not in it yet.
LEMMA DownloadOwns ==
  ASSUME StreamingInv, StreamingInv', OwnInv, NEW i, Streaming!Download(i)
  PROVE  OwnInv'
<1> DEFINE c == calls[i]
           s == enc[c.on]
           at2 == IF s.flushed THEN "flushed" ELSE "encode"
           outs2 == Append(c.outs, s.subT + 1)
           k == [c EXCEPT !.at = at2, !.frames = 0, !.outs = outs2]
<1>1. i \in DOMAIN calls /\ c.at = "download"
  BY DEF Streaming!Download, Streaming!At
<1>2. /\ Acts(i) /\ c \in Streaming!Call /\ Working(c, stream, enc, decoder["main"])
      /\ ~Idle(c)
  BY <1>1, UnderWay DEF Idle
<1>3. /\ Closed(pool) /\ enc \in [Streaming!Streams -> Streaming!Stream] /\ calls \in Seq(Streaming!Call)
      /\ stream \in {0} \cup Streaming!Streams
      /\ c.on \in Streaming!Streams /\ s \in Streaming!Stream /\ c.frames \in Streaming!Buffers
      /\ CallOwns(c, stream, enc, pool.free) /\ Streaming!IsInjective(pool.free)
      /\ s.subT \in Nat /\ s.fed \in Nat /\ c.outs \in Seq(Nat)
  BY <1>1, <1>2, StreamingTypes DEF Working, OwnInv, Streaming!Stream, Streaming!Call, Streaming!Buffers
<1>4. /\ pool' = Streaming!Put(pool, c.frames) /\ stream' = stream
      /\ calls' = [calls EXCEPT ![i] = k]
      /\ enc' = [enc EXCEPT ![c.on] = [s EXCEPT !.subT = @ + 1]]
  <2>1. /\ enc' = [enc EXCEPT ![c.on].subT = @ + 1]
        /\ calls' = [calls EXCEPT ![i].at = at2, ![i].frames = 0, ![i].outs = Append(@, s.subT + 1)]
        /\ pool' = Streaming!Put(pool, c.frames) /\ stream' = stream
    BY DEF Streaming!Download
  <2>2. QED  BY <1>1, <1>2, <1>3, <2>1 DEF Streaming!Call, Streaming!Stream
<1>5. outs2 # <<>> /\ at2 \in {"encode", "flushed"}
  <2>1. c.outs \in Seq(Nat) /\ s.subT + 1 \in Nat
    BY <1>3
  <2> HIDE DEF c, s
  <2>2. Len(outs2) = Len(c.outs) + 1 /\ Len(c.outs) \in Nat
    BY <2>1
  <2> HIDE DEF outs2
  <2>3. outs2 # <<>>
    BY <2>2
  <2>4. at2 \in {"encode", "flushed"}
    OBVIOUS
  <2>5. QED  BY <2>3, <2>4
<1> HIDE DEF at2, outs2
<1>6. k.frames = 0 /\ k.kind = c.kind /\ k.on = c.on /\ k.outs = outs2 /\ k.at = at2
  BY <1>2 DEF Streaming!Call
<1> HIDE DEF k
<1>7. /\ enc'[c.on].subT = s.subT + 1 /\ enc'[c.on].fed = s.fed
      /\ SameTensors(enc, enc')
  <2>1. [s EXCEPT !.subT = @ + 1].fed = s.fed /\ [s EXCEPT !.subT = @ + 1].subT = s.subT + 1
        /\ [s EXCEPT !.subT = @ + 1].fixed = s.fixed /\ [s EXCEPT !.subT = @ + 1].cache = s.cache
    BY <1>3 DEF Streaming!Stream
  <2> DEFINE s2 == [s EXCEPT !.subT = @ + 1]
  <2> HIDE DEF s2
  <2>2. enc'[c.on] = s2 /\ \A t \in Streaming!Streams : t # c.on => enc'[t] = enc[t]
    BY <1>3, <1>4 DEF s2
  <2>3. QED  BY <2>1, <2>2 DEF SameTensors, s2
<1>8. /\ Streaming!ToSet(pool'.free) = Streaming!ToSet(pool.free) \cup {c.frames}
      /\ Streaming!IsInjective(pool'.free) /\ 0 \notin Streaming!ToSet(pool'.free)
  <2>1. c.frames \notin Streaming!ToSet(pool.free)
    BY <1>3 DEF CallOwns
  <2> HIDE DEF c
  <2>2. /\ Closed(pool') /\ Streaming!ToSet(pool'.free) = Streaming!ToSet(pool.free) \cup {c.frames}
        /\ Streaming!IsInjective(pool'.free)
    BY <1>3, <1>4, <2>1, PutAdds
  <2>3. QED  BY <2>2, PoolHasBuffers
<1> HIDE DEF c, s
<1>9. ASSUME NEW t \in Streaming!Streams, Owns(t, enc, pool.free, c.frames)
      PROVE  Owns(t, enc', pool'.free, 0)
  <2>1. Owns(t, enc, pool'.free, 0)
    BY <1>8, <1>9 DEF Owns
  <2>2. QED  BY <1>7, <2>1, OwnsStays
<1>10. Winding(k, stream', enc')
  <2>1. SUFFICES ASSUME stream = 0, c.kind # "transcribe"
                 PROVE  ~(enc'[c.on].subT < enc'[c.on].fed)
    BY <1>4, <1>5, <1>6 DEF Winding
  <2>2. ~(s.subT + 1 < s.fed)
    BY <1>1, <1>2, <1>3, <2>1 DEF CallOwns, Winding, s, c
  <2>3. QED  BY <1>7, <2>2
<1>11. CallOwns(k, stream', enc', pool'.free)
  BY <1>3, <1>4, <1>6, <1>8, <1>9, <1>10 DEF CallOwns
<1>12. QED  BY <1>2, <1>4, <1>8, <1>11, OwningStep

\* A batch that ends has the only stream.
LEMMA CompleteOwns ==
  ASSUME StreamingInv, StreamingInv', OwnInv, NEW i, i \in DOMAIN calls,
         calls[i].at \in {"encode", "download", "flush", "flushed"}, NEW how \in {"done", "failed"},
         calls' = Streaming!Over(i, how), stream' = stream, SameTensors(enc, enc'),
         pool' = IF calls[i].kind = "transcribe"
                 THEN Streaming!Trim(Streaming!Dispose(pool, calls[i].on), Budget) ELSE pool
  PROVE  OwnInv'
<1>1. Acts(i) /\ Working(calls[i], stream, enc, decoder["main"]) /\ 0 \notin Streaming!Streams
  BY UnderWay, StreamingTypes
<1>2. calls[i].on # 0 /\ (calls[i].kind = "transcribe" => stream = 0)
  BY <1>1 DEF Working
<1>3. QED  BY <1>1, <1>2, OverOwns

\* Decoding leaves the tensors alone.
LEMMA ConsumeOwns ==
  ASSUME StreamingInv, NEW i, i \in DOMAIN calls,
         calls[i].at \in {"encode", "download", "flush", "flushed"}, Streaming!Consume(i)
  PROVE  SameTensors(enc, enc')
<1>1. \A s \in Streaming!Streams : TextApart(enc[s], enc'[s])
  BY ConsumeDecodes
<1>2. QED  BY <1>1 DEF TextApart, SameTensors

\* A call that decodes leaves buffers alone; one whose stream was reset does not flush.
LEMMA EncodeOwns ==
  ASSUME StreamingInv, StreamingInv', OwnInv, NEW i, Streaming!Encode(i)
  PROVE  OwnInv'
<1> DEFINE c == calls[i]
           k == [c EXCEPT !.at = "flush", !.outs = <<>>]
<1>1. i \in DOMAIN calls /\ c.at = "encode"
  BY DEF Streaming!Encode, Streaming!At
<1>2. CASE Streaming!Passes(i) /\ Streaming!RunChunk(i, calls[i].on)
  BY <1>1, <1>2, PassOwns
<1>3. CASE /\ ~Streaming!Passes(i) /\ Streaming!Consume(i)
           /\ c.kind = "push" /\ Streaming!Complete(i)
  <2>1. /\ calls' = Streaming!Over(i, "done") /\ stream' = stream
        /\ pool' = IF calls[i].kind = "transcribe"
                   THEN Streaming!Trim(Streaming!Dispose(pool, calls[i].on), Budget) ELSE pool
    BY <1>3 DEF Streaming!Complete
  <2>2. SameTensors(enc, enc')
    BY <1>1, <1>3, ConsumeOwns
  <2>3. QED  BY <1>1, <2>1, <2>2, CompleteOwns
<1>4. CASE /\ ~Streaming!Passes(i) /\ Streaming!Consume(i)
           /\ c.kind # "push"
           /\ calls' = [calls EXCEPT ![i].at = "flush", ![i].outs = <<>>]
           /\ UNCHANGED <<pool, stream, readbackFailures>>
  <2>1. /\ Acts(i) /\ c \in Streaming!Call /\ Working(c, stream, enc, decoder["main"])
        /\ ~Idle(c) /\ c.frames = 0
    BY <1>1, UnderWay DEF Idle, Working
  <2>2. /\ CallOwns(c, stream, enc, pool.free) /\ Streaming!IsInjective(pool.free)
        /\ calls \in Seq(Streaming!Call) /\ stream \in {0} \cup Streaming!Streams
        /\ c.on \in Streaming!Streams
    BY <1>1, <2>1, StreamingTypes DEF OwnInv, Working
  <2>3. SameTensors(enc, enc')
    BY <1>1, <1>4, ConsumeOwns
  <2>4. stream = 0 => c.kind = "transcribe"
    <3>1. SUFFICES ASSUME stream = 0, c.kind # "transcribe" PROVE FALSE
      OBVIOUS
    <3>2. c.outs # <<>>
      BY <1>1, <2>1, <2>2, <3>1 DEF CallOwns, Winding
    <3>3. Streaming!Target(i) # 0
      BY <1>4, <3>2 DEF Streaming!Consume
    <3>4. QED  BY <3>1, <3>3 DEF Streaming!Target
  <2>5. /\ calls' = [calls EXCEPT ![i] = k]
        /\ k.frames = 0 /\ k.on = c.on /\ k.kind = c.kind
    BY <1>1, <1>4, <2>1, <2>2 DEF Streaming!Call
  <2> HIDE DEF k, c
  <2>6. Winding(k, stream', enc')
    BY <1>4, <2>4, <2>5 DEF Winding
  <2>7. \A t \in Streaming!Streams : Owns(t, enc, pool.free, 0) => Owns(t, enc', pool.free, 0)
    BY <2>3, OwnsStays
  <2>8. CallOwns(k, stream', enc', pool'.free)
    BY <1>4, <2>1, <2>2, <2>5, <2>6, <2>7 DEF CallOwns
  <2>9. QED  BY <1>4, <2>1, <2>2, <2>5, <2>8, OwningStep
<1>5. QED  BY <1>2, <1>3, <1>4 DEF Streaming!Encode

\* The tail takes its buffers as any pass does, and a batch returns its tensors.
LEMMA FlushOwns ==
  ASSUME StreamingInv, StreamingInv', OwnInv, NEW i, Streaming!Flush(i) \/ Streaming!Flushed(i)
  PROVE  OwnInv'
<1>1. i \in DOMAIN calls /\ calls[i].at \in {"flush", "flushed"}
  BY DEF Streaming!Flush, Streaming!Flushed, Streaming!At
<1>2. CASE calls[i].at = "flush" /\ Streaming!RunChunk(i, calls[i].on)
  BY <1>1, <1>2, PassOwns
<1>3. CASE SameTensors(enc, enc') /\ Streaming!Complete(i)
  <2>1. /\ calls' = Streaming!Over(i, "done") /\ stream' = stream
        /\ pool' = IF calls[i].kind = "transcribe"
                   THEN Streaming!Trim(Streaming!Dispose(pool, calls[i].on), Budget) ELSE pool
    BY <1>3 DEF Streaming!Complete
  <2>2. QED  BY <1>1, <1>3, <2>1, CompleteOwns
<1>4. CASE Streaming!Flush(i)
  <2>1. UNCHANGED <<enc, decoder>> => SameTensors(enc, enc')
    BY DEF SameTensors
  <2>2. QED  BY <1>2, <1>3, <1>4, <2>1 DEF Streaming!Flush, Streaming!At
<1>5. CASE Streaming!Flushed(i)
  <2>1. SameTensors(enc, enc') /\ Streaming!Complete(i)
    BY <1>1, <1>5, ConsumeOwns DEF Streaming!Flushed
  <2>2. QED  BY <1>3, <2>1
<1>6. QED  BY <1>4, <1>5

\* What a call that fails was to download is in nobody's hands.
LEMMA FailureOwns ==
  ASSUME StreamingInv, StreamingInv', OwnInv, NEW i, Streaming!ReadbackFails(i) \/ Streaming!ConsumeFails(i)
  PROVE  OwnInv'
<1>1. /\ i \in DOMAIN calls /\ calls[i].at \in {"encode", "download", "flushed"}
      /\ Streaming!Broken(i)
  BY DEF Streaming!ReadbackFails, Streaming!ConsumeFails, Streaming!At
<1>2. /\ calls' = Streaming!Over(i, "failed") /\ stream' = stream
      /\ enc' = IF calls[i].kind = "push" THEN [enc EXCEPT ![calls[i].on].broken = TRUE] ELSE enc
      /\ pool' = IF calls[i].kind = "transcribe"
                 THEN Streaming!Trim(Streaming!Dispose(pool, calls[i].on), Budget) ELSE pool
  BY <1>1 DEF Streaming!Broken
<1>3. SameTensors(enc, enc')
  <2>1. enc \in [Streaming!Streams -> Streaming!Stream]
    BY StreamingTypes
  <2>2. CASE calls[i].kind = "push"
    BY <1>2, <2>1, <2>2 DEF SameTensors, Streaming!Stream
  <2>3. CASE calls[i].kind # "push"
    BY <1>2, <2>3 DEF SameTensors
  <2>4. QED  BY <2>2, <2>3
<1>4. QED  BY <1>1, <1>2, <1>3, CompleteOwns

\* reset() takes the stream from under a call that runs no further pass.
LEMMA ResetOwns ==
  ASSUME Patient, StreamingInv, StreamingInv', OwnInv, Streaming!Reset
  PROVE  OwnInv'
<1> DEFINE T == {enc[stream].fixed, enc[stream].cache} \ {0}
<1>1. /\ stream \in Streaming!Streams /\ stream # 0 /\ UNCHANGED <<enc, calls, decoder, readbackFailures>>
      /\ pool' = Streaming!Trim(Streaming!Dispose(pool, stream), Budget) /\ stream' = 0
      /\ enc[stream].fixed # 0
      /\ enc \in [Streaming!Streams -> Streaming!Stream]
      /\ Closed(pool) /\ Closed(pool')
  BY StreamingTypes DEF Streaming!Reset, StreamingInv, StreamFits, Streaming!TypeOK, Closed
<1>2. \A i \in DOMAIN calls : calls[i].at \in {"queued", "download", "done", "failed"}
  BY DEF Streaming!Reset
<1>3. \A i \in DOMAIN calls :
        calls[i].at = "download" /\ calls[i].on = stream =>
          ~(enc[calls[i].on].subT + 1 < enc[calls[i].on].fed)
  BY DEF Streaming!Reset, Streaming!At, Streaming!Further
<1>4. Streaming!IsInjective(pool.free) /\ Owns(stream, enc, pool.free, 0)
  BY <1>1 DEF OwnInv
<1>5. /\ Closed(Streaming!Dispose(pool, stream))
      /\ Streaming!ToSet(Streaming!Dispose(pool, stream).free) = Streaming!ToSet(pool.free) \cup T
      /\ Streaming!IsInjective(Streaming!Dispose(pool, stream).free)
  <2>1. Streaming!Tensors(stream) = T
    BY DEF Streaming!Tensors
  <2>2. enc[stream].fixed # enc[stream].cache /\ T \cap Streaming!ToSet(pool.free) = {}
    BY <1>4 DEF Owns
  <2> HIDE DEF T
  <2>3. QED  BY <1>1, <1>4, <2>1, <2>2, DisposePools
<1>6. /\ Streaming!ToSet(pool'.free) \subseteq Streaming!ToSet(pool.free) \cup T
      /\ Streaming!IsInjective(pool'.free)
  BY <1>1, <1>5, TrimTakes
<1>7. ASSUME NEW i \in DOMAIN calls
      PROVE  CallOwns(calls[i], 0, enc, pool'.free)
  <2> DEFINE c == calls[i]
  <2>1. CallFits(c, stream, enc, decoder["main"]) /\ CallOwns(c, stream, enc, pool.free)
    BY DEF StreamingInv, OwnInv
  <2>2. c.frames \notin Streaming!ToSet(pool.free) /\ Owns(stream, enc, pool.free, c.frames)
    BY <1>1, <2>1 DEF CallOwns
  <2>3. c.frames \notin Streaming!ToSet(pool'.free)
    BY <1>6, <2>2 DEF Owns
  <2>4. Idle(c) \/ (c.kind # "transcribe" /\ c.on = stream)
    BY <1>1, <2>1 DEF CallFits, Working
  <2>5. ~(c.kind = "transcribe" /\ c.on # 0)
    BY <2>4 DEF Idle
  <2>6. Winding(c, 0, enc)
    <3>1. SUFFICES ASSUME ~Idle(c), c.kind # "transcribe"
                   PROVE  c.at = "download" /\ ~(enc[c.on].subT + 1 < enc[c.on].fed)
      BY DEF Winding
    <3>2. c.on = stream /\ c.at = "download"
      BY <1>2, <2>1, <2>4, <3>1 DEF CallFits, Working
    <3>3. QED  BY <1>3, <3>2
  <2>7. QED  BY <2>3, <2>5, <2>6 DEF CallOwns
<1>8. QED  BY <1>1, <1>6, <1>7 DEF OwnInv

\* The pool starts empty.
LEMMA OwnInit == Streaming!Init => OwnInv
<1> SUFFICES ASSUME Streaming!Init PROVE OwnInv
  OBVIOUS
<1>1. pool.free = <<>> /\ stream = 0 /\ calls = <<>>
  BY DEF Streaming!Init, Streaming!EmptyPool
<1>2. DOMAIN pool.free = {} /\ DOMAIN calls = {}
  BY <1>1
<1>3. QED  BY <1>1, <1>2 DEF OwnInv, Streaming!IsInjective

\* On a patient page each step leaves every buffer one owner.
LEMMA OwnStep ==
  ASSUME Patient, StreamingInv, OwnInv, [Streaming!Next]_streamingVars
  PROVE  OwnInv'
<1>0. StreamingInv'
  BY StreamingStep
<1>1. ASSUME NEW kind \in {"push", "finish", "transcribe"}, NEW size \in 0 .. MaxPasses,
             Streaming!Ask(kind, size)
      PROVE  OwnInv'
  BY <1>0, <1>1, AskOwns
<1>2. ASSUME NEW i \in 1 .. MaxCalls,
             Streaming!BeginPush(i) \/ Streaming!BeginFinish(i) \/ Streaming!BeginTranscribe(i)
      PROVE  OwnInv'
  BY <1>0, <1>2, BeginOwns
<1>3. ASSUME NEW i \in 1 .. MaxCalls,
             \/ Streaming!Encode(i) \/ Streaming!Download(i) \/ Streaming!Flush(i) \/ Streaming!Flushed(i)
             \/ Streaming!ReadbackFails(i) \/ Streaming!ConsumeFails(i)
      PROVE  OwnInv'
  BY <1>0, <1>3, EncodeOwns, DownloadOwns, FlushOwns, FailureOwns
<1>4. CASE Streaming!Reset
  BY <1>0, <1>4, ResetOwns
<1>5. CASE UNCHANGED streamingVars
  <2>1. pool' = pool /\ enc' = enc /\ stream' = stream /\ calls' = calls
    BY <1>5 DEF streamingVars
  <2>2. QED  BY <2>1 DEF OwnInv
<1>6. QED  BY <1>1, <1>2, <1>3, <1>4, <1>5 DEF Streaming!Next

\* One stream at most has tensors that a pass may still read, and one call at most a tensor to download.
LEMMA OneAtWork ==
  ASSUME StreamingInv, OwnInv
  PROVE  \E t, f :
           /\ \A s \in Streaming!Live : s = t /\ Owns(s, enc, pool.free, f)
           /\ \A i \in DOMAIN calls : calls[i].frames \in {0, f}
           /\ f \notin Streaming!ToSet(pool.free)
           /\ \A i, j \in DOMAIN calls : i # j => calls[i].frames = 0 \/ calls[j].frames = 0
<1>1. /\ 0 \notin Streaming!ToSet(pool.free)
      /\ \A i \in DOMAIN calls : CallOwns(calls[i], stream, enc, pool.free)
      /\ \A i \in DOMAIN calls : CallFits(calls[i], stream, enc, decoder["main"])
      /\ stream # 0 => Owns(stream, enc, pool.free, 0)
  BY StreamingTypes, PoolHasBuffers DEF OwnInv, StreamingInv
<1>2. \A s \in Streaming!Live :
        /\ s # 0
        /\ \/ s = stream
           \/ \E i \in DOMAIN calls :
                /\ s = calls[i].on
                /\ \/ calls[i].kind = "transcribe"
                   \/ calls[i].at = "download" /\ enc[calls[i].on].subT + 1 < enc[calls[i].on].fed
  BY DEF Streaming!Live, Streaming!At, Streaming!Further
<1>3. CASE \A i \in DOMAIN calls : Idle(calls[i])
  <2>1. \A i \in DOMAIN calls : calls[i].on = 0 /\ calls[i].frames = 0
    BY <1>3 DEF Idle
  <2>2. \A s \in Streaming!Live : s = stream /\ Owns(s, enc, pool.free, 0)
    BY <1>1, <1>2, <2>1
  <2>3. QED  BY <1>1, <2>1, <2>2
<1>4. ASSUME NEW i \in DOMAIN calls, ~Idle(calls[i])
      PROVE  \E t, f :
               /\ \A s \in Streaming!Live : s = t /\ Owns(s, enc, pool.free, f)
               /\ \A j \in DOMAIN calls : calls[j].frames \in {0, f}
               /\ f \notin Streaming!ToSet(pool.free)
               /\ \A j, l \in DOMAIN calls : j # l => calls[j].frames = 0 \/ calls[l].frames = 0
  <2> DEFINE c == calls[i]
  <2>1. /\ Working(c, stream, enc, decoder["main"]) /\ CallOwns(c, stream, enc, pool.free)
    BY <1>1, <1>4 DEF CallFits
  <2>2. Acts(i)
    BY <2>1 DEF Acts, Working
  <2>3. \A j \in DOMAIN calls \ {i} : calls[j].on = 0 /\ calls[j].frames = 0
    BY <2>2, Acting DEF Idle
  <2>4. \A s \in Streaming!Live : s = c.on /\ Owns(s, enc, pool.free, c.frames)
    <3>1. TAKE s \in Streaming!Live
    <3>2. CASE stream # 0
      <4>1. c.on = stream /\ Owns(stream, enc, pool.free, c.frames)
        BY <2>1, <3>2 DEF Working, CallOwns
      <4>2. s = stream
        BY <1>2, <2>3, <4>1
      <4>3. QED  BY <4>1, <4>2
    <3>3. CASE stream = 0
      <4>1. /\ s = c.on /\ s # 0
            /\ \/ c.kind = "transcribe"
               \/ c.at = "download" /\ enc[c.on].subT + 1 < enc[c.on].fed
        BY <1>2, <2>3, <3>3
      <4>2. c.kind = "transcribe"
        BY <1>4, <2>1, <3>3, <4>1 DEF CallOwns, Winding
      <4>3. QED  BY <2>1, <4>1, <4>2 DEF CallOwns
    <3>4. QED  BY <3>2, <3>3
  <2>5. c.frames \notin Streaming!ToSet(pool.free)
    BY <2>1 DEF CallOwns
  <2>6. \A j \in DOMAIN calls : calls[j].frames \in {0, c.frames}
    BY <2>3
  <2>7. \A j, l \in DOMAIN calls : j # l => calls[j].frames = 0 \/ calls[l].frames = 0
    BY <2>3
  <2> HIDE DEF c
  <2>8. QED  BY <2>4, <2>5, <2>6, <2>7
<1>5. QED  BY <1>3, <1>4

\* The invariant says whose each buffer is.
LEMMA OneOwner == StreamingInv /\ OwnInv => BuffersHaveOneOwner
<1> SUFFICES ASSUME StreamingInv, OwnInv PROVE BuffersHaveOneOwner
  OBVIOUS
<1> DEFINE pooled == Streaming!ToSet(pool.free)
           downloads == {calls[i].frames : i \in DOMAIN calls} \ {0}
<1>1. PICK t, f :
        /\ \A s \in Streaming!Live : s = t /\ Owns(s, enc, pool.free, f)
        /\ \A i \in DOMAIN calls : calls[i].frames \in {0, f}
        /\ f \notin pooled
        /\ \A i, j \in DOMAIN calls : i # j => calls[i].frames = 0 \/ calls[j].frames = 0
  BY OneAtWork
<1>2. downloads \subseteq {f}
  BY <1>1
<1> HIDE DEF downloads
<1>3. ASSUME NEW s \in Streaming!Live
      PROVE  /\ enc[s].fixed # enc[s].cache
             /\ Streaming!Tensors(s) \cap (pooled \cup downloads) = {}
             /\ Streaming!Live \ {s} = {}
  <2>1. Owns(s, enc, pool.free, f) /\ \A r \in Streaming!Live : r = s
    BY <1>1
  <2>2. QED  BY <1>2, <2>1 DEF Owns, Streaming!Tensors
<1>4. \A s \in Streaming!Live :
        /\ enc[s].fixed # enc[s].cache
        /\ Streaming!Tensors(s) \cap (pooled \cup downloads) = {}
        /\ \A r \in Streaming!Live \ {s} : Streaming!Tensors(s) \cap Streaming!Tensors(r) = {}
  BY <1>3
<1>5. downloads \cap pooled = {}
  BY <1>1, <1>2
<1>6. \A i, j \in DOMAIN calls :
        calls[i].frames = calls[j].frames /\ i # j => calls[i].frames = 0
  BY <1>1
<1>7. Streaming!IsInjective(pool.free)
  BY DEF OwnInv
<1>8. QED
  BY <1>4, <1>5, <1>6, <1>7 DEF BuffersHaveOneOwner, Streaming!BuffersHaveOneOwner, downloads

\* The buffers of the streaming engine have one owner (buffer-pool.js): what the pool hands out is no
\* tensor that a later pass of any stream reads, and nobody else downloads it, for any calls, any failed
\* readbacks and any budget of the pool, on a page that does not call reset() while a call has a further
\* pass to run.
THEOREM TensorsHaveOneOwner == Patient => (Streaming!Spec => []BuffersHaveOneOwner)
<1> SUFFICES ASSUME Patient PROVE Streaming!Spec => []BuffersHaveOneOwner
  OBVIOUS
<1> DEFINE Inv == StreamingInv /\ OwnInv
<1>1. Streaming!Init => Inv
  BY StreamingInit, OwnInit
<1>2. Inv /\ [Streaming!Next]_(Streaming!vars) => Inv'
  BY StreamingStep, OwnStep DEF Streaming!vars, streamingVars
<1>3. Inv => BuffersHaveOneOwner
  BY OneOwner
<1> HIDE DEF Inv
<1>4. QED  BY <1>1, <1>2, <1>3, PTL DEF Streaming!Spec

-----------------------------------------------------------------------------
(* The parts side by side.                                                  *)

\* Whatever the playground does is a behaviour of each of its parts, so what is proved of a part holds
\* in the composition that TLC runs.
THEOREM PartsRunAsThemselves ==
  PlaygroundSpec => Spec /\ Session!Spec /\ Transcriptions!Spec /\ Streaming!Spec
<1>1. PlaygroundInit => Init /\ Session!Init /\ Transcriptions!Init /\ Streaming!Init
  BY DEF PlaygroundInit
<1>2. [PlaygroundNext]_playgroundVars =>
        /\ [Next]_vars /\ [Session!Next]_(Session!vars)
        /\ [Transcriptions!Next]_(Transcriptions!vars) /\ [Streaming!Next]_(Streaming!vars)
  <2>1. UNCHANGED sessionVars => UNCHANGED Session!vars
    BY DEF sessionVars, Session!vars
  <2>2. UNCHANGED transcriptionVars => UNCHANGED Transcriptions!vars
    BY DEF transcriptionVars, Transcriptions!vars, Transcriptions!poolVars
  <2>3. UNCHANGED streamingVars => UNCHANGED Streaming!vars
    BY DEF streamingVars, Streaming!vars
  <2>4. QED
    BY <2>1, <2>2, <2>3 DEF PlaygroundNext, playgroundVars
<1>3. QED
  BY <1>1, <1>2, PTL DEF PlaygroundSpec, Spec, Session!Spec, Transcriptions!Spec, Streaming!Spec
=============================================================================
