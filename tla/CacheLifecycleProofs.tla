------------------------ MODULE CacheLifecycleProofs ------------------------
(* Proofs about the life of the model cache, for any calls, pages and       *)
(* releases and either way of writing the marker.                           *)
EXTENDS CacheLifecycle, TLAPS

Holding == SharedPlaces \cup ExclusivePlaces

\* What the lock gives: who holds it exclusively holds it alone.
Exclusion ==
  \A c, d \in Calls : c # d /\ pc[c] \in ExclusivePlaces => pc[d] \notin Holding

\* What a call knows where it stands: the marker under its lease, the empty directory before it
\* writes the marker.
Knowledge ==
  \A c \in Calls :
    /\ At(c, "leased") => marker = Current(c)
    /\ At(c, "mark") => files = {}

LifecycleInv == TypeOK /\ Exclusion /\ Knowledge /\ MarkerVouchesForFiles

\* A call's generation is a generation.
LEMMA CurrentType == \A c \in Calls : Current(c) \in Generations
BY LifecycleConstants DEF Current

\* Places are distinct and each is in the sets it is meant for.
LEMMA PlacesTyped == Holding \subseteq Places /\ Acquiring \subseteq Places
                     /\ {"idle", "settle", "refused"} \subseteq Places
BY DEF Holding, Places

\* The invariant holds before anybody calls.
LEMMA LifecycleInit == Init => LifecycleInv
<1>1. Init => TypeOK
  BY PlacesTyped DEF Init, TypeOK
<1>2. Init => Exclusion /\ Knowledge /\ MarkerVouchesForFiles
  BY DEF Init, Exclusion, Knowledge, MarkerVouchesForFiles, At, Holding, SharedPlaces, ExclusivePlaces
<1> QED BY <1>1, <1>2 DEF LifecycleInv

\* A step that only moves one call, to a place where it knows and holds nothing new.
LEMMA MoveKeeps ==
  ASSUME LifecycleInv, NEW c \in Calls, NEW place \in Places,
         pc' = [pc EXCEPT ![c] = place], UNCHANGED <<marker, files>>,
         place \in ExclusivePlaces => pc[c] \in ExclusivePlaces,
         place \in SharedPlaces => pc[c] \in Holding,
         place = "leased" => marker = Current(c),
         place = "mark" => files = {}
  PROVE  pc' \in [Calls -> Places] /\ Exclusion' /\ Knowledge' /\ MarkerVouchesForFiles'
<1>1. pc \in [Calls -> Places]
  BY DEF LifecycleInv, TypeOK
<1>2. \A d \in Calls : pc'[d] = IF d = c THEN place ELSE pc[d]
  BY <1>1
<1>3. pc' \in [Calls -> Places]
  BY <1>1
<1>4. Exclusion'
  BY <1>2 DEF LifecycleInv, Exclusion, Holding
<1>5. Knowledge'
  BY <1>2 DEF LifecycleInv, Knowledge, At, Current
<1>6. MarkerVouchesForFiles'
  BY DEF LifecycleInv, MarkerVouchesForFiles
<1> QED BY <1>3, <1>4, <1>5, <1>6

\* Every step of one call keeps the invariant.
LEMMA CallKeeps ==
  ASSUME LifecycleInv, NEW c \in Calls, Progress(c) \/ Choice(c)
  PROVE  LifecycleInv'
<1> USE DEF LifecycleInv
<1> SUFFICES /\ marker' \in Generations \cup {NoMarker, TornMarker}
             /\ files' \subseteq Generations
             /\ pc' \in [Calls -> Places]
             /\ aborted' \subseteq Calls
             /\ awaiting' \in [Calls -> SUBSET Calls]
             /\ Exclusion' /\ Knowledge' /\ MarkerVouchesForFiles'
  BY DEF TypeOK
<1> DEFINE Rest == aborted' \subseteq Calls /\ awaiting' \in [Calls -> SUBSET Calls]
           Core == /\ marker' \in Generations \cup {NoMarker, TornMarker}
                   /\ files' \subseteq Generations
                   /\ pc' \in [Calls -> Places]
                   /\ Exclusion' /\ Knowledge' /\ MarkerVouchesForFiles'
<1>T. /\ marker \in Generations \cup {NoMarker, TornMarker} /\ files \subseteq Generations
      /\ pc \in [Calls -> Places] /\ aborted \subseteq Calls
      /\ awaiting \in [Calls -> SUBSET Calls] /\ Current(c) \in Generations
  BY CurrentType DEF TypeOK
<1>1. Rest
  BY <1>T DEF TypeOK, Progress, Choice, GrantShared, GrantExclusive, Unlock, Check, CheckFails, Migrate,
         Recheck, Remove, Removed, MigrationFails, OpenMarker, WriteMarker, Again, RequestIfAvailable,
         ClearFails, Acquire, Abort, Download, Return, StartDelete, Idle, Loop, PageCalls
<1>2. CASE GrantShared(c)
  <2>1. /\ pc' = [pc EXCEPT ![c] = "check"] /\ ExclusiveHolders = {} /\ UNCHANGED <<marker, files>>
    BY <1>2 DEF GrantShared, Goto
  <2>2. \A d \in Calls : pc'[d] = IF d = c THEN "check" ELSE pc[d]
    BY <2>1, <1>T
  <2>3. Exclusion'
    BY <2>1, <2>2 DEF Exclusion, Holding, ExclusiveHolders, ExclusivePlaces
  <2>4. Knowledge' /\ MarkerVouchesForFiles' /\ pc' \in [Calls -> Places]
    BY <2>1, <2>2, <1>T DEF Knowledge, MarkerVouchesForFiles, At, Current, Places, Acquiring
  <2> QED BY <2>1, <2>3, <2>4, <1>1, <1>T
<1>3. CASE GrantExclusive(c)
  <2>1. /\ pc' = [pc EXCEPT ![c] = "recheck"] /\ UNCHANGED <<marker, files>>
        /\ ExclusiveHolders = {} /\ SharedHolders = {}
    BY <1>3 DEF GrantExclusive, Goto
  <2>2. \A d \in Calls : pc'[d] = IF d = c THEN "recheck" ELSE pc[d]
    BY <2>1, <1>T
  <2>3. Exclusion'
    BY <2>1, <2>2 DEF Exclusion, Holding, ExclusiveHolders, SharedHolders
  <2>4. Knowledge' /\ MarkerVouchesForFiles' /\ pc' \in [Calls -> Places]
    BY <2>1, <2>2, <1>T DEF Knowledge, MarkerVouchesForFiles, At, Current, Places, Acquiring
  <2> QED BY <2>1, <2>3, <2>4, <1>1, <1>T
<1>4. CASE \/ Unlock(c) \/ Check(c) \/ CheckFails(c) \/ Migrate(c) \/ Recheck(c) \/ Removed(c)
           \/ MigrationFails(c) \/ Again(c) \/ ClearFails(c) \/ Acquire(c) \/ Return(c) \/ StartDelete(c)
  <2>1. PICK place \in Places :
          /\ pc' = [pc EXCEPT ![c] = place] /\ UNCHANGED <<marker, files>>
          /\ place \in ExclusivePlaces => pc[c] \in ExclusivePlaces
          /\ place \in SharedPlaces => pc[c] \in Holding
          /\ place = "leased" => marker = Current(c)
          /\ place = "mark" => files = {}
    <3> USE DEF Places, SharedPlaces, ExclusivePlaces, Acquiring, Holding, Goto, At
    <3>1. CASE Unlock(c) BY <3>1 DEF Unlock, Idle
    <3>2. CASE Check(c)
      <4>1. CASE c \in aborted BY <3>2, <4>1 DEF Check
      <4>2. CASE c \notin aborted /\ IsCurrent(c) BY <3>2, <4>2 DEF Check, IsCurrent
      <4>3. CASE c \notin aborted /\ ~IsCurrent(c) BY <3>2, <4>3 DEF Check
      <4> QED BY <4>1, <4>2, <4>3
    <3>3. CASE CheckFails(c) BY <3>3 DEF CheckFails
    <3>4. CASE Migrate(c) BY <3>4 DEF Migrate, Idle, Enqueue
    <3>5. CASE Recheck(c)
      <4>1. CASE IsCurrent(c) BY <3>5, <4>1 DEF Recheck
      <4>2. CASE ~IsCurrent(c) BY <3>5, <4>2 DEF Recheck
      <4> QED BY <4>1, <4>2
    <3>6. CASE Removed(c) BY <3>6 DEF Removed
    <3>7. CASE MigrationFails(c) BY <3>7 DEF MigrationFails
    <3>8. CASE Again(c) BY <3>8 DEF Again, Loop, Idle, Enqueue
    <3>9. CASE ClearFails(c) BY <3>9 DEF ClearFails
    <3>10. CASE Acquire(c) BY <3>10 DEF Acquire, Loop, Idle, Enqueue
    <3>11. CASE Return(c) BY <3>11 DEF Return
    <3>12. CASE StartDelete(c) BY <3>12 DEF StartDelete
    <3> QED BY <1>4, <3>1, <3>2, <3>3, <3>4, <3>5, <3>6, <3>7, <3>8, <3>9, <3>10, <3>11, <3>12
  <2>2. pc' \in [Calls -> Places] /\ Exclusion' /\ Knowledge' /\ MarkerVouchesForFiles'
    BY <2>1, MoveKeeps
  <2> QED BY <2>1, <2>2, <1>1, <1>T
<1>5. CASE RequestIfAvailable(c)
  <2>1. /\ pc' = [pc EXCEPT ![c] = IF Available THEN "clear" ELSE "refused"]
        /\ UNCHANGED <<marker, files>>
    BY <1>5 DEF RequestIfAvailable, Goto
  <2>2. CASE ~Available
    <3>1. pc' = [pc EXCEPT ![c] = "refused"] BY <2>1, <2>2
    <3>2. "refused" \in Places /\ "refused" \notin SharedPlaces /\ "refused" \notin ExclusivePlaces
      BY DEF Places, SharedPlaces, ExclusivePlaces
    <3>3. pc' \in [Calls -> Places] /\ Exclusion' /\ Knowledge' /\ MarkerVouchesForFiles'
      BY <3>1, <3>2, <2>1, MoveKeeps
    <3> QED BY <3>3, <2>1, <1>1, <1>T
  <2>3. CASE Available
    <3>1. ExclusiveHolders = {} /\ SharedHolders = {} BY <2>3 DEF Available
    <3>2. \A d \in Calls : pc'[d] = IF d = c THEN "clear" ELSE pc[d]
      BY <2>1, <2>3, <1>T
    <3>3. Exclusion'
      BY <3>1, <3>2 DEF Exclusion, Holding, ExclusiveHolders, SharedHolders
    <3>4. Knowledge' /\ MarkerVouchesForFiles' /\ pc' \in [Calls -> Places]
      BY <2>1, <2>3, <3>2, <1>T DEF Knowledge, MarkerVouchesForFiles, At, Current, Places, ExclusivePlaces
    <3> QED BY <2>1, <3>3, <3>4, <1>1, <1>T
  <2> QED BY <2>2, <2>3
<1>6. CASE Remove(c)
  <2>1. /\ pc[c] \in {"delete", "clear"} /\ files' \subseteq files /\ UNCHANGED <<marker, pc>>
    BY <1>6 DEF Remove
  <2>2. Exclusion' /\ Knowledge' /\ MarkerVouchesForFiles'
    BY <2>1 DEF Exclusion, Knowledge, MarkerVouchesForFiles, At, Current
  <2> QED BY <2>1, <2>2, <1>1, <1>T
<1>7. CASE OpenMarker(c) \/ WriteMarker(c)
  <2>1. /\ pc[c] = "mark" /\ files' = files /\ marker' \in {TornMarker, Current(c)}
        /\ \/ UNCHANGED pc
           \/ \E place \in {"migrated", "failing"} : pc' = [pc EXCEPT ![c] = place]
    BY <1>7 DEF OpenMarker, WriteMarker, At, Goto
  <2>2. files = {} BY <2>1 DEF Knowledge, At
  <2>3. \A d \in Calls : d # c => pc[d] \notin Holding
    BY <2>1 DEF Exclusion, ExclusivePlaces
  <2>4. \A d \in Calls : d # c => pc'[d] = pc[d]
    BY <2>1, <1>T
  <2>5. pc'[c] \in {"mark", "migrated", "failing"} /\ pc' \in [Calls -> Places]
    BY <2>1, <1>T DEF Places, Acquiring
  <2>6. Exclusion'
    BY <2>3, <2>4, <2>5 DEF Exclusion, Holding
  <2>7. Knowledge' /\ MarkerVouchesForFiles'
    BY <2>1, <2>2, <2>3, <2>4, <2>5 DEF Knowledge, MarkerVouchesForFiles, At, Holding, SharedPlaces
  <2> QED BY <2>1, <2>5, <2>6, <2>7, <1>1, <1>T
<1>8. CASE Abort(c)
  <2>1. /\ UNCHANGED <<marker, files>>
        /\ UNCHANGED pc \/ pc' = [pc EXCEPT ![c] = "idle"]
    BY <1>8 DEF Abort, Idle, Goto
  <2>2. CASE UNCHANGED pc
    BY <2>1, <2>2, <1>1, <1>T DEF Exclusion, Knowledge, MarkerVouchesForFiles, At, Current
  <2>3. CASE pc' = [pc EXCEPT ![c] = "idle"]
    <3>1. "idle" \in Places /\ "idle" \notin SharedPlaces /\ "idle" \notin ExclusivePlaces
      BY DEF Places, SharedPlaces, ExclusivePlaces
    <3>2. pc' \in [Calls -> Places] /\ Exclusion' /\ Knowledge' /\ MarkerVouchesForFiles'
      BY <3>1, <2>1, <2>3, MoveKeeps
    <3> QED BY <3>2, <2>1, <1>1, <1>T
  <2> QED BY <2>1, <2>2, <2>3
<1>9. CASE Download(c)
  <2>1. /\ pc[c] = "leased" /\ files' = files \cup {Current(c)} /\ UNCHANGED <<marker, pc>>
    BY <1>9 DEF Download, At
  <2>2. marker = Current(c) BY <2>1 DEF Knowledge, At
  <2>3. \A d \in Calls : pc[d] # "mark"
    BY <2>1 DEF Exclusion, Holding, SharedPlaces, ExclusivePlaces
  <2>4. Exclusion' /\ Knowledge' /\ MarkerVouchesForFiles'
    BY <2>1, <2>2, <2>3, <1>T DEF Exclusion, Knowledge, MarkerVouchesForFiles, At, Current
  <2> QED BY <2>1, <2>4, <1>1, <1>T
<1> QED BY <1>2, <1>3, <1>4, <1>5, <1>6, <1>7, <1>8, <1>9 DEF Progress, Choice

\* The crash of a page keeps the invariant.
LEMMA CrashKeeps ==
  ASSUME LifecycleInv, NEW p \in Pages, Crash(p)
  PROVE  LifecycleInv'
<1>1. /\ UNCHANGED <<marker, files>> /\ aborted' \subseteq aborted
      /\ pc' = [c \in Calls |-> IF Page[c] = p THEN "idle" ELSE pc[c]]
      /\ awaiting' = [c \in Calls |-> IF Page[c] = p THEN {} ELSE awaiting[c]]
  BY DEF Crash
<1>2. TypeOK'
  BY <1>1, PlacesTyped DEF LifecycleInv, TypeOK
<1>3. \A c \in Calls : pc'[c] = "idle" \/ pc'[c] = pc[c]
  BY <1>1
<1>4. Exclusion'
  BY <1>3 DEF LifecycleInv, Exclusion, Holding, SharedPlaces, ExclusivePlaces
<1>5. Knowledge' /\ MarkerVouchesForFiles'
  BY <1>1, <1>3 DEF LifecycleInv, Knowledge, MarkerVouchesForFiles, At, Current
<1> QED BY <1>2, <1>4, <1>5 DEF LifecycleInv

LEMMA LifecycleStep == LifecycleInv /\ [Next]_vars => LifecycleInv'
<1> SUFFICES ASSUME LifecycleInv, [Next]_vars PROVE LifecycleInv' OBVIOUS
<1>1. CASE Next BY <1>1, CallKeeps, CrashKeeps DEF Next
<1>2. CASE UNCHANGED vars
  BY <1>2 DEF vars, LifecycleInv, TypeOK, Exclusion, Knowledge, MarkerVouchesForFiles, At, Current
<1> QED BY <1>1, <1>2

\* The invariant is one: who holds the lock exclusively is alone, and everybody knows what the marker says.
THEOREM LifecycleInvariant == Spec => []LifecycleInv
BY LifecycleInit, LifecycleStep, PTL DEF Spec

\* A marker that names a generation vouches for every file, through crashes and failed migrations.
THEOREM MarkerVouches == Spec => []MarkerVouchesForFiles
<1>1. LifecycleInv => MarkerVouchesForFiles BY DEF LifecycleInv
<1> QED BY <1>1, LifecycleInvariant, PTL

\* Whoever holds a lease has the files of its own release under it and no others.
THEOREM LeaseIsCurrent == Spec => []LeasedCacheIsCurrent
<1>1. LifecycleInv => LeasedCacheIsCurrent
  BY CurrentType DEF LifecycleInv, Knowledge, MarkerVouchesForFiles, LeasedCacheIsCurrent
<1> QED BY <1>1, LifecycleInvariant, PTL

\* No migration, deletion or crash removes a file while somebody holds a lease.
THEOREM LeaseProtectsFiles == Spec => LeasedCacheIsNotDeleted
<1>1. ASSUME LifecycleInv, [Next]_vars, NEW c \in Calls, At(c, "leased")
      PROVE  files \subseteq files'
  <2>1. CASE UNCHANGED files BY <2>1
  <2>2. CASE \E d \in Calls : Remove(d)
    <3>1. PICK d \in Calls : Remove(d) BY <2>2
    <3>2. pc[d] \in ExclusivePlaces /\ pc[c] \in Holding /\ pc[c] # pc[d]
      BY <3>1, <1>1 DEF Remove, At, ExclusivePlaces, Holding, SharedPlaces
    <3>3. c # d /\ Exclusion BY <3>2, <1>1 DEF LifecycleInv
    <3> QED BY <3>2, <3>3 DEF Exclusion
  <2>3. CASE \E d \in Calls : Download(d) BY <2>3 DEF Download
  <2>4. CASE \E d \in Calls : Progress(d) /\ ~Remove(d)
    <3>1. PICK d \in Calls : Progress(d) /\ ~Remove(d) BY <2>4
    <3>2. UNCHANGED files
      BY <3>1 DEF Progress, GrantShared, GrantExclusive, Unlock, Check, CheckFails, Migrate, Recheck,
             Removed, MigrationFails, OpenMarker, WriteMarker, Again, RequestIfAvailable, ClearFails
    <3> QED BY <3>2
  <2>5. CASE \E d \in Calls : Choice(d) /\ ~Download(d)
    <3>1. PICK d \in Calls : Choice(d) /\ ~Download(d) BY <2>5
    <3>2. UNCHANGED files BY <3>1 DEF Choice, Acquire, Abort, Return, StartDelete
    <3> QED BY <3>2
  <2>6. CASE \E p \in Pages : Crash(p) BY <2>6 DEF Crash
  <2>7. CASE UNCHANGED vars BY <2>7 DEF vars
  <2> QED BY <1>1, <2>1, <2>2, <2>3, <2>4, <2>5, <2>6, <2>7 DEF Next
<1>2. LifecycleInv /\ [Next]_vars => [\A c \in Calls : At(c, "leased") => files \subseteq files']_vars
  BY <1>1
<1> QED BY <1>2, LifecycleInvariant, PTL DEF Spec, LeasedCacheIsNotDeleted
=============================================================================
