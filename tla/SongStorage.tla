---------------------------- MODULE SongStorage ----------------------------
(***************************************************************************)
(* Where generated songs live: the audio transactions of the inference     *)
(* worker (packages/acestep/src/runtime/audio-output.ts), the registry of  *)
(* unsaved songs (engines/musicgen-acestep/pending-output-registry.ts) and *)
(* the music page that shows a song and drops it (src/music.ts).           *)
(*                                                                         *)
(* An output is a directory of the origin's file system that every tab     *)
(* sees.  The worker of one tab writes it and commits it; the page takes a *)
(* shared Web Lock on it, records it in localStorage and shows it.  Others *)
(* delete what is left behind: a page that opens reclaims recorded outputs *)
(* whose lock is free, a worker that starts removes old transactions that  *)
(* were never committed.                                                   *)
(***************************************************************************)
EXTENDS Naturals, FiniteSets

CONSTANTS
  Outputs,     \* transaction identifiers, each used once
  Tabs,        \* tabs, each with a page and a worker
  MaxRecords,  \* 20 in the code: records the registry keeps
  MaySuspend,  \* a live worker may sleep for longer than the recovery's margin
  None         \* no output, no tab

\* What the constants must be.
StorageConstants ==
  /\ MaxRecords \in Nat \ {0}
  /\ MaySuspend \in BOOLEAN
  /\ None \notin Outputs /\ None \notin Tabs

VARIABLES
  dir,      \* each output's directory: what files are in it
  old,      \* outputs whose last write is beyond the recovery's margin
  step,     \* where the worker or the page that is busy with an output stands
  maker,    \* the tab that made each output
  owned,    \* outputs whose ownership lock is held shared, by their maker's page
  records,  \* the registry in localStorage: each recorded output, and how many were recorded after it
  stale,    \* records older than an hour
  hidden,   \* tabs after pagehide
  reclaim,  \* each page's reclaimOrphanedOutputs
  recover   \* each worker's recoverStaleAceAudioOutputs

disk == <<dir, old>>
registry == <<records, stale>>
vars == <<dir, old, step, maker, owned, records, stale, hidden, reclaim, recover>>

\* The worker's transaction, then the page's way with the song.
Writing == {"begin", "open", "closed", "unmarked", "rollback"}
Showing == {"clearing", "claiming", "recording", "shown", "releasing", "forgetting", "disowning"}

TypeOK ==
  /\ dir \in [Outputs -> {"absent", "empty", "active", "unmarked", "committed"}]
  /\ old \subseteq Outputs
  /\ step \in [Outputs -> Writing \cup Showing \cup {"new", "committed", "done"}]
  /\ maker \in [Outputs -> Tabs \cup {None}]
  /\ owned \subseteq Outputs
  /\ DOMAIN records \subseteq Outputs /\ \A o \in DOMAIN records : records[o] \in Nat
  /\ stale \subseteq Outputs
  /\ hidden \subseteq Tabs
  /\ reclaim \in [Tabs -> [todo : SUBSET Outputs, deleted : SUBSET Outputs,
                           holding : Outputs \cup {None}, running : BOOLEAN]]
  /\ recover \in [Tabs -> [running : BOOLEAN, aged : SUBSET Outputs,
                           target : Outputs \cup {None}, doomed : BOOLEAN]]

NoReclaim == [todo |-> {}, deleted |-> {}, holding |-> None, running |-> FALSE]
NoRecovery == [running |-> FALSE, aged |-> {}, target |-> None, doomed |-> FALSE]

Init ==
  /\ dir = [o \in Outputs |-> "absent"]
  /\ old = {} /\ owned = {} /\ stale = {} /\ hidden = {}
  /\ step = [o \in Outputs |-> "new"]
  /\ maker = [o \in Outputs |-> None]
  /\ records = [o \in {} |-> 0]
  /\ reclaim = [t \in Tabs |-> NoReclaim]
  /\ recover = [t \in Tabs |-> NoRecovery]

Goto(o, s) == step' = [step EXCEPT ![o] = s]
Dir(o, d) == dir' = [dir EXCEPT ![o] = d]

\* What the page of t is busy with.
Current(t, s) == {o \in Outputs : maker[o] = t /\ step[o] \in s}

-----------------------------------------------------------------------------
(* The worker's transaction.                                                *)

others == <<owned, registry, hidden, reclaim, recover>>

\* The files of o are written: nobody takes them for old any more.
Touch(o) ==
  /\ old' = old \ {o}
  /\ recover' = [t \in Tabs |-> [recover[t] EXCEPT !.aged = @ \ {o}]]

\* begin(): the directory, then the marker and the files under sync access handles.  The page has
\* dropped the song on show; it may still be publishing one whose worker failed meanwhile.
Begin(t, o) ==
  /\ step[o] = "new" /\ t \notin hidden
  /\ Current(t, Writing \cup {"committed", "shown", "releasing", "forgetting", "disowning"}) = {}
  /\ maker' = [maker EXCEPT ![o] = t]
  /\ Goto(o, "begin") /\ Dir(o, "empty")
  /\ UNCHANGED <<old, others>>

Open(o) ==
  /\ step[o] = "begin" /\ dir[o] # "absent"
  /\ Goto(o, "open") /\ Dir(o, "active")
  /\ Touch(o)
  /\ UNCHANGED <<maker, owned, registry, hidden, reclaim>>

\* commit(): the song is written, both handles are closed; then the active marker goes and the
\* committed marker comes.
CloseFiles(o) ==
  /\ step[o] = "open"
  /\ Goto(o, "closed")
  /\ Touch(o)
  /\ UNCHANGED <<dir, maker, owned, registry, hidden, reclaim>>

Unmark(o) ==
  /\ step[o] = "closed"
  /\ Goto(o, "unmarked")
  /\ Dir(o, IF dir[o] = "absent" THEN "absent" ELSE "unmarked")
  /\ UNCHANGED <<old, maker, others>>

Mark(o) ==
  /\ step[o] = "unmarked" /\ dir[o] # "absent"
  /\ Goto(o, "committed") /\ Dir(o, "committed")
  /\ UNCHANGED <<old, maker, others>>

\* A step of the generation or of the commit fails or is cancelled.
Fail(o) ==
  /\ step[o] \in {"begin", "open", "closed", "unmarked"}
  /\ Goto(o, "rollback")
  /\ UNCHANGED <<disk, maker, others>>

\* rollback() and the worker's release of a result it could not post: the directory goes, or stays
\* when its removal fails.
Rollback(o) ==
  /\ step[o] \in {"rollback", "committed"}
  /\ Goto(o, "done")
  /\ Dir(o, "absent") \/ UNCHANGED dir
  /\ UNCHANGED <<old, maker, others>>

-----------------------------------------------------------------------------
(* The page.                                                                *)

\* publishResult first drops the song on show.
Publish(o) ==
  /\ step[o] = "committed"
  /\ Current(maker[o], {"clearing", "claiming", "recording"}) = {}
  /\ step' = [s \in Outputs |->
                IF s = o THEN "clearing"
                ELSE IF s \in Current(maker[o], {"shown"}) THEN "releasing" ELSE step[s]]
  /\ UNCHANGED <<disk, maker, others>>

\* beginGeneration drops it too.
DropSong(t) ==
  /\ Current(t, {"shown"}) # {}
  /\ step' = [o \in Outputs |-> IF o \in Current(t, {"shown"}) THEN "releasing" ELSE step[o]]
  /\ UNCHANGED <<disk, maker, others>>

Cleared(o) ==
  /\ step[o] = "clearing"
  /\ Current(maker[o], {"releasing", "forgetting", "disowning"}) = {}
  /\ Goto(o, "claiming")
  /\ UNCHANGED <<disk, maker, others>>

\* Resetting the stem splitter, or the request of the lock, rejects: the song is given up unrecorded.
PublishFails(o) ==
  /\ step[o] \in {"clearing", "claiming"}
  /\ Goto(o, "releasing")
  /\ UNCHANGED <<disk, maker, others>>

\* claimPendingOutput: the shared lock, granted unless a reclaimer has it.
Claim(o) ==
  /\ step[o] = "claiming"
  /\ \A t \in Tabs : reclaim[t].holding # o
  /\ Goto(o, "recording")
  /\ owned' = owned \cup {o}
  /\ UNCHANGED <<disk, maker, registry, hidden, reclaim, recover>>

Without(ids) == [r \in DOMAIN records \ ids |-> records[r]]

\* o is recorded after all the others.
With(o) == [r \in DOMAIN records \cup {o} |-> IF r = o THEN 0 ELSE records[r] + 1]

\* The newest records are kept, the oldest falls out.
Oldest(rs) == {r \in DOMAIN rs : \A q \in DOMAIN rs : rs[q] <= rs[r]}

Keep(rs) ==
  IF Cardinality(DOMAIN rs) > MaxRecords
  THEN [r \in DOMAIN rs \ Oldest(rs) |-> rs[r]] ELSE rs

Record(o) ==
  /\ step[o] = "recording"
  /\ records' = Keep(With(o))
  /\ stale' = stale \ {o}
  /\ Goto(o, IF maker[o] \in hidden THEN "releasing" ELSE "shown")
  /\ UNCHANGED <<disk, maker, owned, hidden, reclaim, recover>>

\* releaseOwnedOutput, and publishResult's error path: delete, forget, give the lock back.
Delete(o) ==
  /\ step[o] = "releasing"
  /\ Dir(o, "absent") /\ Goto(o, "forgetting")
  /\ UNCHANGED <<old, maker, others>>

Forget(o) ==
  /\ step[o] = "forgetting"
  /\ records' = Without({o}) /\ stale' = stale \ {o}
  /\ Goto(o, "disowning")
  /\ UNCHANGED <<disk, maker, owned, hidden, reclaim, recover>>

\* Mutant: forgotten all the same.
DeleteFailsForgetting(o) ==
  /\ step[o] = "releasing"
  /\ Goto(o, "forgetting")
  /\ UNCHANGED <<disk, maker, others>>

\* The deletion fails.  If it was the previous song's, the one to be published is given up as well.
DeleteFails(o) ==
  /\ step[o] = "releasing"
  /\ step' = [s \in Outputs |->
                IF s = o THEN "disowning"
                ELSE IF s \in Current(maker[o], {"clearing"}) THEN "releasing" ELSE step[s]]
  /\ UNCHANGED <<disk, maker, others>>

Disown(o) ==
  /\ step[o] = "disowning"
  /\ Goto(o, "done")
  /\ owned' = owned \ {o}
  /\ UNCHANGED <<disk, maker, registry, hidden, reclaim, recover>>

\* pagehide: the song on show is dropped, the worker is terminated and what it wrote stays.
PageHide(t) ==
  /\ t \notin hidden
  /\ hidden' = hidden \cup {t}
  /\ step' = [o \in Outputs |->
                IF o \in Current(t, {"shown"}) THEN "releasing"
                ELSE IF o \in Current(t, Writing \cup {"committed"}) THEN "done" ELSE step[o]]
  /\ recover' = [recover EXCEPT ![t] = NoRecovery]
  /\ UNCHANGED <<disk, maker, owned, registry, reclaim>>

\* The tab closes or crashes; its locks go with it, and it may be opened again.
Gone(t) ==
  /\ step' = [o \in Outputs |-> IF maker[o] = t THEN "done" ELSE step[o]]
  /\ owned' = {o \in owned : maker[o] # t}
  /\ hidden' = hidden \ {t}
  /\ reclaim' = [reclaim EXCEPT ![t] = NoReclaim]
  /\ recover' = [recover EXCEPT ![t] = NoRecovery]
  /\ UNCHANGED <<disk, maker, registry>>

-----------------------------------------------------------------------------
(* reclaimOrphanedOutputs                                                   *)

Reclaimable(t) == {o \in DOMAIN records : o \in stale /\ o \notin Current(t, {"shown"})}

Visit(t) ==
  /\ ~reclaim[t].running /\ t \notin hidden
  /\ Reclaimable(t) # {}
  /\ reclaim' = [reclaim EXCEPT ![t] = [NoReclaim EXCEPT !.todo = Reclaimable(t), !.running = TRUE]]
  /\ UNCHANGED <<disk, step, maker, owned, registry, hidden, recover>>

\* Mutant: only another reclaimer counts.
UnownedByReclaimers(o) == \A t \in Tabs : reclaim[t].holding # o

\* Nobody owns the output and nobody else reclaims it.
Unowned(o) == o \notin owned /\ \A t \in Tabs : reclaim[t].holding # o

\* The lock is taken if it is free; an owned output is left alone.
TryReclaim(t, o) ==
  /\ reclaim[t].holding = None /\ o \in reclaim[t].todo
  /\ reclaim' = [reclaim EXCEPT ![t] =
                  [todo |-> @.todo \ {o}, deleted |-> @.deleted,
                   holding |-> IF Unowned(o) THEN o ELSE None, running |-> @.running]]
  /\ UNCHANGED <<disk, step, maker, owned, registry, hidden, recover>>

ReclaimDelete(t) ==
  /\ reclaim[t].holding # None
  /\ Dir(reclaim[t].holding, "absent")
  /\ reclaim' = [reclaim EXCEPT ![t] =
                  [todo |-> @.todo, deleted |-> @.deleted \cup {@.holding}, holding |-> None,
                   running |-> @.running]]
  /\ UNCHANGED <<old, step, maker, owned, registry, hidden, recover>>

ReclaimFails(t) ==
  /\ reclaim[t].holding # None
  /\ reclaim' = [reclaim EXCEPT ![t].holding = None]
  /\ UNCHANGED <<disk, step, maker, owned, registry, hidden, recover>>

\* The records of what was deleted go, in one update of what the registry holds by then.
ReclaimEnds(t) ==
  /\ reclaim[t].running /\ reclaim[t].holding = None /\ reclaim[t].todo = {}
  /\ records' = Without(reclaim[t].deleted)
  /\ stale' = stale \ reclaim[t].deleted
  /\ reclaim' = [reclaim EXCEPT ![t] = NoReclaim]
  /\ UNCHANGED <<disk, step, maker, owned, hidden, recover>>

-----------------------------------------------------------------------------
(* recoverStaleAceAudioOutputs: per entry, is it committed, how old is it,  *)
(* and its removal.                                                         *)

\* The clock is read once, when the worker initializes.
Recover(t) ==
  /\ ~recover[t].running /\ t \notin hidden
  /\ Current(t, Writing \cup {"committed"}) = {}
  /\ old # {}
  /\ recover' = [recover EXCEPT ![t] = [NoRecovery EXCEPT !.running = TRUE, !.aged = old]]
  /\ UNCHANGED <<disk, step, maker, owned, registry, hidden, reclaim>>

Look(t, o) ==
  /\ recover[t].running /\ recover[t].target = None
  /\ dir[o] \notin {"absent", "committed"}
  /\ recover' = [recover EXCEPT ![t].target = o]
  /\ UNCHANGED <<disk, step, maker, owned, registry, hidden, reclaim>>

\* Only an entry with a known file is judged, and only an old one is removed.
IsAbandoned(t, o) == dir[o] \in {"active", "unmarked", "committed"} /\ o \in recover[t].aged

Judge(t) ==
  /\ recover[t].target # None /\ ~recover[t].doomed
  /\ recover' = [recover EXCEPT ![t] = IF IsAbandoned(t, @.target) THEN [@ EXCEPT !.doomed = TRUE]
                                                                   ELSE [@ EXCEPT !.target = None]]
  /\ UNCHANGED <<disk, step, maker, owned, registry, hidden, reclaim>>

\* The browser does not remove files under open sync access handles.
RecoverRemove(t) ==
  /\ recover[t].doomed
  /\ IF step[recover[t].target] = "open" THEN UNCHANGED dir ELSE Dir(recover[t].target, "absent")
  /\ recover' = [recover EXCEPT ![t].target = None, ![t].doomed = FALSE]
  /\ UNCHANGED <<old, step, maker, owned, registry, hidden, reclaim>>

\* The last entry, or a step that rejects.
RecoverEnds(t) ==
  /\ recover[t].running
  /\ recover' = [recover EXCEPT ![t] = NoRecovery]
  /\ UNCHANGED <<disk, step, maker, owned, registry, hidden, reclaim>>

-----------------------------------------------------------------------------
\* A day passes for what nobody writes to; a worker that is suspended does not write either.
Age(o) ==
  /\ dir[o] # "absent" /\ o \notin old
  /\ MaySuspend \/ step[o] \notin Writing
  /\ old' = old \cup {o}
  /\ UNCHANGED <<dir, step, maker, others>>

\* An hour passes for a record.
Expire(o) ==
  /\ o \in DOMAIN records \ stale
  /\ stale' = stale \cup {o}
  /\ UNCHANGED <<disk, step, maker, owned, records, hidden, reclaim, recover>>

OutputStep(o) ==
  \/ Open(o) \/ CloseFiles(o) \/ Unmark(o) \/ Mark(o) \/ Fail(o) \/ Rollback(o)
  \/ Publish(o) \/ Cleared(o) \/ PublishFails(o) \/ Claim(o) \/ Record(o)
  \/ Delete(o) \/ Forget(o) \/ DeleteFails(o) \/ Disown(o)
  \/ Age(o) \/ Expire(o)

TabStep(t) ==
  \/ DropSong(t) \/ PageHide(t) \/ Gone(t)
  \/ Visit(t) \/ ReclaimDelete(t) \/ ReclaimFails(t) \/ ReclaimEnds(t)
  \/ Recover(t) \/ Judge(t) \/ RecoverRemove(t) \/ RecoverEnds(t)
  \/ \E o \in Outputs : Begin(t, o) \/ TryReclaim(t, o) \/ Look(t, o)

Next == (\E o \in Outputs : OutputStep(o)) \/ (\E t \in Tabs : TabStep(t))

Spec == Init /\ [][Next]_vars

-----------------------------------------------------------------------------
\* A song on show, or about to be, is on disk and committed whatever other tabs reclaim or recover,
\* as long as no worker sleeps for longer than the margin (audio-output.ts:398).
ShownSongIsKept ==
  \A o \in Outputs :
    step[o] \in {"committed", "clearing", "claiming", "recording", "shown"} => dir[o] = "committed"

\* A song leaves the registry only once it is deleted, or when a newer one pushes it out: a page that
\* dies, or a deletion that fails, leaves the record for a later visit (music.ts:271).
RecordGoesWithSong ==
  \A o \in Outputs :
    o \in DOMAIN records /\ o \notin DOMAIN records' =>
      \/ dir[o] = "absent"
      \/ Cardinality(DOMAIN records) >= MaxRecords /\ ~(DOMAIN records' \subseteq DOMAIN records)

ForgottenMeansDeleted == [][RecordGoesWithSong]_vars

\* The comment in publishResult (music.ts:745): when a song cannot be published and its deletion
\* fails, its pending record remains, so that a later visit retries.
UndeletedSongIsRecorded ==
  [][\A o \in Outputs :
       step[o] = "releasing" /\ step'[o] = "disowning" /\ Cardinality(DOMAIN records) < MaxRecords =>
         o \in DOMAIN records]_vars
=============================================================================
