--------------------------- MODULE CacheLifecycle ---------------------------
(***************************************************************************)
(* The life of the demo's model cache across tabs and releases:            *)
(* engines/musicgen-acestep/model-cache-migration.ts and cache-lease.ts.   *)
(*                                                                         *)
(* A release of the demo has a generation of model files; tabs of several  *)
(* releases may be open at once over one cache directory.  A marker file   *)
(* names the generation the directory belongs to.  One Web Lock guards     *)
(* both: a runtime holds it shared as long as it lives, a migration takes  *)
(* it exclusively, deletes the directory and rewrites the marker.          *)
(*                                                                         *)
(* A call is one invocation of acquireAceDemoModelCache or of              *)
(* deleteAceDemoModelCache; a page runs any number of them.  What a call   *)
(* holds of the lock follows from where it stands.                         *)
(***************************************************************************)
EXTENDS Naturals, Sequences

CONSTANTS
  Calls,        \* invocations that may be in progress at once
  Pages,        \* open tabs
  Page,         \* the page of each call
  Generations,  \* model inventories of the releases
  Generation,   \* ACE_DEMO_MODEL_CACHE_GENERATION of each page
  Siloed,       \* createWritable (TRUE) or the throwaway marker worker (FALSE)
  NoMarker,     \* the marker file does not exist
  TornMarker    \* the marker file is empty or cut short

ASSUME LifecycleConstants ==
  /\ Page \in [Calls -> Pages]
  /\ Generation \in [Pages -> Generations]
  /\ Siloed \in BOOLEAN
  /\ NoMarker \notin Generations
  /\ TornMarker \notin Generations
  /\ NoMarker # TornMarker

VARIABLES
  marker,    \* model-cache-generation.txt
  files,     \* the generations with payloads, whole or partial, in the cache
  queue,     \* calls whose lock request is not granted yet, oldest first
  pc,        \* the await each call stands at
  aborted,   \* calls whose signal is aborted
  awaiting   \* the tracked releases a deletion waits for

vars == <<marker, files, queue, pc, aborted, awaiting>>

\* Places at which a call holds the lock.
SharedPlaces == {"check", "leased", "returning", "stale", "refusing"}
ExclusivePlaces == {"recheck", "delete", "mark", "migrated", "failing", "clear", "cleared"}
\* Places of acquireAceDemoModelCache before it returns or throws.
Acquiring == {"shared", "check", "stale", "refusing", "migrate", "exclusive", "recheck",
              "delete", "mark", "migrated", "failing", "again"}
Places == SharedPlaces \cup ExclusivePlaces \cup Acquiring \cup {"idle", "settle", "refused"}

SharedHolders == {c \in Calls : pc[c] \in SharedPlaces}
ExclusiveHolders == {c \in Calls : pc[c] \in ExclusivePlaces}

Current(c) == Generation[Page[c]]
PageCalls(p) == {c \in Calls : Page[c] = p}

TypeOK ==
  /\ marker \in Generations \cup {NoMarker, TornMarker}
  /\ files \subseteq Generations
  /\ pc \in [Calls -> Places]
  /\ aborted \subseteq Calls
  /\ awaiting \in [Calls -> SUBSET Calls]

\* A marker names the release that left the files; without one they may be anybody's.
Init ==
  /\ marker \in Generations \cup {NoMarker}
  /\ files \in SUBSET Generations
  /\ marker \in Generations => files \subseteq {marker}
  /\ queue = <<>>
  /\ pc = [c \in Calls |-> "idle"]
  /\ aborted = {}
  /\ awaiting = [c \in Calls |-> {}]

At(c, place) == pc[c] = place
Goto(c, place) == pc' = [pc EXCEPT ![c] = place]
Idle(c) == Goto(c, "idle") /\ aborted' = aborted \ {c}

-----------------------------------------------------------------------------
(* The Web Lock: requests are granted strictly in the order of arrival.     *)

Enqueue(c, place) == Goto(c, place) /\ queue' = Append(queue, c)

First(c) == queue # <<>> /\ Head(queue) = c

GrantShared(c) ==
  /\ At(c, "shared") /\ First(c)
  /\ ExclusiveHolders = {}
  /\ queue' = Tail(queue)
  /\ Goto(c, "check")
  /\ UNCHANGED <<marker, files, aborted, awaiting>>

GrantExclusive(c) ==
  /\ At(c, "exclusive") /\ First(c)
  /\ ExclusiveHolders = {} /\ SharedHolders = {}
  /\ queue' = Tail(queue)
  /\ Goto(c, "recheck")
  /\ UNCHANGED <<marker, files, aborted, awaiting>>

\* The lock is removed and the promise of its request settles.
Unlock(c) ==
  /\ \/ At(c, "stale") /\ Goto(c, "migrate") /\ UNCHANGED <<aborted, awaiting>>
     \/ At(c, "migrated") /\ Goto(c, "again") /\ UNCHANGED <<aborted, awaiting>>
     \/ pc[c] \in {"refusing", "failing", "cleared"} /\ Idle(c) /\ UNCHANGED awaiting
     \/ /\ At(c, "returning")
        /\ Idle(c)
        /\ awaiting' = [d \in Calls |-> awaiting[d] \ {c}]
  /\ UNCHANGED <<marker, files, queue>>

-----------------------------------------------------------------------------
(* acquireAceDemoModelCache                                                 *)

\* The head of its loop: throwIfAborted, then the shared request.
Loop(c) ==
  IF c \in aborted THEN Idle(c) /\ UNCHANGED queue
                   ELSE Enqueue(c, "shared") /\ UNCHANGED aborted

Acquire(c) ==
  /\ pc[c] \in {"idle", "refused"}
  /\ Loop(c)
  /\ UNCHANGED <<marker, files, awaiting>>

\* Mutant: any marker will do.
IsMarked(c) == marker # NoMarker

IsCurrent(c) == marker = Current(c)

\* Under the shared lock: the marker is read, the signal tested once more.
Check(c) ==
  /\ At(c, "check")
  /\ Goto(c, IF c \in aborted THEN "refusing" ELSE IF IsCurrent(c) THEN "leased" ELSE "stale")
  /\ UNCHANGED <<marker, files, queue, aborted, awaiting>>

\* Storage rejects; the catch releases the lock before it rethrows.
CheckFails(c) ==
  /\ At(c, "check")
  /\ Goto(c, "refusing")
  /\ UNCHANGED <<marker, files, queue, aborted, awaiting>>

\* ensureCurrentAceDemoModelCache asks for the exclusive lock; an aborted signal rejects at once.
Migrate(c) ==
  /\ At(c, "migrate")
  /\ IF c \in aborted THEN Idle(c) /\ UNCHANGED queue
                      ELSE Enqueue(c, "exclusive") /\ UNCHANGED aborted
  /\ UNCHANGED <<marker, files, awaiting>>

\* The marker is read again inside the exclusive lock.
Recheck(c) ==
  /\ At(c, "recheck")
  /\ Goto(c, IF IsCurrent(c) THEN "migrated" ELSE "delete")
  /\ UNCHANGED <<marker, files, queue, aborted, awaiting>>

\* removeEntry(recursive) deletes one payload after the other.
Remove(c) ==
  /\ pc[c] \in {"delete", "clear"}
  /\ \E g \in files : files' = files \ {g}
  /\ UNCHANGED <<marker, queue, pc, aborted, awaiting>>

Removed(c) ==
  /\ files = {}
  /\ \/ At(c, "delete") /\ Goto(c, "mark")
     \/ At(c, "clear") /\ Goto(c, "cleared")
  /\ UNCHANGED <<marker, files, queue, aborted, awaiting>>

\* Any await of the migration rejects: the exclusive lock goes, the marker stays as it is.
MigrationFails(c) ==
  /\ pc[c] \in {"recheck", "delete", "mark"}
  /\ Goto(c, "failing")
  /\ UNCHANGED <<marker, files, queue, aborted, awaiting>>

\* The marker file is created empty; the throwaway worker truncates it also when it exists.
OpenMarker(c) ==
  /\ At(c, "mark")
  /\ ~Siloed \/ marker = NoMarker
  /\ marker' = TornMarker
  /\ UNCHANGED <<files, queue, pc, aborted, awaiting>>

\* Mutant: the writable is never closed, what it was given is lost.
WriteMarkerUnclosed(c) ==
  /\ At(c, "mark")
  /\ marker' = TornMarker
  /\ Goto(c, "migrated")
  /\ UNCHANGED <<files, queue, aborted, awaiting>>

\* The marker is whole.  The worker's answer may come after the ten seconds it is given.
WriteMarker(c) ==
  /\ At(c, "mark")
  /\ marker' = Current(c)
  /\ \/ Goto(c, "migrated")
     \/ ~Siloed /\ Goto(c, "failing")
  /\ UNCHANGED <<files, queue, aborted, awaiting>>

\* Back at the head of the loop: another version could have migrated in between.
Again(c) ==
  /\ At(c, "again")
  /\ Loop(c)
  /\ UNCHANGED <<marker, files, awaiting>>

\* The caller aborts.  A request still in the queue is withdrawn.
Abort(c) ==
  /\ pc[c] \in Acquiring \ {"refusing", "failing"}
  /\ IF pc[c] \in {"shared", "exclusive"}
     THEN Idle(c) /\ queue' = SelectSeq(queue, LAMBDA d : d # c)
     ELSE aborted' = aborted \cup {c} /\ UNCHANGED <<pc, queue>>
  /\ UNCHANGED <<marker, files, awaiting>>

\* A runtime that holds the lease downloads payloads of its generation.
Download(c) ==
  /\ At(c, "leased")
  /\ files' = files \cup {Current(c)}
  /\ UNCHANGED <<marker, queue, pc, aborted, awaiting>>

\* The runtime is gone and its lease is given back; trackLocalRelease remembers it until it is.
Return(c) ==
  /\ At(c, "leased")
  /\ Goto(c, "returning")
  /\ UNCHANGED <<marker, files, queue, aborted, awaiting>>

-----------------------------------------------------------------------------
(* deleteAceDemoModelCache                                                  *)

StartDelete(c) ==
  /\ pc[c] \in {"idle", "refused"}
  /\ Goto(c, "settle")
  /\ awaiting' = [awaiting EXCEPT ![c] = {d \in PageCalls(Page[c]) : At(d, "returning")}]
  /\ UNCHANGED <<marker, files, queue, aborted>>

\* Mutant: the lock is asked for without looking at who else holds it.
AvailableToExclusive == ExclusiveHolders = {}

Available == queue = <<>> /\ SharedHolders = {} /\ ExclusiveHolders = {}

\* ifAvailable: the lock is granted at once or not at all.
RequestIfAvailable(c) ==
  /\ At(c, "settle") /\ awaiting[c] = {}
  /\ Goto(c, IF Available THEN "clear" ELSE "refused")
  /\ UNCHANGED <<marker, files, queue, aborted, awaiting>>

ClearFails(c) ==
  /\ At(c, "clear")
  /\ Goto(c, "cleared")
  /\ UNCHANGED <<marker, files, queue, aborted, awaiting>>

-----------------------------------------------------------------------------
\* A tab closes or crashes: its calls, requests and locks are gone, and with them its runtime.
Crash(p) ==
  /\ \E c \in PageCalls(p) : pc[c] # "idle"
  /\ pc' = [c \in Calls |-> IF Page[c] = p THEN "idle" ELSE pc[c]]
  /\ queue' = SelectSeq(queue, LAMBDA c : Page[c] # p)
  /\ aborted' = aborted \ PageCalls(p)
  /\ awaiting' = [c \in Calls |-> IF Page[c] = p THEN {} ELSE awaiting[c]]
  /\ UNCHANGED <<marker, files>>

\* What the browser and the code owe a call once it has begun.
Progress(c) ==
  \/ GrantShared(c) \/ GrantExclusive(c) \/ Unlock(c)
  \/ Check(c) \/ CheckFails(c) \/ Migrate(c)
  \/ Recheck(c) \/ Remove(c) \/ Removed(c) \/ MigrationFails(c)
  \/ OpenMarker(c) \/ WriteMarker(c) \/ Again(c)
  \/ RequestIfAvailable(c) \/ ClearFails(c)

\* What a page or its runtime may do or leave.
Choice(c) == Acquire(c) \/ Abort(c) \/ Download(c) \/ Return(c) \/ StartDelete(c)

Next ==
  \/ \E c \in Calls : Progress(c) \/ Choice(c)
  \/ \E p \in Pages : Crash(p)

Spec == Init /\ [][Next]_vars
FairSpec == Spec /\ \A c \in Calls : WF_vars(Progress(c))

-----------------------------------------------------------------------------
\* A marker that names a generation vouches for the directory: through crashes, failed deletions and
\* a marker worker that is terminated half-way, no file of another release stands under it.
MarkerVouchesForFiles == marker \in Generations => files \subseteq {marker}

\* While a call holds a lease the cache is of its own generation (acquireAceDemoModelCache).
LeasedCacheIsCurrent ==
  \A c \in Calls : At(c, "leased") => marker = Current(c) /\ files \subseteq {Current(c)}

\* No migration and no deletion takes a file from under a lease (model-cache-migration.ts:124).
LeasedCacheIsNotDeleted ==
  [][\A c \in Calls : At(c, "leased") => files \subseteq files']_vars

\* Once tabs of one release are left alone, an acquisition of theirs returns or throws, whatever the
\* others left behind, unless it waits for the lock while a runtime lives on the cache
\* (acquireAceDemoModelCache).  Two releases may migrate the cache from each other for ever.
AcquisitionEnds ==
  \A c \in Calls :
    <>[](\A d \in Calls : pc[d] \in Acquiring => Current(d) = Current(c)) =>
      (pc[c] \in Acquiring ~>
         \/ pc[c] \notin Acquiring
         \/ pc[c] \in {"shared", "exclusive"} /\ \E d \in Calls : At(d, "leased"))
=============================================================================
