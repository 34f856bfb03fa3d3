----------------------------- MODULE ModelCache -----------------------------
(***************************************************************************)
(* The model cache: packages/acestep/src/model/cache.ts, driven by the     *)
(* acquisition of acquire.ts and the resumable download of package.ts.     *)
(*                                                                         *)
(* One content-addressed identity is a directory of the origin private     *)
(* file system (OPFS) with a payload and a marker.  It belongs to the      *)
(* origin: every tab's inference worker reads and writes it, with no lock  *)
(* but the reservation each worker keeps in its own memory.  Any number of *)
(* callers, each in a worker, acquire the identity; a worker may be        *)
(* terminated between any two awaits.                                      *)
(*                                                                         *)
(* A payload is a sequence of units that are "good" (the manifest's bytes  *)
(* at that place) or "bad", and its SHA-256 is right when all are good.    *)
(***************************************************************************)
EXTENDS Naturals, Sequences

CONSTANTS
  Callers,      \* acquisitions that may run at once
  Workers,      \* dedicated inference workers, one or more for each tab
  Home,         \* the worker of each caller
  Length,       \* the manifest's byteLength, in units
  MaxAttempts,  \* maximumAttempts of the download
  Siloed,       \* createWritable (TRUE) or sync access handles (FALSE)
  MayCorrupt,   \* stored bytes may change behind the program's back
  NoFile        \* no such file

Contents == UNION {[1..n -> {"good", "bad"}] : n \in 0..Length}
Correct == [i \in 1..Length |-> "good"]

ASSUME CacheConstants ==
  /\ Home \in [Callers -> Workers]
  /\ Length \in Nat
  /\ MaxAttempts \in Nat \ {0}
  /\ Siloed \in BOOLEAN
  /\ MayCorrupt \in BOOLEAN
  /\ NoFile \notin Contents

VARIABLES
  directory,  \* the identity's directory exists
  payload,    \* payload.bin
  marker,     \* verified.json: "none", "torn" (created, not yet whole) or "valid"
  reserved,   \* workers whose activeDigests holds the identity
  leaked,     \* workers with a sync access handle that nobody will close
  caller      \* where each caller is and what it holds

disk == <<directory, payload, marker>>
vars == <<directory, payload, marker, reserved, leaked, caller>>

\* Writing: the transaction's writable is open.
Writing == {"prefix", "fetch", "body", "commit", "close", "reject", "rollback"}
Phases == Writing \cup {"idle", "lookup", "stat", "authenticate", "remove", "removing", "begin",
                        "unmark", "snapshot", "open", "seal", "mark", "rejecting", "acquired"}

Caller == [pc : Phases,
           goal : {"inspect", "begin", "confirm", "retry", "fail"},  \* what pc is for
           file : Contents \cup {NoFile},    \* the File it read last
           swap : Contents \cup {NoFile},    \* what createWritable buffers
           hashed : Contents \cup {NoFile},  \* what its SHA-256 has seen
           attempt : 0..MaxAttempts]

Idle == [pc |-> "idle", goal |-> "inspect", file |-> NoFile, swap |-> NoFile,
         hashed |-> NoFile, attempt |-> 0]

TypeOK ==
  /\ directory \in BOOLEAN
  /\ payload \in Contents \cup {NoFile}
  /\ marker \in {"none", "torn", "valid"}
  /\ reserved \subseteq Workers
  /\ leaked \subseteq Workers
  /\ caller \in [Callers -> Caller]
  /\ ~directory => payload = NoFile /\ marker = "none"

Init ==
  /\ directory = FALSE
  /\ payload = NoFile
  /\ marker = "none"
  /\ reserved = {}
  /\ leaked = {}
  /\ caller = [c \in Callers |-> Idle]

At(c, phase) == caller[c].pc = phase
Goto(c, phase) == caller' = [caller EXCEPT ![c].pc = phase]
GotoFor(c, phase, goal) == caller' = [caller EXCEPT ![c].pc = phase, ![c].goal = goal]

\* The acquisition throws; whatever it held is gone.
Fail(c) == caller' = [caller EXCEPT ![c] = Idle]
Release(c) == reserved' = reserved \ {Home[c]}

\* Mutant: an error in begin() leaves the reservation behind.
ThrowKeepsReservation(c) == Fail(c) /\ UNCHANGED reserved

\* A step of begin() throws: its catch drops the reservation and rethrows.
Throw(c) == Fail(c) /\ Release(c)

\* The browser refuses to remove a file that is open for writing.
Locked == leaked # {} \/ \E c \in Callers : caller[c].pc \in Writing \cup {"mark"}

-----------------------------------------------------------------------------
(* Looking a candidate up: acquisition's inspection ("inspect"), begin()'s  *)
(* own check ("begin"), and the look after a commit ("confirm").            *)

\* The manifest's size, the only thing openCandidate checks of the bytes.
FullSize(contents) == IF contents = NoFile THEN FALSE ELSE Len(contents) = Length

Start(c) ==
  /\ caller[c].pc \in {"idle", "acquired"}
  /\ caller' = [caller EXCEPT ![c] = [Idle EXCEPT !.pc = "lookup"]]
  /\ UNCHANGED <<disk, reserved, leaked>>

\* openCandidate finds nothing.
Missed(c) ==
  \/ caller[c].goal = "inspect" /\ Goto(c, "begin") /\ UNCHANGED reserved
  \/ caller[c].goal = "begin" /\ Goto(c, "unmark") /\ UNCHANGED reserved
  \/ caller[c].goal = "confirm" /\ Fail(c) /\ UNCHANGED reserved

\* openCandidate: the marker.
Lookup(c) ==
  /\ At(c, "lookup")
  /\ IF marker = "valid" THEN Goto(c, "stat") /\ UNCHANGED reserved ELSE Missed(c)
  /\ UNCHANGED <<disk, leaked>>

\* openCandidate: the payload and its size.  begin() refuses a verified one.
Stat(c) ==
  /\ At(c, "stat")
  /\ IF ~FullSize(payload) THEN Missed(c)
     ELSE IF caller[c].goal = "begin" THEN Throw(c)
     ELSE /\ caller' = [caller EXCEPT ![c].pc = "authenticate", ![c].file = payload]
          /\ UNCHANGED reserved
  /\ UNCHANGED <<disk, leaked>>

LookupFails(c) ==
  /\ caller[c].pc \in {"lookup", "stat"}
  /\ IF caller[c].goal = "begin" THEN Throw(c) ELSE (Fail(c) /\ UNCHANGED reserved)
  /\ UNCHANGED <<disk, leaked>>

\* Mutant: what the own commit wrote is not hashed again.
AuthenticateTrustsCommit(c) ==
  /\ At(c, "authenticate")
  /\ Goto(c, IF caller[c].goal = "confirm" \/ caller[c].file = Correct THEN "acquired" ELSE "remove")
  /\ UNCHANGED <<disk, reserved, leaked>>

\* cachedFileMatchesRecord over the whole file.
Authenticate(c) ==
  /\ At(c, "authenticate")
  /\ Goto(c, IF caller[c].file = Correct THEN "acquired" ELSE "remove")
  /\ UNCHANGED <<disk, reserved, leaked>>

\* The file cannot be read, or the signal aborts.
AuthenticateFails(c) ==
  /\ At(c, "authenticate")
  /\ \/ Fail(c)
     \/ caller[c].goal = "inspect" /\ Goto(c, "remove")
  /\ UNCHANGED <<disk, reserved, leaked>>

\* AceOpfsModelCache.remove: refused while the worker has a writer.
Remove(c) ==
  /\ At(c, "remove")
  /\ IF Home[c] \in reserved THEN Fail(c) /\ UNCHANGED reserved
     ELSE Goto(c, "removing") /\ reserved' = reserved \cup {Home[c]}
  /\ UNCHANGED <<disk, leaked>>

RemoveIdentity ==
  ~Locked /\ directory' = FALSE /\ payload' = NoFile /\ marker' = "none"

\* removeEntry settles.  After a commit, a mismatch is an error in any case.
Removing(c) ==
  /\ At(c, "removing")
  /\ \/ RemoveIdentity /\ (IF caller[c].goal = "inspect" THEN Goto(c, "begin") ELSE Fail(c))
     \/ UNCHANGED disk /\ Fail(c)
  /\ Release(c)
  /\ UNCHANGED leaked
-----------------------------------------------------------------------------
(* begin(), one await at a time.                                            *)

\* Mutant: the reservation is checked but not taken.
BeginUnreserved(c) ==
  /\ At(c, "begin")
  /\ IF Home[c] \in reserved THEN Fail(c)
     ELSE caller' = [caller EXCEPT ![c].pc = "lookup", ![c].goal = "begin",
                                   ![c].attempt = @ + 1, ![c].file = NoFile]
  /\ UNCHANGED <<disk, reserved, leaked>>

\* Mutant: attempts are not counted.
BeginUncounted(c) ==
  /\ At(c, "begin")
  /\ IF Home[c] \in reserved THEN Fail(c) /\ UNCHANGED reserved
     ELSE /\ caller' = [caller EXCEPT ![c].pc = "lookup", ![c].goal = "begin", ![c].file = NoFile]
          /\ reserved' = reserved \cup {Home[c]}
  /\ UNCHANGED <<disk, leaked>>

\* An attempt starts: the digest is reserved before the first await.
Begin(c) ==
  /\ At(c, "begin")
  /\ IF Home[c] \in reserved THEN Fail(c) /\ UNCHANGED reserved
     ELSE /\ caller' = [caller EXCEPT ![c].pc = "lookup", ![c].goal = "begin",
                                      ![c].attempt = @ + 1, ![c].file = NoFile]
          /\ reserved' = reserved \cup {Home[c]}
  /\ UNCHANGED <<disk, leaked>>

\* The signal aborts before an attempt.
BeginAborts(c) == At(c, "begin") /\ Fail(c) /\ UNCHANGED <<disk, reserved, leaked>>

\* getDirectoryHandle(create) and the removal of a marker that did not qualify.
Unmark(c) ==
  /\ At(c, "unmark")
  /\ ~\E d \in Callers : At(d, "mark")
  /\ directory' = TRUE
  /\ marker' = "none"
  /\ Goto(c, "snapshot")
  /\ UNCHANGED <<payload, reserved, leaked>>

\* getFileHandle(create) and getFile.
Snapshot(c) ==
  /\ At(c, "snapshot")
  /\ directory
  /\ payload' = IF payload = NoFile THEN <<>> ELSE payload
  /\ caller' = [caller EXCEPT ![c].pc = "open", ![c].file = payload']
  /\ UNCHANGED <<directory, marker, reserved, leaked>>

\* openCacheWritable over what is stored now; the cursor is the snapshot's size
\* (never more than the manifest's).  A sync access handle is exclusive.
Open(c) ==
  /\ At(c, "open")
  /\ payload # NoFile
  /\ Siloed \/ (leaked = {} /\ \A d \in Callers : caller[d].pc \notin Writing)
  /\ LET size == Len(caller[c].file) IN
     caller' = [caller EXCEPT
       ![c].pc = IF size > 0 THEN "prefix" ELSE IF Length = 0 THEN "commit" ELSE "fetch",
       ![c].swap = IF Siloed THEN payload ELSE NoFile,
       ![c].hashed = IF size > 0 THEN NoFile ELSE <<>>]
  /\ UNCHANGED <<disk, reserved, leaked>>

\* An await of begin() rejects.
BeginFails(c) ==
  /\ caller[c].pc \in {"unmark", "snapshot", "open"}
  /\ Throw(c)
  /\ UNCHANGED <<disk, leaked>>

-----------------------------------------------------------------------------
(* fetchAceModelAssetResumeAttempt with the transaction.                    *)

\* The attempt throws; rollbackQuietly follows.
Abandon(c, goal) == GotoFor(c, "rollback", goal)
AttemptFails(c) ==
  /\ caller[c].pc \in {"prefix", "fetch", "body"}
  /\ \/ Abandon(c, "fail")
     \/ caller[c].pc # "prefix" /\ Abandon(c, "retry")
  /\ UNCHANGED <<disk, reserved, leaked>>

\* Mutant: the prefix left by an earlier attempt is taken for good.
HashExistingPrefixUnread(c) ==
  /\ At(c, "prefix")
  /\ caller' = [caller EXCEPT
       ![c].hashed = [i \in 1..Len(caller[c].file) |-> "good"],
       ![c].pc = IF Len(caller[c].file) = Length THEN "commit" ELSE "fetch"]
  /\ UNCHANGED <<disk, reserved, leaked>>

\* hashExistingPrefix reads the snapshot.
HashExistingPrefix(c) ==
  /\ At(c, "prefix")
  /\ caller' = [caller EXCEPT
       ![c].hashed = caller[c].file,
       ![c].pc = IF Len(caller[c].file) = Length THEN "commit" ELSE "fetch"]
  /\ UNCHANGED <<disk, reserved, leaked>>

\* What write() and restart() act on.
Stored(c) == IF Siloed THEN caller[c].swap ELSE payload

\* The writable holds the given bytes, and the hash has seen these.
Store(c, contents, seen, phase) ==
  /\ caller' = [caller EXCEPT ![c].pc = phase, ![c].hashed = seen,
                              ![c].swap = IF Siloed THEN contents ELSE NoFile]
  /\ payload' = IF Siloed THEN payload ELSE contents
  /\ UNCHANGED <<directory, marker, reserved, leaked>>

\* The response: 206 appends, 200 to a ranged request restarts from zero.
Respond(c) ==
  /\ At(c, "fetch")
  /\ \/ Store(c, Stored(c), caller[c].hashed, "body")
     \/ caller[c].hashed # <<>> /\ Store(c, <<>>, <<>>, "body")

\* The unit at a place, over whatever was there; a gap is filled with zeros.
Overwrite(contents, place, unit) ==
  [i \in 1..(IF place > Len(contents) THEN place ELSE Len(contents)) |->
     IF i = place THEN unit ELSE IF i <= Len(contents) THEN contents[i] ELSE "bad"]

\* write() at the cursor, which is what has been hashed.
Write(c) ==
  /\ At(c, "body")
  /\ Len(caller[c].hashed) < Length
  /\ \E unit \in {"good", "bad"} :
       Store(c, Overwrite(Stored(c), Len(caller[c].hashed) + 1, unit),
             Append(caller[c].hashed, unit), "body")

\* The body ends with every byte of the manifest.
EndOfBody(c) ==
  /\ At(c, "body")
  /\ Len(caller[c].hashed) = Length
  /\ Goto(c, "commit")
  /\ UNCHANGED <<disk, reserved, leaked>>
-----------------------------------------------------------------------------
(* commit() and rollback().                                                 *)

\* Mutant: the digest is not compared.
CommitUnchecked(c) ==
  /\ At(c, "commit")
  /\ Goto(c, "close")
  /\ UNCHANGED <<disk, reserved, leaked>>

\* The digest decides between publication and deletion.
Commit(c) ==
  /\ At(c, "commit")
  /\ Goto(c, IF caller[c].hashed = Correct THEN "close" ELSE "reject")
  /\ UNCHANGED <<disk, reserved, leaked>>

\* writable.close(): the swap file replaces the payload.
CloseWritable(c) == directory /\ payload' = Stored(c) /\ UNCHANGED <<directory, marker>>

\* writable.close() throws.  A sync access handle whose flush threw stays open.
CloseThrows(c) ==
  /\ leaked' = IF Siloed THEN leaked ELSE leaked \cup {Home[c]}
  /\ UNCHANGED disk

Close(c) ==
  /\ At(c, "close")
  /\ \/ CloseWritable(c) /\ Goto(c, "seal") /\ UNCHANGED <<reserved, leaked>>
     \/ CloseThrows(c) /\ Throw(c)

\* The size is checked again and the marker file created, not yet written.
Seal(c) ==
  /\ At(c, "seal")
  /\ FullSize(payload)
  /\ Siloed \/ \A d \in Callers : ~At(d, "mark")
  /\ marker' = IF Siloed /\ marker = "valid" THEN "valid" ELSE "torn"
  /\ Goto(c, "mark")
  /\ UNCHANGED <<directory, payload, reserved, leaked>>

\* The marker is written and closed, and the reservation dropped.
Mark(c) ==
  /\ At(c, "mark")
  /\ marker # "none"
  /\ marker' = "valid"
  /\ caller' = [caller EXCEPT ![c] = [Idle EXCEPT !.pc = "lookup", !.goal = "confirm"]]
  /\ Release(c)
  /\ UNCHANGED <<directory, payload, leaked>>

SealFails(c) ==
  /\ caller[c].pc \in {"seal", "mark"}
  /\ Throw(c)
  /\ UNCHANGED <<disk, leaked>>

\* The digest is wrong: close, then delete, still reserved.
Reject(c) ==
  /\ At(c, "reject")
  /\ \/ CloseWritable(c) /\ UNCHANGED leaked
     \/ CloseThrows(c)
  /\ Goto(c, "rejecting")
  /\ UNCHANGED reserved

Rejecting(c) ==
  /\ At(c, "rejecting")
  /\ RemoveIdentity \/ UNCHANGED disk
  /\ Throw(c)
  /\ UNCHANGED leaked

\* rollbackQuietly: the partial payload is kept, or lost if close() throws
\* (abort() then closes the handle).  A transport failure may be retried.
Rollback(c) ==
  /\ At(c, "rollback")
  /\ CloseWritable(c) \/ UNCHANGED disk
  /\ Release(c)
  /\ IF caller[c].goal = "retry" /\ caller[c].attempt < MaxAttempts
     THEN caller' = [caller EXCEPT ![c] = [Idle EXCEPT !.pc = "begin", !.attempt = caller[c].attempt]]
     ELSE Fail(c)
  /\ UNCHANGED leaked

-----------------------------------------------------------------------------
(* What happens around the callers.                                         *)

\* The worker is terminated: swap files, handles and reservations die with it.
Terminate(w) ==
  /\ caller' = [c \in Callers |-> IF Home[c] = w THEN Idle ELSE caller[c]]
  /\ reserved' = reserved \ {w}
  /\ leaked' = leaked \ {w}
  /\ UNCHANGED disk

\* deleteAceModelCache, which runs when no runtime lives.
DeleteCache ==
  /\ \A c \in Callers : At(c, "idle")
  /\ RemoveIdentity
  /\ UNCHANGED <<reserved, leaked, caller>>

\* Stored bytes change behind the program's back.
Corrupt ==
  /\ MayCorrupt
  /\ payload # NoFile
  /\ payload' \in Contents
  /\ UNCHANGED <<directory, marker, reserved, leaked, caller>>

Step(c) ==
  \/ Lookup(c) \/ Stat(c) \/ LookupFails(c)
  \/ Authenticate(c) \/ AuthenticateFails(c) \/ Remove(c) \/ Removing(c)
  \/ Begin(c) \/ BeginAborts(c) \/ Unmark(c) \/ Snapshot(c) \/ Open(c) \/ BeginFails(c)
  \/ AttemptFails(c) \/ HashExistingPrefix(c) \/ Respond(c) \/ Write(c) \/ EndOfBody(c)
  \/ Commit(c) \/ Close(c) \/ Seal(c) \/ Mark(c) \/ SealFails(c)
  \/ Reject(c) \/ Rejecting(c) \/ Rollback(c)

Next ==
  \/ \E c \in Callers : Start(c) \/ Step(c)
  \/ \E w \in Workers : Terminate(w)
  \/ DeleteCache
  \/ Corrupt

\* Each await of a live caller settles: OPFS and the network resolve or reject.
Spec == Init /\ [][Next]_vars /\ \A c \in Callers : WF_vars(Step(c))

-----------------------------------------------------------------------------
(* A file that an acquisition hands to the GPU has the manifest's bytes,    *)
(* whatever other tabs write, whatever crashed and whatever rotted before.  *)
AcquiredIsAuthentic == \A c \in Callers : At(c, "acquired") => caller[c].file = Correct

(* The identity is a cache hit.                                             *)
Verified == marker = "valid" /\ FullSize(payload)

(* With all callers in one worker and a disk that keeps its bytes, a cache  *)
(* hit is authentic: "publishes a payload only after its internal digest    *)
(* check", with partial payloads, restarts and crashes in between.          *)
VerifiedIsAuthentic == Verified => payload = Correct

(* Existing verified identities are immutable: only the removal of the      *)
(* whole identity ends one.                                                 *)
VerifiedIsImmutable == [][Verified /\ directory' => Verified' /\ payload' = payload]_vars

\* The caller owns its worker's reservation of the digest.
Reserving(c) ==
  \/ caller[c].pc \in Writing \cup {"unmark", "snapshot", "open", "seal", "mark", "rejecting", "removing"}
  \/ caller[c].pc \in {"lookup", "stat"} /\ caller[c].goal = "begin"

(* A worker never has two owners of the digest, and a reservation is never  *)
(* left behind without one: it would refuse every later download.           *)
ReservationHasOneOwner ==
  /\ \A c \in Callers : Reserving(c) => Home[c] \in reserved
  /\ \A c, d \in Callers : Reserving(c) /\ Reserving(d) /\ Home[c] = Home[d] => c = d
  /\ \A w \in reserved : \E c \in Callers : Home[c] = w /\ Reserving(c)

(* Every acquisition ends, with the file or with an error: attempts and     *)
(* removals do not chase each other for ever.                               *)
AcquisitionSettles == \A c \in Callers : At(c, "lookup") ~> caller[c].pc \in {"idle", "acquired"}
=============================================================================
