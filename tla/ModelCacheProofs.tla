-------------------------- MODULE ModelCacheProofs --------------------------
(***************************************************************************)
(* Proofs about the model cache, for any callers and workers, any payload  *)
(* length and any number of attempts.                                      *)
(***************************************************************************)
EXTENDS ModelCache, TLAPS

Units == {"good", "bad"}

(* Contents are the sequences of units that fit the manifest.               *)
LEMMA ContentsAreSequences ==
  /\ \A s \in Contents : /\ s \in Seq(Units) /\ Len(s) \in Nat /\ Len(s) <= Length
                         /\ s \in [1..Len(s) -> Units]
  /\ \A n \in Nat : \A s : n <= Length /\ s \in [1..n -> Units] => s \in Contents /\ Len(s) = n
<1>1. ASSUME NEW n \in Nat, NEW s \in [1..n -> Units]  PROVE s \in Seq(Units) /\ Len(s) = n
  OBVIOUS
<1>2. ASSUME NEW s \in Contents
      PROVE  /\ s \in Seq(Units) /\ Len(s) \in Nat /\ Len(s) <= Length
             /\ s \in [1..Len(s) -> Units]
  <2>1. PICK n \in 0..Length : s \in [1..n -> Units]
    BY DEF Contents, Units
  <2>2. n \in Nat /\ n <= Length
    BY CacheConstants
  <2>3. QED  BY <1>1, <2>1, <2>2
<1>3. ASSUME NEW n \in Nat, NEW s, n <= Length, s \in [1..n -> Units]
      PROVE  s \in Contents /\ Len(s) = n
  <2>1. n \in 0..Length
    BY <1>3, CacheConstants
  <2>2. s \in Contents
    BY <1>3, <2>1 DEF Contents, Units
  <2>3. QED  BY <1>1, <1>3, <2>2
<1>4. QED  BY <1>2, <1>3

LEMMA EmptyAndCorrect ==
  /\ <<>> \in Contents /\ Len(<<>>) = 0
  /\ Correct \in Contents /\ Len(Correct) = Length
<1>1. <<>> \in [1..0 -> Units] /\ Correct \in [1..Length -> Units]
  BY DEF Correct, Units
<1>2. 0 \in Nat /\ 0 <= Length /\ Length \in Nat /\ Length <= Length
  BY CacheConstants
<1>3. Correct \in Contents /\ Len(Correct) = Length
  BY <1>1, <1>2, ContentsAreSequences
<1>4. <<>> \in Contents /\ Len(<<>>) = 0
  BY <1>1, <1>2, ContentsAreSequences
<1>5. QED  BY <1>3, <1>4

(* A full payload whose every unit is good is the correct one.              *)
LEMMA CorrectByUnits ==
  ASSUME NEW s \in Contents, Len(s) = Length, \A i \in 1..Length : s[i] = "good"
  PROVE  s = Correct
<1>1. s \in [1..Length -> Units]
  BY ContentsAreSequences
<1>2. QED  BY <1>1 DEF Correct

LEMMA AppendUnit ==
  ASSUME NEW s \in Contents, NEW u \in Units, Len(s) < Length
  PROVE  /\ Append(s, u) \in Contents /\ Len(Append(s, u)) = Len(s) + 1
         /\ \A i \in 1..Len(s) : Append(s, u)[i] = s[i]
         /\ Append(s, u)[Len(s) + 1] = u
<1>1. s \in Seq(Units) /\ Len(s) \in Nat
  BY ContentsAreSequences
<1>2. /\ Append(s, u) \in Seq(Units) /\ Len(Append(s, u)) = Len(s) + 1
      /\ \A i \in 1..Len(s) : Append(s, u)[i] = s[i]
      /\ Append(s, u)[Len(s) + 1] = u
  BY <1>1
<1>0. \A t \in Seq(Units) : t \in [1..Len(t) -> Units]
  OBVIOUS
<1>3. Append(s, u) \in [1..Len(Append(s, u)) -> Units]
  BY <1>0, <1>2
<1>4. Len(s) + 1 \in Nat /\ Len(s) + 1 <= Length
  BY <1>1, CacheConstants
<1>5. Append(s, u) \in Contents
  BY <1>2, <1>3, <1>4, ContentsAreSequences
<1>6. QED  BY <1>2, <1>5

LEMMA OverwriteUnit ==
  ASSUME NEW s \in Contents, NEW u \in Units, NEW p \in 1..Length
  PROVE  LET t == Overwrite(s, p, u) IN
         /\ t \in Contents /\ Len(t) = IF p > Len(s) THEN p ELSE Len(s)
         /\ t[p] = u
         /\ \A i \in 1..Len(s) : i # p => t[i] = s[i]
<1> DEFINE n == IF p > Len(s) THEN p ELSE Len(s)
<1>1. Len(s) \in Nat /\ Len(s) <= Length /\ s \in [1..Len(s) -> Units]
  BY ContentsAreSequences
<1>2. n \in Nat /\ n <= Length /\ p \in 1..n /\ 1..Len(s) \subseteq 1..n
  BY <1>1, CacheConstants
<1>3. /\ Overwrite(s, p, u) \in [1..n -> Units]
      /\ Overwrite(s, p, u)[p] = u
      /\ \A i \in 1..Len(s) : i # p => Overwrite(s, p, u)[i] = s[i]
  BY <1>1, <1>2 DEF Overwrite, Units
<1>4. QED  BY <1>2, <1>3, ContentsAreSequences
-----------------------------------------------------------------------------
(* Typing, and what a caller holds at each await.                           *)

RecordOK(r) ==
  /\ r \in Caller
  /\ r.pc \in Writing /\ Siloed => r.swap # NoFile
  /\ r.pc \in {"fetch", "body", "commit", "close"} => r.hashed # NoFile
  /\ r.pc \in {"open", "prefix", "authenticate"} => r.file # NoFile
  /\ r.pc = "begin" => r.goal = "inspect"
  /\ r.goal = "inspect" => r.attempt < MaxAttempts
  /\ r.pc = "acquired" => r.file = Correct

DiskOK ==
  /\ directory \in BOOLEAN
  /\ payload \in Contents \cup {NoFile}
  /\ marker \in {"none", "torn", "valid"}
  /\ ~directory => payload = NoFile /\ marker = "none"

\* A sync access handle keeps its file.
HandleHasFile ==
  ~Siloed /\ (\E c \in Callers : caller[c].pc \in Writing) => payload # NoFile

CacheInv ==
  /\ DiskOK /\ HandleHasFile
  /\ reserved \subseteq Workers /\ leaked \subseteq Workers
  /\ caller \in [Callers -> Caller]
  /\ \A c \in Callers : RecordOK(caller[c])

\* A step of one caller.
Moves(c) == caller' = [caller EXCEPT ![c] = caller'[c]]

LEMMA OneMoves ==
  ASSUME CacheInv, NEW c \in Callers, Moves(c), RecordOK(caller'[c]), DiskOK',
         reserved' \subseteq Workers, leaked' \subseteq Workers,
         ~Siloed /\ caller'[c].pc \in Writing => payload' # NoFile,
         (\E d \in Callers : caller[d].pc \in Writing) /\ payload' = NoFile => payload = NoFile
  PROVE  CacheInv'
<1>1. caller' \in [Callers -> Caller] /\ \A d \in Callers : d # c => caller'[d] = caller[d]
  BY DEF CacheInv, Moves, RecordOK
<1>2. \A d \in Callers : RecordOK(caller'[d])
  BY <1>1 DEF CacheInv
<1>3. HandleHasFile'
  BY <1>1 DEF CacheInv, HandleHasFile
<1>4. QED  BY <1>1, <1>2, <1>3 DEF CacheInv, RecordOK, DiskOK

LEMMA IdleIsOK ==
  /\ RecordOK(Idle)
  /\ RecordOK([Idle EXCEPT !.pc = "lookup"])
  /\ RecordOK([Idle EXCEPT !.pc = "lookup", !.goal = "confirm"])
  /\ \A n \in 0..MaxAttempts : n < MaxAttempts => RecordOK([Idle EXCEPT !.pc = "begin", !.attempt = n])
<1>1. 0 \in 0..MaxAttempts /\ 0 < MaxAttempts
  BY CacheConstants
<1>2. QED  BY <1>1 DEF Idle, Caller, Phases, Writing, RecordOK

LEMMA FailMoves ==
  ASSUME CacheInv, NEW c \in Callers, Fail(c)
  PROVE  Moves(c) /\ caller'[c] = Idle /\ RecordOK(caller'[c]) /\ caller'[c].pc \notin Writing
<1>1. Moves(c) /\ caller'[c] = Idle
  BY DEF Fail, Moves, CacheInv
<1>2. Idle.pc \notin Writing
  BY DEF Idle, Writing
<1>3. QED  BY <1>1, <1>2, IdleIsOK

LEMMA GotoMoves ==
  ASSUME CacheInv, NEW c \in Callers, NEW phase \in Phases, Goto(c, phase)
  PROVE  /\ Moves(c) /\ caller'[c] = [caller[c] EXCEPT !.pc = phase]
         /\ caller'[c] \in Caller /\ caller'[c].pc = phase
<1>1. caller[c] \in Caller
  BY DEF CacheInv
<1>2. Moves(c) /\ caller'[c] = [caller[c] EXCEPT !.pc = phase]
  BY DEF Goto, Moves, CacheInv
<1>3. QED  BY <1>1, <1>2 DEF Caller

\* Goto keeps a record in order where the new phase asks for nothing new.
LEMMA GotoKeepsOrder ==
  ASSUME CacheInv, NEW c \in Callers, NEW phase \in Phases, Goto(c, phase),
         phase \in Writing => caller[c].pc \in Writing,
         phase \in {"fetch", "body", "commit", "close"} => caller[c].hashed # NoFile,
         phase \in {"open", "prefix", "authenticate"} => caller[c].file # NoFile,
         phase = "begin" => caller[c].goal = "inspect",
         phase = "acquired" => caller[c].file = Correct
  PROVE  Moves(c) /\ RecordOK(caller'[c]) /\ caller'[c].pc = phase
<1>1. /\ Moves(c) /\ caller'[c] = [caller[c] EXCEPT !.pc = phase]
      /\ caller'[c] \in Caller /\ caller'[c].pc = phase
  BY GotoMoves
<1>2. RecordOK(caller[c]) /\ caller[c] \in Caller
  BY DEF CacheInv
<1>3. /\ caller'[c].swap = caller[c].swap /\ caller'[c].hashed = caller[c].hashed
      /\ caller'[c].file = caller[c].file /\ caller'[c].goal = caller[c].goal
      /\ caller'[c].attempt = caller[c].attempt
  BY <1>1, <1>2 DEF Caller
<1>4. QED  BY <1>1, <1>2, <1>3 DEF RecordOK

(* Looking up, authenticating and removing.                                 *)
LEMMA LookupKeepsInv ==
  ASSUME CacheInv, NEW c \in Callers,
         \/ Start(c) \/ Lookup(c) \/ Stat(c) \/ LookupFails(c)
         \/ Authenticate(c) \/ AuthenticateFails(c) \/ Remove(c) \/ Removing(c)
  PROVE  CacheInv'
<1> DEFINE Keeps == /\ Moves(c) /\ RecordOK(caller'[c]) /\ caller'[c].pc \notin Writing
                    /\ reserved' \subseteq Workers
<1>1. caller[c] \in Caller /\ RecordOK(caller[c]) /\ Home[c] \in Workers
      /\ reserved \subseteq Workers /\ leaked \subseteq Workers /\ DiskOK
  BY CacheConstants DEF CacheInv
<1>2. Fail(c) /\ reserved' \subseteq Workers => Keeps
  BY FailMoves
<1>3. Throw(c) => Keeps
  BY <1>1, <1>2 DEF Throw, Release
<1>4. Missed(c) => Keeps
  <2>1. CASE caller[c].goal = "inspect" /\ Goto(c, "begin") /\ UNCHANGED reserved
    BY <1>1, <2>1, GotoKeepsOrder DEF Phases, Writing
  <2>2. CASE caller[c].goal = "begin" /\ Goto(c, "unmark") /\ UNCHANGED reserved
    BY <1>1, <2>2, GotoKeepsOrder DEF Phases, Writing
  <2>3. QED  BY <1>1, <1>2, <2>1, <2>2 DEF Missed
<1>5. UNCHANGED <<disk, leaked>> /\ Keeps => CacheInv'
  BY <1>1, OneMoves DEF disk, DiskOK
<1>6. CASE Start(c)
  <2>1. Moves(c) /\ caller'[c] = [Idle EXCEPT !.pc = "lookup"]
    BY <1>6 DEF Start, Moves, CacheInv
  <2>2. RecordOK(caller'[c])
    BY <2>1, IdleIsOK
  <2>3. caller'[c].pc \notin Writing
    BY <2>1 DEF Idle, Writing
  <2>4. QED  BY <1>1, <1>5, <1>6, <2>1, <2>2, <2>3 DEF Start
<1>7. CASE Lookup(c)
  <2>1. Goto(c, "stat") /\ UNCHANGED reserved => Keeps
    BY <1>1, GotoKeepsOrder DEF Phases, Writing
  <2>2. QED  BY <1>4, <1>5, <1>7, <2>1 DEF Lookup
<1>8. CASE Stat(c)
  <2>1. ASSUME caller' = [caller EXCEPT ![c].pc = "authenticate", ![c].file = payload],
               FullSize(payload), UNCHANGED reserved
        PROVE  Keeps
    <3>1. /\ Moves(c)
          /\ caller'[c] = [caller[c] EXCEPT !.pc = "authenticate", !.file = payload]
      BY <2>1 DEF Moves, CacheInv
    <3>2. payload \in Contents \cup {NoFile} /\ payload # NoFile
      BY <1>1, <2>1 DEF DiskOK, FullSize
    <3>3. RecordOK(caller'[c]) /\ caller'[c].pc = "authenticate"
      BY <1>1, <3>1, <3>2 DEF Caller, RecordOK, Phases, Writing
    <3>4. QED  BY <1>1, <2>1, <3>1, <3>3 DEF Writing
  <2>2. QED  BY <1>3, <1>4, <1>5, <1>8, <2>1 DEF Stat
<1>9. CASE LookupFails(c)
  BY <1>1, <1>2, <1>3, <1>5, <1>9 DEF LookupFails
<1>10. CASE Authenticate(c)
  <2>1. CASE caller[c].file = Correct
    BY <1>1, <1>5, <1>10, <2>1, GotoKeepsOrder DEF Authenticate, Phases, Writing
  <2>2. CASE caller[c].file # Correct
    BY <1>1, <1>5, <1>10, <2>2, GotoKeepsOrder DEF Authenticate, Phases, Writing
  <2>3. QED  BY <2>1, <2>2
<1>11. CASE AuthenticateFails(c)
  <2>1. Goto(c, "remove") /\ UNCHANGED reserved => Keeps
    BY <1>1, GotoKeepsOrder DEF Phases, Writing
  <2>2. QED  BY <1>1, <1>2, <1>5, <1>11, <2>1 DEF AuthenticateFails
<1>12. CASE Remove(c)
  <2>1. Goto(c, "removing") /\ reserved' \subseteq Workers => Keeps
    BY <1>1, GotoKeepsOrder DEF Phases, Writing
  <2>2. QED  BY <1>1, <1>2, <1>5, <1>12, <2>1 DEF Remove
<1>13. CASE Removing(c)
  <2>1. reserved' \subseteq Workers
    BY <1>1, <1>13 DEF Removing, Release
  <2>2. caller[c].goal = "inspect" /\ Goto(c, "begin") => Keeps
    BY <1>1, <2>1, GotoKeepsOrder DEF Phases, Writing
  <2>3. Keeps
    BY <1>2, <1>13, <2>1, <2>2 DEF Removing
  <2>4. CASE RemoveIdentity
    <3>1. ~\E d \in Callers : caller[d].pc \in Writing
      BY <2>4 DEF RemoveIdentity, Locked
    <3>2. DiskOK'
      BY <2>4 DEF RemoveIdentity, DiskOK
    <3>3. QED  BY <1>1, <1>13, <2>3, <3>1, <3>2, OneMoves DEF Removing
  <2>5. CASE UNCHANGED disk
    BY <1>5, <1>13, <2>3, <2>5 DEF Removing
  <2>6. QED  BY <1>13, <2>4, <2>5 DEF Removing
<1>14. QED  BY <1>6, <1>7, <1>8, <1>9, <1>10, <1>11, <1>12, <1>13

(* begin().                                                                 *)
LEMMA BeginKeepsInv ==
  ASSUME CacheInv, NEW c \in Callers,
         Begin(c) \/ BeginAborts(c) \/ Unmark(c) \/ Snapshot(c) \/ Open(c) \/ BeginFails(c)
  PROVE  CacheInv'
<1>1. caller[c] \in Caller /\ RecordOK(caller[c]) /\ Home[c] \in Workers
      /\ reserved \subseteq Workers /\ leaked \subseteq Workers /\ DiskOK
  BY CacheConstants DEF CacheInv
<1>2. ASSUME Begin(c)  PROVE CacheInv'
  <2>1. reserved' \subseteq Workers
    BY <1>1, <1>2 DEF Begin
  <2>2. ASSUME caller' = [caller EXCEPT ![c].pc = "lookup", ![c].goal = "begin",
                                        ![c].attempt = @ + 1, ![c].file = NoFile]
        PROVE  Moves(c) /\ RecordOK(caller'[c]) /\ caller'[c].pc \notin Writing
    <3>1. /\ Moves(c)
          /\ caller'[c] = [caller[c] EXCEPT !.pc = "lookup", !.goal = "begin",
                                            !.attempt = caller[c].attempt + 1, !.file = NoFile]
      BY <2>2 DEF Moves, CacheInv
    <3>2. caller[c].attempt \in 0..MaxAttempts /\ caller[c].attempt < MaxAttempts
      BY <1>1, <1>2 DEF Begin, At, RecordOK, Caller
    <3>3. caller[c].attempt + 1 \in 0..MaxAttempts
      BY <3>2, CacheConstants
    <3>4. QED  BY <1>1, <3>1, <3>3 DEF Caller, RecordOK, Phases, Writing
  <2>3. Moves(c) /\ RecordOK(caller'[c]) /\ caller'[c].pc \notin Writing
    BY <1>2, <2>2, FailMoves DEF Begin
  <2>4. QED  BY <1>1, <1>2, <2>1, <2>3, OneMoves DEF Begin, disk, DiskOK
<1>3. ASSUME BeginAborts(c)  PROVE CacheInv'
  BY <1>1, <1>3, FailMoves, OneMoves DEF BeginAborts, disk, DiskOK
<1>4. ASSUME Unmark(c)  PROVE CacheInv'
  <2>1. Moves(c) /\ RecordOK(caller'[c]) /\ caller'[c].pc = "snapshot"
    BY <1>4, GotoKeepsOrder DEF Unmark, Phases, Writing
  <2>2. DiskOK'
    BY <1>1, <1>4 DEF Unmark, DiskOK
  <2>3. QED  BY <1>1, <1>4, <2>1, <2>2, OneMoves DEF Unmark, Writing
<1>5. ASSUME Snapshot(c)  PROVE CacheInv'
  <2>1. payload' \in Contents /\ payload' # NoFile
    BY <1>1, <1>5, EmptyAndCorrect, CacheConstants DEF Snapshot, DiskOK
  <2>2. Moves(c) /\ caller'[c] = [caller[c] EXCEPT !.pc = "open", !.file = payload']
    BY <1>5 DEF Snapshot, Moves, CacheInv
  <2>3. RecordOK(caller'[c]) /\ caller'[c].pc = "open"
    BY <1>1, <2>1, <2>2 DEF Caller, RecordOK, Phases, Writing
  <2>4. DiskOK'
    BY <1>1, <1>5, <2>1 DEF Snapshot, DiskOK
  <2>5. QED  BY <1>1, <1>5, <2>1, <2>2, <2>3, <2>4, OneMoves DEF Snapshot, Writing
<1>6. ASSUME Open(c)  PROVE CacheInv'
  <2> DEFINE size == Len(caller[c].file)
             phase == IF size > 0 THEN "prefix" ELSE IF Length = 0 THEN "commit" ELSE "fetch"
             buffer == IF Siloed THEN payload ELSE NoFile
             seen == IF size > 0 THEN NoFile ELSE <<>>
  <2>1. /\ Moves(c)
        /\ caller'[c] = [caller[c] EXCEPT !.pc = phase, !.swap = buffer, !.hashed = seen]
    BY <1>6 DEF Open, Moves, CacheInv
  <2>2. /\ phase \in {"prefix", "commit", "fetch"}
        /\ buffer \in Contents \cup {NoFile} /\ (Siloed => buffer # NoFile)
        /\ seen \in Contents \cup {NoFile} /\ (phase # "prefix" => seen # NoFile)
    BY <1>1, <1>6, EmptyAndCorrect, CacheConstants DEF Open, DiskOK
  <2>3. caller[c].file # NoFile
    BY <1>1, <1>6 DEF Open, At, RecordOK
  <2>4. RecordOK(caller'[c])
    <3> HIDE DEF phase, buffer, seen
    <3> QED  BY <1>1, <1>6, <2>1, <2>2, <2>3 DEF Caller, RecordOK, Phases, Writing
  <2>5. QED  BY <1>1, <1>6, <2>1, <2>4, OneMoves DEF Open, disk, DiskOK
<1>7. ASSUME BeginFails(c)  PROVE CacheInv'
  BY <1>1, <1>7, FailMoves, OneMoves DEF BeginFails, Throw, Release, disk, DiskOK
<1>8. QED  BY <1>2, <1>3, <1>4, <1>5, <1>6, <1>7

\* Storing in the writable.
LEMMA StoreKeepsInv ==
  ASSUME CacheInv, NEW c \in Callers, caller[c].pc \in Writing, NEW contents \in Contents,
         NEW seen \in Contents, NEW phase \in Writing \ {"prefix"}, Store(c, contents, seen, phase)
  PROVE  CacheInv'
<1> DEFINE buffer == IF Siloed THEN contents ELSE NoFile
<1>1. caller[c] \in Caller /\ RecordOK(caller[c])
      /\ reserved \subseteq Workers /\ leaked \subseteq Workers /\ DiskOK /\ HandleHasFile
  BY DEF CacheInv
<1>2. contents # NoFile /\ seen # NoFile
  BY CacheConstants
<1>3. Moves(c) /\ caller'[c] = [caller[c] EXCEPT !.pc = phase, !.hashed = seen, !.swap = buffer]
  BY DEF Store, Moves, CacheInv
<1>4. RecordOK(caller'[c])
  BY <1>1, <1>2, <1>3 DEF Caller, RecordOK, Phases, Writing
<1>5. ~Siloed => payload # NoFile
  BY <1>1 DEF HandleHasFile
<1>6. DiskOK'
  BY <1>1, <1>5 DEF Store, DiskOK
<1>7. QED  BY <1>1, <1>2, <1>3, <1>4, <1>5, <1>6, OneMoves DEF Store

\* What the writable holds.
LEMMA StoredIsContents ==
  ASSUME CacheInv, NEW c \in Callers, caller[c].pc \in Writing
  PROVE  Stored(c) \in Contents
BY DEF CacheInv, RecordOK, HandleHasFile, DiskOK, Stored, Caller

(* The attempt of the download.                                             *)
LEMMA AttemptKeepsInv ==
  ASSUME CacheInv, NEW c \in Callers,
         AttemptFails(c) \/ HashExistingPrefix(c) \/ Respond(c) \/ Write(c) \/ EndOfBody(c)
  PROVE  CacheInv'
<1>1. caller[c] \in Caller /\ RecordOK(caller[c])
      /\ reserved \subseteq Workers /\ leaked \subseteq Workers /\ DiskOK /\ HandleHasFile
  BY DEF CacheInv
<1>2. ASSUME UNCHANGED <<disk, reserved, leaked>>, Moves(c), RecordOK(caller'[c]), caller[c].pc \in Writing
      PROVE  CacheInv'
  BY <1>1, <1>2, OneMoves DEF disk, DiskOK, HandleHasFile
<1>3. ASSUME AttemptFails(c)  PROVE CacheInv'
  <2>1. ASSUME NEW goal \in {"fail", "retry"}, Abandon(c, goal)
        PROVE  Moves(c) /\ RecordOK(caller'[c])
    <3>1. Moves(c) /\ caller'[c] = [caller[c] EXCEPT !.pc = "rollback", !.goal = goal]
      BY <2>1 DEF Abandon, GotoFor, Moves, CacheInv
    <3>2. QED  BY <1>1, <1>3, <3>1 DEF AttemptFails, Caller, RecordOK, Phases, Writing
  <2>2. QED  BY <1>2, <1>3, <2>1 DEF AttemptFails, Writing
<1>4. ASSUME HashExistingPrefix(c)  PROVE CacheInv'
  <2> DEFINE phase == IF Len(caller[c].file) = Length THEN "commit" ELSE "fetch"
  <2>1. Moves(c) /\ caller'[c] = [caller[c] EXCEPT !.hashed = caller[c].file, !.pc = phase]
    BY <1>4 DEF HashExistingPrefix, Moves, CacheInv
  <2>2. phase \in {"commit", "fetch"}
    OBVIOUS
  <2>3. RecordOK(caller'[c])
    <3> HIDE DEF phase
    <3>1. caller[c].pc = "prefix"
      BY <1>4 DEF HashExistingPrefix, At
    <3>2. caller[c].file \in Contents /\ caller[c].file # NoFile
      BY <1>1, <3>1 DEF RecordOK, Caller
    <3>3. /\ caller'[c] \in Caller /\ caller'[c].pc = phase /\ caller'[c].hashed = caller[c].file
          /\ caller'[c].swap = caller[c].swap /\ caller'[c].goal = caller[c].goal
          /\ caller'[c].attempt = caller[c].attempt
      BY <1>1, <2>1, <2>2, <3>2 DEF Caller, Phases, Writing
    <3>4. QED  BY <1>1, <2>2, <3>1, <3>2, <3>3 DEF RecordOK, Writing
  <2>4. QED  BY <1>2, <1>4, <2>1, <2>3 DEF HashExistingPrefix, At, Writing
<1>5. ASSUME Respond(c)  PROVE CacheInv'
  <2>1. caller[c].pc \in Writing /\ caller[c].hashed \in Contents
    BY <1>1, <1>5 DEF Respond, At, Writing, RecordOK, Caller
  <2>2. Stored(c) \in Contents /\ <<>> \in Contents /\ "body" \in Writing \ {"prefix"}
    BY <2>1, StoredIsContents, EmptyAndCorrect DEF Writing
  <2>3. QED  BY <1>5, <2>1, <2>2, StoreKeepsInv DEF Respond
<1>6. ASSUME Write(c)  PROVE CacheInv'
  <2>1. caller[c].pc \in Writing /\ caller[c].hashed \in Contents
    BY <1>1, <1>6 DEF Write, At, Writing, RecordOK, Caller
  <2>2. PICK unit \in Units : Store(c, Overwrite(Stored(c), Len(caller[c].hashed) + 1, unit),
                                     Append(caller[c].hashed, unit), "body")
    BY <1>6 DEF Write, Units
  <2>3. Append(caller[c].hashed, unit) \in Contents
    BY <1>6, <2>1, AppendUnit DEF Write
  <2>4. Len(caller[c].hashed) + 1 \in 1..Length
    BY <1>6, <2>1, ContentsAreSequences, CacheConstants DEF Write
  <2>5. Stored(c) \in Contents
    BY <2>1, StoredIsContents
  <2>6. Overwrite(Stored(c), Len(caller[c].hashed) + 1, unit) \in Contents
    BY <2>4, <2>5, OverwriteUnit
  <2>7. "body" \in Writing \ {"prefix"}
    BY DEF Writing
  <2>8. QED  BY <2>1, <2>2, <2>3, <2>6, <2>7, StoreKeepsInv
<1>7. ASSUME EndOfBody(c)  PROVE CacheInv'
  <2>1. Moves(c) /\ RecordOK(caller'[c])
    BY <1>1, <1>7, GotoKeepsOrder DEF EndOfBody, At, RecordOK, Phases, Writing
  <2>2. QED  BY <1>2, <1>7, <2>1 DEF EndOfBody, At, Writing
<1>8. QED  BY <1>3, <1>4, <1>5, <1>6, <1>7

(* commit() and rollback().                                                 *)
LEMMA CommitKeepsInv ==
  ASSUME CacheInv, NEW c \in Callers,
         \/ Commit(c) \/ Close(c) \/ Seal(c) \/ Mark(c) \/ SealFails(c)
         \/ Reject(c) \/ Rejecting(c) \/ Rollback(c)
  PROVE  CacheInv'
<1>1. caller[c] \in Caller /\ RecordOK(caller[c]) /\ Home[c] \in Workers
      /\ reserved \subseteq Workers /\ leaked \subseteq Workers /\ DiskOK /\ HandleHasFile
  BY CacheConstants DEF CacheInv
<1>2. ASSUME caller[c].pc \in Writing, CloseWritable(c)
      PROVE  DiskOK' /\ payload' # NoFile
  BY <1>1, <1>2, StoredIsContents, CacheConstants DEF CloseWritable, DiskOK
<1>3. CloseThrows(c) => leaked' \subseteq Workers /\ UNCHANGED disk
  BY <1>1 DEF CloseThrows
<1>4. ASSUME UNCHANGED disk, Moves(c), RecordOK(caller'[c]), reserved' \subseteq Workers,
             leaked' \subseteq Workers, caller'[c].pc \in Writing => caller[c].pc \in Writing
      PROVE  CacheInv'
  BY <1>1, <1>4, OneMoves DEF disk, DiskOK, HandleHasFile
<1>5. Throw(c) => Moves(c) /\ RecordOK(caller'[c]) /\ caller'[c].pc \notin Writing /\ reserved' \subseteq Workers
  BY <1>1, FailMoves DEF Throw, Release
<1>6. ASSUME Commit(c)  PROVE CacheInv'
  <2>1. CASE caller[c].hashed = Correct
    BY <1>1, <1>4, <1>6, <2>1, GotoKeepsOrder DEF Commit, At, RecordOK, Phases, Writing
  <2>2. CASE caller[c].hashed # Correct
    BY <1>1, <1>4, <1>6, <2>2, GotoKeepsOrder DEF Commit, At, RecordOK, Phases, Writing
  <2>3. QED  BY <2>1, <2>2
<1>7. ASSUME Close(c)  PROVE CacheInv'
  <2>0. caller[c].pc \in Writing
    BY <1>7 DEF Close, At, Writing
  <2>1. CASE CloseWritable(c) /\ Goto(c, "seal") /\ UNCHANGED <<reserved, leaked>>
    <3>1. Moves(c) /\ RecordOK(caller'[c]) /\ caller'[c].pc \notin Writing
      BY <2>1, GotoKeepsOrder DEF Phases, Writing
    <3>2. QED  BY <1>1, <1>2, <2>0, <2>1, <3>1, OneMoves
  <2>2. CASE CloseThrows(c) /\ Throw(c)
    BY <1>3, <1>4, <1>5, <2>2
  <2>3. QED  BY <1>7, <2>1, <2>2 DEF Close
<1>8. ASSUME Seal(c)  PROVE CacheInv'
  <2>1. Moves(c) /\ RecordOK(caller'[c]) /\ caller'[c].pc \notin Writing
    BY <1>8, GotoKeepsOrder DEF Seal, Phases, Writing
  <2>2. DiskOK'
    BY <1>1, <1>8 DEF Seal, DiskOK, FullSize
  <2>3. QED  BY <1>1, <1>8, <2>1, <2>2, OneMoves DEF Seal
<1>9. ASSUME Mark(c)  PROVE CacheInv'
  <2>1. Moves(c) /\ caller'[c] = [Idle EXCEPT !.pc = "lookup", !.goal = "confirm"]
    BY <1>9 DEF Mark, Moves, CacheInv
  <2>2. RecordOK(caller'[c])
    BY <2>1, IdleIsOK
  <2>3. caller'[c].pc \notin Writing
    BY <2>1 DEF Idle, Writing
  <2>4. DiskOK' /\ reserved' \subseteq Workers
    BY <1>1, <1>9 DEF Mark, DiskOK, Release
  <2>5. QED  BY <1>1, <1>9, <2>1, <2>2, <2>3, <2>4, OneMoves DEF Mark
<1>10. ASSUME SealFails(c)  PROVE CacheInv'
  BY <1>1, <1>4, <1>5, <1>10 DEF SealFails
<1>11. ASSUME Reject(c)  PROVE CacheInv'
  <2>1. caller[c].pc \in Writing
    BY <1>11 DEF Reject, At, Writing
  <2>2. Moves(c) /\ RecordOK(caller'[c]) /\ caller'[c].pc \notin Writing
    BY <1>11, GotoKeepsOrder DEF Reject, Phases, Writing
  <2>3. CASE CloseWritable(c) /\ UNCHANGED leaked
    BY <1>1, <1>2, <1>11, <2>1, <2>2, <2>3, OneMoves DEF Reject
  <2>4. CASE CloseThrows(c)
    BY <1>1, <1>3, <1>4, <1>11, <2>2, <2>4 DEF Reject
  <2>5. QED  BY <1>11, <2>3, <2>4 DEF Reject
<1>12. ASSUME Rejecting(c)  PROVE CacheInv'
  <2>1. CASE RemoveIdentity
    <3>1. ~\E d \in Callers : caller[d].pc \in Writing
      BY <2>1 DEF RemoveIdentity, Locked
    <3>2. DiskOK'
      BY <2>1 DEF RemoveIdentity, DiskOK
    <3>3. QED  BY <1>1, <1>5, <1>12, <3>1, <3>2, OneMoves DEF Rejecting
  <2>2. CASE UNCHANGED disk
    BY <1>1, <1>4, <1>5, <1>12, <2>2 DEF Rejecting
  <2>3. QED  BY <1>12, <2>1, <2>2 DEF Rejecting
<1>13. ASSUME Rollback(c)  PROVE CacheInv'
  <2>1. caller[c].pc \in Writing
    BY <1>13 DEF Rollback, At, Writing
  <2>2. reserved' \subseteq Workers /\ leaked' \subseteq Workers
    BY <1>1, <1>13 DEF Rollback, Release
  <2>3. ASSUME caller' = [caller EXCEPT ![c] = [Idle EXCEPT !.pc = "begin", !.attempt = caller[c].attempt]],
               caller[c].attempt < MaxAttempts
        PROVE  Moves(c) /\ RecordOK(caller'[c]) /\ caller'[c].pc \notin Writing
    <3>1. Moves(c) /\ caller'[c] = [Idle EXCEPT !.pc = "begin", !.attempt = caller[c].attempt]
      BY <2>3 DEF Moves, CacheInv
    <3>2. caller[c].attempt \in 0..MaxAttempts
      BY <1>1 DEF Caller
    <3>3. RecordOK(caller'[c])
      BY <2>3, <3>1, <3>2, IdleIsOK
    <3>4. caller'[c].pc \notin Writing
      BY <3>1 DEF Idle, Writing
    <3>5. QED  BY <3>1, <3>3, <3>4
  <2>4. Moves(c) /\ RecordOK(caller'[c]) /\ caller'[c].pc \notin Writing
    BY <1>13, <2>3, FailMoves DEF Rollback
  <2>5. CASE CloseWritable(c)
    BY <1>2, <2>1, <2>2, <2>4, <2>5, OneMoves
  <2>6. CASE UNCHANGED disk
    BY <1>4, <2>2, <2>4, <2>6
  <2>7. QED  BY <1>13, <2>5, <2>6 DEF Rollback
<1>14. QED  BY <1>6, <1>7, <1>8, <1>9, <1>10, <1>11, <1>12, <1>13

LEMMA SurroundingsKeepInv ==
  ASSUME CacheInv, (\E w \in Workers : Terminate(w)) \/ DeleteCache \/ Corrupt
  PROVE  CacheInv'
<1>1. ASSUME NEW w \in Workers, Terminate(w)  PROVE CacheInv'
  <2>1. /\ caller' \in [Callers -> Caller]
        /\ \A c \in Callers : caller'[c] = caller[c] \/ caller'[c] = Idle
    BY <1>1, IdleIsOK DEF Terminate, CacheInv, RecordOK
  <2>2. Idle.pc \notin Writing
    BY DEF Idle, Writing
  <2>3. \A c \in Callers : RecordOK(caller'[c])
    BY <2>1, IdleIsOK DEF CacheInv
  <2>4. HandleHasFile'
    BY <1>1, <2>1, <2>2 DEF CacheInv, HandleHasFile, Terminate, disk
  <2>5. DiskOK' /\ reserved' \subseteq Workers /\ leaked' \subseteq Workers
    BY <1>1 DEF CacheInv, DiskOK, Terminate, disk
  <2>6. QED  BY <2>1, <2>3, <2>4, <2>5 DEF CacheInv
<1>2. ASSUME DeleteCache  PROVE CacheInv'
  <2>1. \A c \in Callers : caller[c].pc \notin Writing
    BY <1>2 DEF DeleteCache, At, Writing
  <2>2. QED  BY <1>2, <2>1 DEF DeleteCache, RemoveIdentity, CacheInv, DiskOK, HandleHasFile, RecordOK
<1>3. ASSUME Corrupt  PROVE CacheInv'
  BY <1>3, CacheConstants DEF Corrupt, CacheInv, DiskOK, HandleHasFile, RecordOK
<1>4. QED  BY <1>1, <1>2, <1>3

LEMMA InitHasInv == Init => CacheInv
<1> SUFFICES ASSUME Init  PROVE CacheInv
  OBVIOUS
<1>1. Idle \in Caller /\ Idle.pc \notin Writing
  BY IdleIsOK DEF RecordOK, Idle, Writing
<1>2. caller = [c \in Callers |-> Idle]
  BY DEF Init
<1>3. caller \in [Callers -> Caller] /\ \A c \in Callers : RecordOK(caller[c])
  BY <1>1, <1>2, IdleIsOK
<1>4. HandleHasFile
  BY <1>1, <1>2 DEF HandleHasFile
<1>5. QED  BY <1>3, <1>4 DEF Init, CacheInv, DiskOK

LEMMA StepKeepsInv == CacheInv /\ [Next]_vars => CacheInv'
<1> SUFFICES ASSUME CacheInv, [Next]_vars  PROVE CacheInv'
  OBVIOUS
<1>1. CASE UNCHANGED vars
  BY <1>1 DEF vars, CacheInv, DiskOK, HandleHasFile, RecordOK
<1>2. ASSUME NEW c \in Callers, Start(c) \/ Step(c)  PROVE CacheInv'
  BY <1>2, LookupKeepsInv, BeginKeepsInv, AttemptKeepsInv, CommitKeepsInv DEF Step
<1>3. QED  BY <1>1, <1>2, SurroundingsKeepInv DEF Next

(* Every reachable state is well typed.                                     *)
THEOREM CacheTyping == Spec => []TypeOK
<1>1. CacheInv => TypeOK
  BY DEF CacheInv, DiskOK, TypeOK
<1>2. QED  BY <1>1, InitHasInv, StepKeepsInv, PTL DEF Spec

(* However many tabs race for a file, whatever crashes and rots on disk:    *)
(* what an acquisition hands on has the manifest's bytes.                   *)
THEOREM AcquisitionIsAuthentic == Spec => []AcquiredIsAuthentic
<1>1. CacheInv => AcquiredIsAuthentic
  BY DEF CacheInv, RecordOK, AcquiredIsAuthentic, At
<1>2. QED  BY <1>1, InitHasInv, StepKeepsInv, PTL DEF Spec

-----------------------------------------------------------------------------
(* Reservations.                                                            *)

OwnsInv == CacheInv /\ ReservationHasOneOwner

\* What a step of one caller does to the reservation of its worker.
Keeps(c) == (Reserving(c)' <=> Reserving(c)) /\ reserved' = reserved
Takes(c) == /\ ~Reserving(c) /\ Reserving(c)'
            /\ Home[c] \notin reserved /\ reserved' = reserved \cup {Home[c]}
Drops(c) == Reserving(c) /\ ~Reserving(c)' /\ reserved' = reserved \ {Home[c]}

LEMMA OneOwnerStays ==
  ASSUME OwnsInv, NEW c \in Callers, Moves(c), Keeps(c) \/ Takes(c) \/ Drops(c)
  PROVE  ReservationHasOneOwner'
<1>1. \A d \in Callers : d # c => (Reserving(d)' <=> Reserving(d))
  BY DEF OwnsInv, CacheInv, Moves, Reserving
<1>2. CASE Keeps(c)
  BY <1>1, <1>2 DEF OwnsInv, ReservationHasOneOwner, Keeps
<1>3. CASE Takes(c)
  BY <1>1, <1>3 DEF OwnsInv, ReservationHasOneOwner, Takes
<1>4. CASE Drops(c)
  BY <1>1, <1>4 DEF OwnsInv, ReservationHasOneOwner, Drops
<1>5. QED  BY <1>2, <1>3, <1>4

LEMMA CallerMovesReservation ==
  ASSUME CacheInv, NEW c \in Callers, Start(c) \/ Step(c)
  PROVE  Moves(c) /\ (Keeps(c) \/ Takes(c) \/ Drops(c))
<1>1. caller[c] \in Caller /\ RecordOK(caller[c])
  BY DEF CacheInv
<1>2. Fail(c) => Moves(c) /\ ~Reserving(c)'
  BY FailMoves DEF Idle, Reserving, Writing
<1>3. \A phase \in Phases : Goto(c, phase) =>
        Moves(c) /\ caller'[c].pc = phase /\ caller'[c].goal = caller[c].goal
  BY <1>1, GotoMoves DEF Caller
<1>4. Throw(c) /\ Reserving(c) => Moves(c) /\ Drops(c)
  BY <1>2 DEF Throw, Release, Drops
<1>5. ASSUME Missed(c), caller[c].pc \in {"lookup", "stat"}  PROVE Moves(c) /\ Keeps(c)
  BY <1>2, <1>3, <1>5 DEF Missed, Keeps, Reserving, Writing, Phases
<1>6. ASSUME Start(c) \/ Lookup(c) \/ Stat(c) \/ LookupFails(c)
      PROVE  Moves(c) /\ (Keeps(c) \/ Drops(c))
  <2>1. CASE Start(c)
    <3>1. Moves(c) /\ caller'[c] = [Idle EXCEPT !.pc = "lookup"]
      BY <2>1 DEF Start, Moves, CacheInv
    <3>2. QED  BY <2>1, <3>1 DEF Start, Idle, Keeps, Reserving, Writing
  <2>2. CASE Lookup(c)
    BY <1>3, <1>5, <2>2 DEF Lookup, At, Keeps, Reserving, Writing, Phases
  <2>3. CASE Stat(c)
    <3>1. caller' = [caller EXCEPT ![c].pc = "authenticate", ![c].file = payload]
            => Moves(c) /\ caller'[c].pc = "authenticate"
      BY <1>1 DEF Moves, CacheInv, Caller
    <3>2. QED  BY <1>4, <1>5, <2>3, <3>1 DEF Stat, At, Keeps, Reserving, Writing
  <2>4. CASE LookupFails(c)
    BY <1>2, <1>4, <2>4 DEF LookupFails, Keeps, Reserving, Writing
  <2>5. QED  BY <1>6, <2>1, <2>2, <2>3, <2>4
<1>7. ASSUME Authenticate(c) \/ AuthenticateFails(c) \/ Remove(c) \/ Removing(c)
      PROVE  Moves(c) /\ (Keeps(c) \/ Takes(c) \/ Drops(c))
  <2>1. CASE Authenticate(c) \/ AuthenticateFails(c)
    BY <1>2, <1>3, <2>1 DEF Authenticate, AuthenticateFails, At, Keeps, Reserving, Writing, Phases
  <2>2. CASE Remove(c)
    BY <1>2, <1>3, <2>2 DEF Remove, At, Keeps, Takes, Reserving, Writing, Phases
  <2>3. CASE Removing(c)
    BY <1>2, <1>3, <2>3 DEF Removing, At, Drops, Release, Reserving, Writing, Phases
  <2>4. QED  BY <1>7, <2>1, <2>2, <2>3
<1>8. ASSUME Begin(c) \/ BeginAborts(c) \/ Unmark(c) \/ Snapshot(c) \/ Open(c) \/ BeginFails(c)
      PROVE  Moves(c) /\ (Keeps(c) \/ Takes(c) \/ Drops(c))
  <2>1. CASE Begin(c)
    <3>1. caller' = [caller EXCEPT ![c].pc = "lookup", ![c].goal = "begin",
                                  ![c].attempt = @ + 1, ![c].file = NoFile]
            => Moves(c) /\ caller'[c].pc = "lookup" /\ caller'[c].goal = "begin"
      BY <1>1 DEF Moves, CacheInv, Caller
    <3>2. QED  BY <1>2, <2>1, <3>1 DEF Begin, At, Keeps, Takes, Reserving, Writing
  <2>2. CASE BeginAborts(c)
    BY <1>2, <2>2 DEF BeginAborts, At, Keeps, Reserving, Writing
  <2>3. CASE Unmark(c)
    BY <1>3, <2>3 DEF Unmark, At, Keeps, Reserving, Writing, Phases
  <2>4. CASE Snapshot(c)
    <3>1. Moves(c) /\ caller'[c].pc = "open"
      BY <1>1, <2>4 DEF Snapshot, Moves, CacheInv, Caller
    <3>2. QED  BY <2>4, <3>1 DEF Snapshot, At, Keeps, Reserving, Writing
  <2>5. CASE Open(c)
    <3>1. Moves(c) /\ caller'[c].pc \in {"prefix", "commit", "fetch"}
      BY <1>1, <2>5 DEF Open, Moves, CacheInv, Caller
    <3>2. QED  BY <2>5, <3>1 DEF Open, At, Keeps, Reserving, Writing
  <2>6. CASE BeginFails(c)
    BY <1>4, <2>6 DEF BeginFails, Reserving
  <2>7. QED  BY <1>8, <2>1, <2>2, <2>3, <2>4, <2>5, <2>6
<1>9. ASSUME NEW contents, NEW seen, Store(c, contents, seen, "body"), caller[c].pc \in Writing
      PROVE  Moves(c) /\ Keeps(c)
  <2>1. Moves(c) /\ caller'[c].pc = "body"
    BY <1>1, <1>9 DEF Store, Moves, CacheInv, Caller
  <2>2. QED  BY <1>9, <2>1 DEF Store, Keeps, Reserving, Writing
<1>10. ASSUME AttemptFails(c) \/ HashExistingPrefix(c) \/ Respond(c) \/ Write(c) \/ EndOfBody(c)
       PROVE  Moves(c) /\ Keeps(c)
  <2>1. CASE AttemptFails(c)
    <3>1. ASSUME NEW goal, Abandon(c, goal)  PROVE Moves(c) /\ caller'[c].pc = "rollback"
      BY <1>1, <3>1 DEF Abandon, GotoFor, Moves, CacheInv, Caller
    <3>2. QED  BY <2>1, <3>1 DEF AttemptFails, Keeps, Reserving, Writing
  <2>2. CASE HashExistingPrefix(c)
    <3>1. Moves(c) /\ caller'[c].pc \in {"commit", "fetch"}
      BY <1>1, <2>2 DEF HashExistingPrefix, Moves, CacheInv, Caller
    <3>2. QED  BY <2>2, <3>1 DEF HashExistingPrefix, At, Keeps, Reserving, Writing
  <2>3. CASE Respond(c)
    BY <1>9, <2>3 DEF Respond, At, Writing
  <2>4. CASE Write(c)
    BY <1>9, <2>4 DEF Write, At, Writing
  <2>5. CASE EndOfBody(c)
    BY <1>3, <2>5 DEF EndOfBody, At, Keeps, Reserving, Writing, Phases
  <2>6. QED  BY <1>10, <2>1, <2>2, <2>3, <2>4, <2>5
<1>11. ASSUME \/ Commit(c) \/ Close(c) \/ Seal(c) \/ Mark(c) \/ SealFails(c)
              \/ Reject(c) \/ Rejecting(c) \/ Rollback(c)
       PROVE  Moves(c) /\ (Keeps(c) \/ Drops(c))
  <2>1. CASE Commit(c)
    BY <1>3, <2>1 DEF Commit, At, Keeps, Reserving, Writing, Phases
  <2>2. CASE Close(c)
    BY <1>3, <1>4, <2>2 DEF Close, At, Keeps, Reserving, Writing, Phases
  <2>3. CASE Seal(c)
    BY <1>3, <2>3 DEF Seal, At, Keeps, Reserving, Writing, Phases
  <2>4. CASE Mark(c)
    <3>1. Moves(c) /\ caller'[c] = [Idle EXCEPT !.pc = "lookup", !.goal = "confirm"]
      BY <2>4 DEF Mark, Moves, CacheInv
    <3>2. caller'[c].pc = "lookup" /\ caller'[c].goal = "confirm"
      BY <3>1 DEF Idle
    <3>3. QED  BY <2>4, <3>1, <3>2 DEF Mark, At, Drops, Release, Reserving, Writing
  <2>5. CASE SealFails(c)
    BY <1>4, <2>5 DEF SealFails, Reserving
  <2>6. CASE Reject(c)
    BY <1>3, <2>6 DEF Reject, At, Keeps, Reserving, Writing, Phases
  <2>7. CASE Rejecting(c)
    BY <1>4, <2>7 DEF Rejecting, At, Reserving
  <2>8. CASE Rollback(c)
    <3>1. ASSUME caller' = [caller EXCEPT ![c] = [Idle EXCEPT !.pc = "begin", !.attempt = caller[c].attempt]]
          PROVE  Moves(c) /\ ~Reserving(c)'
      <4>1. Moves(c) /\ caller'[c] = [Idle EXCEPT !.pc = "begin", !.attempt = caller[c].attempt]
        BY <3>1 DEF Moves, CacheInv
      <4>2. caller'[c].pc = "begin"
        BY <4>1 DEF Idle
      <4>3. QED  BY <4>1, <4>2 DEF Reserving, Writing
    <3>2. QED  BY <1>2, <2>8, <3>1 DEF Rollback, At, Drops, Release, Reserving, Writing
  <2>9. QED  BY <1>11, <2>1, <2>2, <2>3, <2>4, <2>5, <2>6, <2>7, <2>8
<1>12. QED  BY <1>6, <1>7, <1>8, <1>10, <1>11 DEF Step

LEMMA StepKeepsOwners == OwnsInv /\ [Next]_vars => OwnsInv'
<1> SUFFICES ASSUME OwnsInv, [Next]_vars  PROVE ReservationHasOneOwner'
  BY StepKeepsInv DEF OwnsInv
<1>1. CacheInv
  BY DEF OwnsInv
<1>2. CASE UNCHANGED <<reserved, caller>>
  BY <1>2 DEF OwnsInv, ReservationHasOneOwner, Reserving
<1>3. ASSUME NEW c \in Callers, Start(c) \/ Step(c)  PROVE ReservationHasOneOwner'
  BY <1>1, <1>3, CallerMovesReservation, OneOwnerStays
<1>4. ASSUME NEW w \in Workers, Terminate(w)  PROVE ReservationHasOneOwner'
  <2>1. \A c \in Callers : caller'[c] = IF Home[c] = w THEN Idle ELSE caller[c]
    BY <1>4 DEF Terminate
  <2>2. \A c \in Callers : Reserving(c)' <=> Home[c] # w /\ Reserving(c)
    BY <2>1 DEF Reserving, Idle, Writing
  <2>3. reserved' = reserved \ {w}
    BY <1>4 DEF Terminate
  <2>4. QED  BY <2>2, <2>3 DEF OwnsInv, ReservationHasOneOwner
<1>5. QED  BY <1>2, <1>3, <1>4 DEF Next, DeleteCache, Corrupt, vars

(* The digest has at most one owner in each worker, and none is left behind *)
(* by an error or a termination.                                            *)
THEOREM ReservationsAreOwned == Spec => []ReservationHasOneOwner
<1>1. Init => OwnsInv
  <2> SUFFICES ASSUME Init  PROVE ReservationHasOneOwner
    BY InitHasInv DEF OwnsInv
  <2>1. \A c \in Callers : ~Reserving(c)
    BY DEF Init, Idle, Reserving, Writing
  <2>2. QED  BY <2>1 DEF Init, ReservationHasOneOwner
<1>2. OwnsInv => ReservationHasOneOwner
  BY DEF OwnsInv
<1>3. QED  BY <1>1, <1>2, StepKeepsOwners, PTL DEF Spec

-----------------------------------------------------------------------------
(* Cache hits, where all callers share a worker and the disk keeps bytes.   *)

OneWorkerKeptBytes == (\A c, d \in Callers : Home[c] = Home[d]) /\ ~MayCorrupt

\* The writable holds what has been hashed.
Agrees(c) ==
  /\ Len(caller[c].hashed) <= Len(Stored(c))
  /\ \A i \in 1..Len(caller[c].hashed) : Stored(c)[i] = caller[c].hashed[i]

\* What the owner of the reservation knows of the disk.
OwnerKnows(c) ==
  LET pc == caller[c].pc IN
  /\ pc \in Writing \cup {"snapshot", "open", "seal", "rejecting"} => marker = "none"
  /\ pc = "unmark" => ~Verified
  /\ pc = "open" => payload = caller[c].file
  /\ pc = "prefix" => Stored(c) = caller[c].file
  /\ pc \in {"fetch", "body", "commit"} => Agrees(c)
  /\ pc = "close" => Stored(c) = Correct
  /\ pc \in {"seal", "mark"} => payload = Correct
  /\ pc = "mark" => marker = "torn"

HitInv == OwnsInv /\ VerifiedIsAuthentic /\ \A c \in Callers : OwnerKnows(c)

LEMMA OwnerKnowsOfReserving ==
  ASSUME NEW c \in Callers, ~Reserving(c)
  PROVE  OwnerKnows(c)
BY DEF Reserving, OwnerKnows, Writing

\* A step of the owner: the others own nothing.
LEMMA OwnerMoves ==
  ASSUME OneWorkerKeptBytes, HitInv, NEW c \in Callers, Moves(c), Reserving(c), OwnerKnows(c)'
  PROVE  \A d \in Callers : OwnerKnows(d)'
<1>1. ASSUME NEW d \in Callers, d # c  PROVE OwnerKnows(d)'
  <2>1. ~Reserving(d)
    BY <1>1 DEF OneWorkerKeptBytes, HitInv, OwnsInv, ReservationHasOneOwner
  <2>2. caller'[d] = caller[d]
    BY <1>1 DEF Moves, HitInv, OwnsInv, CacheInv
  <2>3. ~Reserving(d)'
    BY <2>1, <2>2 DEF Reserving
  <2>4. QED  BY <2>3 DEF Reserving, OwnerKnows, Writing
<1>2. QED  BY <1>1

\* A step that leaves the disk alone.
LEMMA DiskUntouched ==
  ASSUME HitInv, NEW c \in Callers, Moves(c), UNCHANGED disk, OwnerKnows(c)'
  PROVE  /\ VerifiedIsAuthentic' /\ \A d \in Callers : OwnerKnows(d)'
         /\ Verified /\ directory' => Verified' /\ payload' = payload
<1>1. payload' = payload /\ marker' = marker
  BY DEF disk
<1>2. ASSUME NEW d \in Callers, d # c  PROVE OwnerKnows(d)'
  <2>1. caller'[d] = caller[d] /\ OwnerKnows(d)
    BY <1>2 DEF Moves, HitInv, OwnsInv, CacheInv
  <2>2. Stored(d)' = Stored(d) /\ (Verified' <=> Verified)
    BY <1>1, <2>1 DEF Stored, Verified
  <2>3. Agrees(d) => Agrees(d)'
    BY <2>1, <2>2 DEF Agrees
  <2>4. QED  BY <1>1, <2>1, <2>2, <2>3 DEF OwnerKnows
<1>3. Verified' <=> Verified
  BY <1>1 DEF Verified
<1>4. VerifiedIsAuthentic'
  BY <1>1, <1>3 DEF HitInv, VerifiedIsAuthentic
<1>5. QED  BY <1>1, <1>2, <1>3, <1>4

\* What each step does: the invariant, and immutability.
Hit == /\ VerifiedIsAuthentic' /\ \A d \in Callers : OwnerKnows(d)'
       /\ Verified /\ directory' => Verified' /\ payload' = payload

LEMMA GotoUntouched ==
  ASSUME HitInv, NEW c \in Callers, NEW phase \in Phases, Goto(c, phase), UNCHANGED disk,
         phase \in Writing \cup {"snapshot", "open", "seal", "rejecting", "unmark", "mark"} =>
           \/ phase = "unmark" /\ ~Verified
           \/ caller[c].pc = "body" /\ phase = "commit"
           \/ caller[c].pc = "commit" /\ phase = "close" /\ Stored(c) = Correct
           \/ caller[c].pc = "commit" /\ phase = "reject"
           \/ caller[c].pc = "reject" /\ phase = "rejecting"
  PROVE  Hit
<1>1. CacheInv /\ OwnerKnows(c)
  BY DEF HitInv, OwnsInv
<1>2. /\ Moves(c) /\ caller'[c] = [caller[c] EXCEPT !.pc = phase] /\ caller'[c].pc = phase
  BY <1>1, GotoMoves
<1>3. caller'[c].hashed = caller[c].hashed /\ caller'[c].swap = caller[c].swap
  BY <1>1, <1>2 DEF CacheInv, Caller
<1>4. Stored(c)' = Stored(c) /\ (Verified' <=> Verified) /\ marker' = marker
  BY <1>3 DEF Stored, Verified, disk
<1>5. Agrees(c) => Agrees(c)'
  BY <1>3, <1>4 DEF Agrees
<1>6. OwnerKnows(c)'
  BY <1>1, <1>2, <1>4, <1>5 DEF OwnerKnows, Writing
<1>7. QED  BY <1>2, <1>6, DiskUntouched DEF Hit

LEMMA FailUntouched ==
  ASSUME HitInv, NEW c \in Callers, Fail(c), UNCHANGED disk
  PROVE  Hit
<1>1. Moves(c) /\ caller'[c].pc = "idle"
  BY FailMoves DEF HitInv, OwnsInv, Idle
<1>2. OwnerKnows(c)'
  BY <1>1 DEF OwnerKnows, Writing
<1>3. QED  BY <1>1, <1>2, DiskUntouched DEF Hit

LEMMA IdentityRemoved ==
  ASSUME OneWorkerKeptBytes, HitInv, NEW c \in Callers, Moves(c), Reserving(c), RemoveIdentity,
         caller'[c].pc \in {"begin", "idle"}
  PROVE  Hit
<1>1. OwnerKnows(c)'
  BY DEF OwnerKnows, Writing
<1>2. \A d \in Callers : OwnerKnows(d)'
  BY <1>1, OwnerMoves
<1>3. ~Verified' /\ ~directory'
  BY DEF RemoveIdentity, Verified
<1>4. QED  BY <1>2, <1>3 DEF Hit, VerifiedIsAuthentic

LEMMA LookupHit ==
  ASSUME OneWorkerKeptBytes, HitInv, NEW c \in Callers,
         \/ Start(c) \/ Lookup(c) \/ Stat(c) \/ LookupFails(c)
         \/ Authenticate(c) \/ AuthenticateFails(c) \/ Remove(c) \/ Removing(c)
  PROVE  Hit
<1>1. CacheInv /\ caller[c] \in Caller
  BY DEF HitInv, OwnsInv, CacheInv
<1>2. ASSUME Missed(c), UNCHANGED disk, ~Verified  PROVE Hit
  BY <1>2, GotoUntouched, FailUntouched DEF Missed, Phases, Writing
<1>3. CASE Start(c)
  <2>1. Moves(c) /\ caller'[c] = [Idle EXCEPT !.pc = "lookup"]
    BY <1>1, <1>3 DEF Start, Moves, CacheInv
  <2>2. caller'[c].pc = "lookup"
    BY <2>1 DEF Idle
  <2>3. OwnerKnows(c)'
    BY <2>2 DEF OwnerKnows, Writing
  <2>4. QED  BY <1>3, <2>1, <2>3, DiskUntouched DEF Start, Hit
<1>4. CASE Lookup(c)
  <2>1. marker # "valid" => ~Verified
    BY DEF Verified
  <2>2. QED  BY <1>2, <1>4, <2>1, GotoUntouched DEF Lookup, Phases, Writing
<1>5. CASE Stat(c)
  <2>1. ~FullSize(payload) => ~Verified
    BY DEF Verified
  <2>2. ASSUME caller' = [caller EXCEPT ![c].pc = "authenticate", ![c].file = payload]  PROVE Hit
    <3>1. Moves(c) /\ caller'[c].pc = "authenticate"
      BY <1>1, <2>2 DEF Moves, CacheInv, Caller
    <3>2. OwnerKnows(c)'
      BY <3>1 DEF OwnerKnows, Writing
    <3>3. QED  BY <1>5, <3>1, <3>2, DiskUntouched DEF Stat, Hit
  <2>3. QED  BY <1>2, <1>5, <2>1, <2>2, FailUntouched DEF Stat, Throw
<1>6. CASE LookupFails(c)
  BY <1>6, FailUntouched DEF LookupFails, Throw
<1>7. CASE Authenticate(c)
  <2>1. CASE caller[c].file = Correct
    BY <1>7, <2>1, GotoUntouched DEF Authenticate, Phases, Writing
  <2>2. CASE caller[c].file # Correct
    BY <1>7, <2>2, GotoUntouched DEF Authenticate, Phases, Writing
  <2>3. QED  BY <2>1, <2>2
<1>8. CASE AuthenticateFails(c) \/ Remove(c)
  BY <1>8, FailUntouched, GotoUntouched DEF AuthenticateFails, Remove, Phases, Writing
<1>9. CASE Removing(c)
  <2>1. CASE UNCHANGED disk /\ Fail(c)
    BY <2>1, FailUntouched
  <2>2. CASE RemoveIdentity /\ (IF caller[c].goal = "inspect" THEN Goto(c, "begin") ELSE Fail(c))
    <3>0. /\ Goto(c, "begin") => Moves(c) /\ caller'[c].pc = "begin"
          /\ Fail(c) => Moves(c) /\ caller'[c] = Idle
      BY <1>1, GotoMoves, FailMoves DEF Phases
    <3>1. Moves(c) /\ caller'[c].pc \in {"begin", "idle"}
      BY <2>2, <3>0 DEF Idle
    <3>2. Reserving(c)
      BY <1>9 DEF Removing, At, Reserving
    <3>3. QED  BY <2>2, <3>1, <3>2, IdentityRemoved
  <2>3. QED  BY <1>9, <2>1, <2>2 DEF Removing
<1>10. QED  BY <1>3, <1>4, <1>5, <1>6, <1>7, <1>8, <1>9

LEMMA BeginHit ==
  ASSUME OneWorkerKeptBytes, HitInv, NEW c \in Callers,
         Begin(c) \/ BeginAborts(c) \/ Unmark(c) \/ Snapshot(c) \/ Open(c) \/ BeginFails(c)
  PROVE  Hit
<1>1. CacheInv /\ caller[c] \in Caller /\ RecordOK(caller[c]) /\ OwnerKnows(c)
  BY DEF HitInv, OwnsInv, CacheInv
<1>2. CASE Begin(c)
  <2>1. ASSUME caller' = [caller EXCEPT ![c].pc = "lookup", ![c].goal = "begin",
                                        ![c].attempt = @ + 1, ![c].file = NoFile]
        PROVE  Hit
    <3>1. Moves(c) /\ caller'[c].pc = "lookup"
      BY <1>1, <2>1 DEF Moves, CacheInv, Caller
    <3>2. OwnerKnows(c)'
      BY <3>1 DEF OwnerKnows, Writing
    <3>3. QED  BY <1>2, <3>1, <3>2, DiskUntouched DEF Begin, Hit
  <2>2. QED  BY <1>2, <2>1, FailUntouched DEF Begin
<1>3. CASE BeginAborts(c)
  BY <1>3, FailUntouched DEF BeginAborts
<1>4. CASE Unmark(c)
  <2>1. Moves(c) /\ caller'[c].pc = "snapshot"
    BY <1>1, <1>4, GotoMoves DEF Unmark, Phases
  <2>2. Reserving(c) /\ ~Verified
    BY <1>1, <1>4 DEF Unmark, At, Reserving, OwnerKnows
  <2>3. marker' = "none" /\ ~Verified'
    BY <1>4 DEF Unmark, Verified
  <2>4. OwnerKnows(c)'
    BY <2>1, <2>3 DEF OwnerKnows, Writing
  <2>5. QED  BY <2>1, <2>2, <2>3, <2>4, OwnerMoves DEF Hit, VerifiedIsAuthentic
<1>5. CASE Snapshot(c)
  <2>1. Moves(c) /\ caller'[c].pc = "open" /\ caller'[c].file = payload'
    BY <1>1, <1>5 DEF Snapshot, Moves, CacheInv, Caller
  <2>2. Reserving(c) /\ marker = "none" /\ marker' = "none"
    BY <1>1, <1>5 DEF Snapshot, At, Reserving, OwnerKnows
  <2>3. OwnerKnows(c)'
    BY <2>1, <2>2 DEF OwnerKnows, Writing
  <2>4. ~Verified /\ ~Verified'
    BY <2>2 DEF Verified
  <2>5. QED  BY <2>1, <2>2, <2>3, <2>4, OwnerMoves DEF Hit, VerifiedIsAuthentic
<1>6. CASE Open(c)
  <2> DEFINE size == Len(caller[c].file)
             phase == IF size > 0 THEN "prefix" ELSE IF Length = 0 THEN "commit" ELSE "fetch"
             buffer == IF Siloed THEN payload ELSE NoFile
             seen == IF size > 0 THEN NoFile ELSE <<>>
  <2>1. /\ Moves(c)
        /\ caller'[c] = [caller[c] EXCEPT !.pc = phase, !.swap = buffer, !.hashed = seen]
    BY <1>1, <1>6 DEF Open, Moves, CacheInv
  <2>2. /\ caller'[c].pc = phase /\ caller'[c].swap = buffer
        /\ caller'[c].hashed = seen /\ caller'[c].file = caller[c].file
    <3> HIDE DEF phase, buffer, seen
    <3> QED  BY <1>1, <2>1 DEF Caller
  <2>3. UNCHANGED disk /\ payload = caller[c].file /\ marker = "none" /\ payload' = payload
    BY <1>1, <1>6 DEF Open, At, OwnerKnows, disk
  <2>4. Stored(c)' = payload
    BY <2>2, <2>3 DEF Stored
  <2>5. payload \in Contents
    BY <1>1, <1>6 DEF Open, CacheInv, DiskOK
  <2>6. ASSUME size > 0  PROVE OwnerKnows(c)'
    <3>1. caller'[c].pc = "prefix"
      BY <2>2, <2>6
    <3>2. caller'[c].file = caller[c].file /\ marker' = "none"
      BY <2>2, <2>3 DEF disk
    <3>3. Stored(c)' = caller'[c].file
      BY <2>3, <2>4, <3>2
    <3>4. QED
      <4> HIDE DEF phase, buffer, seen, size
      <4> QED  BY <3>1, <3>2, <3>3 DEF OwnerKnows, Writing
  <2>7. ASSUME ~(size > 0)  PROVE OwnerKnows(c)'
    <3>1. caller'[c].pc \in {"commit", "fetch"} /\ caller'[c].hashed = <<>>
      BY <2>2, <2>7
    <3>2. Len(caller'[c].hashed) = 0 /\ 0 <= Len(payload)
      BY <2>5, <3>1, ContentsAreSequences, EmptyAndCorrect
    <3>3. Agrees(c)'
      BY <2>4, <3>2 DEF Agrees
    <3>4. marker' = "none"
      BY <2>3 DEF disk
    <3>5. QED
      <4> HIDE DEF phase, buffer, seen, size
      <4> QED  BY <3>1, <3>3, <3>4 DEF OwnerKnows, Writing
  <2>8. OwnerKnows(c)'
    BY <2>6, <2>7
  <2>9. QED  BY <2>1, <2>3, <2>8, DiskUntouched DEF Hit
<1>7. CASE BeginFails(c)
  BY <1>7, FailUntouched DEF BeginFails, Throw
<1>8. QED  BY <1>2, <1>3, <1>4, <1>5, <1>6, <1>7

\* Storing what agrees with the hash.
LEMMA StoreHit ==
  ASSUME OneWorkerKeptBytes, HitInv, NEW c \in Callers, caller[c].pc \in Writing,
         NEW contents \in Contents, NEW seen \in Contents, Store(c, contents, seen, "body"),
         Len(seen) <= Len(contents), \A i \in 1..Len(seen) : contents[i] = seen[i]
  PROVE  Hit
<1> DEFINE buffer == IF Siloed THEN contents ELSE NoFile
<1>1. CacheInv /\ caller[c] \in Caller /\ OwnerKnows(c)
  BY DEF HitInv, OwnsInv, CacheInv
<1>2. Moves(c) /\ caller'[c] = [caller[c] EXCEPT !.pc = "body", !.hashed = seen, !.swap = buffer]
  BY <1>1 DEF Store, Moves, CacheInv
<1>3. caller'[c].pc = "body" /\ caller'[c].hashed = seen /\ caller'[c].swap = buffer
  <2> HIDE DEF buffer
  <2> QED  BY <1>1, <1>2 DEF Caller
<1>4. Stored(c)' = contents
  BY <1>3 DEF Stored, Store
<1>5. Agrees(c)'
  BY <1>3, <1>4 DEF Agrees
<1>6. marker = "none" /\ marker' = "none"
  BY <1>1 DEF OwnerKnows, Store
<1>7. OwnerKnows(c)'
  BY <1>3, <1>5, <1>6 DEF OwnerKnows, Writing
<1>8. Reserving(c) /\ ~Verified /\ ~Verified'
  BY <1>6 DEF Reserving, Verified
<1>9. QED  BY <1>2, <1>7, <1>8, OwnerMoves DEF Hit, VerifiedIsAuthentic

LEMMA AttemptHit ==
  ASSUME OneWorkerKeptBytes, HitInv, NEW c \in Callers,
         AttemptFails(c) \/ HashExistingPrefix(c) \/ Respond(c) \/ Write(c) \/ EndOfBody(c)
  PROVE  Hit
<1>1. CacheInv /\ caller[c] \in Caller /\ RecordOK(caller[c]) /\ OwnerKnows(c)
  BY DEF HitInv, OwnsInv, CacheInv
<1>2. CASE AttemptFails(c)
  <2>1. ASSUME NEW goal, Abandon(c, goal)  PROVE Hit
    <3>1. Moves(c) /\ caller'[c].pc = "rollback"
      BY <1>1, <2>1 DEF Abandon, GotoFor, Moves, CacheInv, Caller
    <3>2. marker = "none" /\ UNCHANGED disk
      BY <1>1, <1>2 DEF AttemptFails, OwnerKnows, Writing
    <3>3. OwnerKnows(c)'
      BY <3>1, <3>2 DEF OwnerKnows, Writing, disk
    <3>4. QED  BY <3>1, <3>2, <3>3, DiskUntouched DEF Hit
  <2>2. QED  BY <1>2, <2>1 DEF AttemptFails
<1>3. CASE HashExistingPrefix(c)
  <2>1. /\ Moves(c) /\ caller'[c].pc \in {"commit", "fetch"}
        /\ caller'[c].hashed = caller[c].file /\ caller'[c].swap = caller[c].swap
    BY <1>1, <1>3 DEF HashExistingPrefix, Moves, CacheInv, Caller
  <2>2. marker = "none" /\ UNCHANGED disk /\ Stored(c) = caller[c].file /\ caller[c].file \in Contents
    BY <1>1, <1>3 DEF HashExistingPrefix, At, OwnerKnows, Writing, RecordOK, Caller
  <2>3. Stored(c)' = caller[c].file
    BY <2>1, <2>2 DEF Stored, disk
  <2>4. Len(caller[c].file) <= Len(caller[c].file)
    BY <2>2, ContentsAreSequences
  <2>5. Agrees(c)'
    BY <2>1, <2>3, <2>4 DEF Agrees
  <2>6. OwnerKnows(c)'
    BY <2>1, <2>2, <2>5 DEF OwnerKnows, Writing, disk
  <2>7. QED  BY <2>1, <2>2, <2>6, DiskUntouched DEF Hit
<1>4. CASE Respond(c)
  <2>1. caller[c].pc \in Writing /\ caller[c].hashed \in Contents /\ Agrees(c)
    BY <1>1, <1>4 DEF Respond, At, Writing, RecordOK, Caller, OwnerKnows
  <2>2. Stored(c) \in Contents
    BY <1>1, <2>1, StoredIsContents
  <2>3. CASE Store(c, Stored(c), caller[c].hashed, "body")
    BY <2>1, <2>2, <2>3, StoreHit DEF Agrees
  <2>4. CASE Store(c, <<>>, <<>>, "body")
    BY <2>1, <2>4, EmptyAndCorrect, StoreHit
  <2>5. QED  BY <1>4, <2>3, <2>4 DEF Respond
<1>5. CASE Write(c)
  <2> DEFINE hashed == caller[c].hashed
             place == Len(hashed) + 1
  <2>1. caller[c].pc \in Writing /\ hashed \in Contents /\ Agrees(c) /\ Len(hashed) < Length
    BY <1>1, <1>5 DEF Write, At, Writing, RecordOK, Caller, OwnerKnows
  <2>2. Stored(c) \in Contents
    BY <1>1, <2>1, StoredIsContents
  <2>3. PICK unit \in Units : Store(c, Overwrite(Stored(c), place, unit), Append(hashed, unit), "body")
    BY <1>5 DEF Write, Units
  <2>4. Len(hashed) \in Nat /\ Len(Stored(c)) \in Nat /\ place \in 1..Length
    BY <2>1, <2>2, ContentsAreSequences, CacheConstants
  <2> DEFINE contents == Overwrite(Stored(c), place, unit)
             seen == Append(hashed, unit)
  <2>5. /\ contents \in Contents /\ Len(contents) = IF place > Len(Stored(c)) THEN place ELSE Len(Stored(c))
        /\ contents[place] = unit
        /\ \A i \in 1..Len(Stored(c)) : i # place => contents[i] = Stored(c)[i]
    BY <2>2, <2>4, OverwriteUnit
  <2>6. /\ seen \in Contents /\ Len(seen) = place
        /\ \A i \in 1..Len(hashed) : seen[i] = hashed[i]
        /\ seen[place] = unit
    BY <2>1, AppendUnit
  <2> HIDE DEF contents, seen
  <2>7. Len(seen) <= Len(contents)
    BY <2>4, <2>5, <2>6
  <2>8. ASSUME NEW i \in 1..Len(seen)  PROVE contents[i] = seen[i]
    <3>1. CASE i = place
      BY <2>5, <2>6, <3>1
    <3>2. CASE i # place
      <4>1. i \in 1..Len(hashed) /\ i \in 1..Len(Stored(c))
        BY <2>1, <2>4, <2>6, <3>2 DEF Agrees
      <4>2. Stored(c)[i] = hashed[i]
        BY <2>1, <4>1 DEF Agrees
      <4>3. QED  BY <2>5, <2>6, <3>2, <4>1, <4>2
    <3>3. QED  BY <3>1, <3>2
  <2>9. Store(c, contents, seen, "body")
    BY <2>3 DEF contents, seen
  <2>10. QED  BY <2>1, <2>5, <2>6, <2>7, <2>8, <2>9, StoreHit
<1>6. CASE EndOfBody(c)
  BY <1>6, GotoUntouched DEF EndOfBody, At, Phases, Writing
<1>7. QED  BY <1>2, <1>3, <1>4, <1>5, <1>6

\* A digest that matches is the digest of what is stored.
LEMMA HashedIsStored ==
  ASSUME CacheInv, NEW c \in Callers, caller[c].pc \in Writing, Agrees(c), caller[c].hashed = Correct
  PROVE  Stored(c) = Correct
<1>1. Stored(c) \in Contents
  BY StoredIsContents
<1>2. Len(Stored(c)) \in Nat /\ Len(Stored(c)) <= Length /\ Length <= Len(Stored(c)) /\ Length \in Nat
  BY <1>1, ContentsAreSequences, EmptyAndCorrect, CacheConstants DEF Agrees
<1>3. Len(Stored(c)) = Length
  BY <1>2
<1>4. \A i \in 1..Length : Stored(c)[i] = "good"
  BY EmptyAndCorrect DEF Agrees, Correct
<1>5. QED  BY <1>1, <1>3, <1>4, CorrectByUnits

LEMMA CommitHit ==
  ASSUME OneWorkerKeptBytes, HitInv, NEW c \in Callers,
         \/ Commit(c) \/ Close(c) \/ Seal(c) \/ Mark(c) \/ SealFails(c)
         \/ Reject(c) \/ Rejecting(c) \/ Rollback(c)
  PROVE  Hit
<1>1. CacheInv /\ caller[c] \in Caller /\ RecordOK(caller[c]) /\ OwnerKnows(c)
  BY DEF HitInv, OwnsInv, CacheInv
<1>2. ASSUME Moves(c), Reserving(c), marker = "none", UNCHANGED marker, OwnerKnows(c)'  PROVE Hit
  <2>1. ~Verified /\ ~Verified'
    BY <1>2 DEF Verified
  <2>2. QED  BY <1>2, <2>1, OwnerMoves DEF Hit, VerifiedIsAuthentic
<1>3. CASE Commit(c)
  <2>1. caller[c].pc \in Writing /\ Agrees(c)
    BY <1>1, <1>3 DEF Commit, At, OwnerKnows, Writing
  <2>2. CASE caller[c].hashed = Correct
    <3>1. Stored(c) = Correct
      BY <1>1, <2>1, <2>2, HashedIsStored
    <3>2. QED  BY <1>3, <2>2, <3>1, GotoUntouched DEF Commit, At, Phases, Writing
  <2>3. CASE caller[c].hashed # Correct
    BY <1>3, <2>3, GotoUntouched DEF Commit, At, Phases, Writing
  <2>4. QED  BY <2>2, <2>3
<1>4. CASE Close(c)
  <2>1. CASE CloseWritable(c) /\ Goto(c, "seal")
    <3>1. Moves(c) /\ caller'[c].pc = "seal"
      BY <1>1, <2>1, GotoMoves DEF Phases
    <3>2. Reserving(c) /\ marker = "none" /\ Stored(c) = Correct
      BY <1>1, <1>4 DEF Close, At, Reserving, OwnerKnows, Writing
    <3>3. UNCHANGED marker /\ payload' = Correct
      BY <2>1, <3>2 DEF CloseWritable
    <3>4. OwnerKnows(c)'
      BY <3>1, <3>2, <3>3 DEF OwnerKnows, Writing
    <3>5. QED  BY <1>2, <3>1, <3>2, <3>3, <3>4
  <2>2. CASE CloseThrows(c) /\ Throw(c)
    BY <2>2, FailUntouched DEF CloseThrows, Throw
  <2>3. QED  BY <1>4, <2>1, <2>2 DEF Close
<1>5. CASE Seal(c)
  <2>1. Moves(c) /\ caller'[c].pc = "mark"
    BY <1>1, <1>5, GotoMoves DEF Seal, Phases
  <2>2. Reserving(c) /\ marker = "none" /\ payload = Correct /\ payload' = payload
    BY <1>1, <1>5 DEF Seal, At, Reserving, OwnerKnows, Writing
  <2>3. marker' = "torn"
    BY <1>5, <2>2 DEF Seal
  <2>4. OwnerKnows(c)'
    BY <2>1, <2>2, <2>3 DEF OwnerKnows, Writing
  <2>5. ~Verified /\ ~Verified'
    BY <2>2, <2>3 DEF Verified
  <2>6. QED  BY <2>1, <2>2, <2>4, <2>5, OwnerMoves DEF Hit, VerifiedIsAuthentic
<1>6. CASE Mark(c)
  <2>1. Moves(c) /\ caller'[c] = [Idle EXCEPT !.pc = "lookup", !.goal = "confirm"]
    BY <1>1, <1>6 DEF Mark, Moves, CacheInv
  <2>2. caller'[c].pc = "lookup"
    BY <2>1 DEF Idle
  <2>3. Reserving(c) /\ marker = "torn" /\ payload = Correct /\ payload' = payload
    BY <1>1, <1>6 DEF Mark, At, Reserving, OwnerKnows
  <2>4. OwnerKnows(c)'
    BY <2>2 DEF OwnerKnows, Writing
  <2>5. ~Verified /\ payload' = Correct
    BY <2>3 DEF Verified
  <2>6. QED  BY <2>1, <2>3, <2>4, <2>5, OwnerMoves DEF Hit, VerifiedIsAuthentic
<1>7. CASE SealFails(c)
  BY <1>7, FailUntouched DEF SealFails, Throw
<1>8. CASE Reject(c)
  <2>1. Moves(c) /\ caller'[c].pc = "rejecting"
    BY <1>1, <1>8, GotoMoves DEF Reject, Phases
  <2>2. Reserving(c) /\ marker = "none" /\ UNCHANGED marker
    BY <1>1, <1>8 DEF Reject, At, Reserving, OwnerKnows, Writing, CloseWritable, CloseThrows, disk
  <2>3. OwnerKnows(c)'
    BY <2>1, <2>2 DEF OwnerKnows, Writing
  <2>4. QED  BY <1>2, <2>1, <2>2, <2>3
<1>9. CASE Rejecting(c)
  <2>1. CASE RemoveIdentity
    <3>1. Moves(c) /\ caller'[c].pc \in {"begin", "idle"}
      BY <1>1, <1>9, FailMoves DEF Rejecting, Throw, Idle
    <3>2. Reserving(c)
      BY <1>9 DEF Rejecting, At, Reserving
    <3>3. QED  BY <2>1, <3>1, <3>2, IdentityRemoved
  <2>2. CASE UNCHANGED disk
    BY <1>9, <2>2, FailUntouched DEF Rejecting, Throw
  <2>3. QED  BY <1>9, <2>1, <2>2 DEF Rejecting
<1>10. CASE Rollback(c)
  <2>1. ASSUME caller' = [caller EXCEPT ![c] = [Idle EXCEPT !.pc = "begin", !.attempt = caller[c].attempt]]
        PROVE  Moves(c) /\ caller'[c].pc = "begin"
    <3>1. Moves(c) /\ caller'[c] = [Idle EXCEPT !.pc = "begin", !.attempt = caller[c].attempt]
      BY <1>1, <2>1 DEF Moves, CacheInv
    <3>2. QED  BY <3>1 DEF Idle
  <2>2. Fail(c) => Moves(c) /\ caller'[c].pc = "idle"
    BY <1>1, FailMoves DEF Idle
  <2>3. Moves(c) /\ caller'[c].pc \in {"begin", "idle"}
    BY <1>10, <2>1, <2>2 DEF Rollback
  <2>4. Reserving(c) /\ marker = "none" /\ UNCHANGED marker
    BY <1>1, <1>10 DEF Rollback, At, Reserving, OwnerKnows, Writing, CloseWritable, disk
  <2>5. OwnerKnows(c)'
    BY <2>3 DEF OwnerKnows, Writing
  <2>6. QED  BY <1>2, <2>3, <2>4, <2>5
<1>11. QED  BY <1>3, <1>4, <1>5, <1>6, <1>7, <1>8, <1>9, <1>10

LEMMA StepHits ==
  ASSUME OneWorkerKeptBytes, HitInv, [Next]_vars
  PROVE  Hit
<1>1. ASSUME NEW c \in Callers, Start(c) \/ Step(c)  PROVE Hit
  BY <1>1, LookupHit, BeginHit, AttemptHit, CommitHit DEF Step
<1>2. ASSUME UNCHANGED vars  PROVE Hit
  <2>1. \A c \in Callers : OwnerKnows(c)'
    BY <1>2 DEF vars, HitInv, OwnerKnows, Agrees, Stored, Verified
  <2>2. QED  BY <1>2, <2>1 DEF vars, Hit, HitInv, VerifiedIsAuthentic, Verified
<1>3. ASSUME NEW w \in Workers, Terminate(w)  PROVE Hit
  <2>1. UNCHANGED disk /\ payload' = payload /\ marker' = marker
    BY <1>3 DEF Terminate, disk
  <2>2. ASSUME NEW c \in Callers  PROVE OwnerKnows(c)'
    <3>1. caller'[c] = IF Home[c] = w THEN Idle ELSE caller[c]
      BY <1>3 DEF Terminate
    <3>2. CASE Home[c] = w
      BY <3>1, <3>2 DEF OwnerKnows, Idle, Writing
    <3>3. CASE Home[c] # w
      <4>1. caller'[c] = caller[c] /\ OwnerKnows(c)
        BY <3>1, <3>3 DEF HitInv
      <4>2. Stored(c)' = Stored(c) /\ (Verified' <=> Verified)
        BY <2>1, <4>1 DEF Stored, Verified
      <4>3. Agrees(c) => Agrees(c)'
        BY <4>1, <4>2 DEF Agrees
      <4>4. QED  BY <2>1, <4>1, <4>2, <4>3 DEF OwnerKnows
    <3>4. QED  BY <3>2, <3>3
  <2>3. QED  BY <2>1, <2>2 DEF Hit, HitInv, VerifiedIsAuthentic, Verified
<1>4. ASSUME DeleteCache  PROVE Hit
  <2>1. \A c \in Callers : OwnerKnows(c)'
    BY <1>4 DEF DeleteCache, At, OwnerKnows, Writing
  <2>2. QED  BY <1>4, <2>1 DEF DeleteCache, RemoveIdentity, Hit, VerifiedIsAuthentic, Verified
<1>5. ~Corrupt
  BY DEF Corrupt, OneWorkerKeptBytes
<1>6. QED  BY <1>1, <1>2, <1>3, <1>4, <1>5 DEF Next

LEMMA HitInvariant ==
  ASSUME OneWorkerKeptBytes
  PROVE  Spec => []HitInv
<1>1. Init => HitInv
  <2> SUFFICES ASSUME Init  PROVE HitInv
    OBVIOUS
  <2>1. \A c \in Callers : ~Reserving(c)
    BY DEF Init, Idle, Reserving, Writing
  <2>2. OwnsInv
    BY <2>1, InitHasInv DEF Init, OwnsInv, ReservationHasOneOwner
  <2>3. QED  BY <2>1, <2>2, OwnerKnowsOfReserving DEF Init, HitInv, VerifiedIsAuthentic, Verified
<1>2. HitInv /\ [Next]_vars => HitInv'
  BY StepHits, StepKeepsOwners DEF HitInv, Hit
<1>3. QED  BY <1>1, <1>2, PTL DEF Spec

(* With all callers in one worker and a disk that keeps its bytes, a cache  *)
(* hit is authentic ...                                                     *)
THEOREM HitsAreAuthentic ==
  ASSUME OneWorkerKeptBytes
  PROVE  Spec => []VerifiedIsAuthentic
<1>1. HitInv => VerifiedIsAuthentic
  BY DEF HitInv
<1>2. QED  BY <1>1, HitInvariant, PTL

(* ... and stays as it is until the whole identity is removed.              *)
THEOREM HitsAreImmutable ==
  ASSUME OneWorkerKeptBytes
  PROVE  Spec => VerifiedIsImmutable
<1>1. HitInv /\ [Next]_vars => [Verified /\ directory' => Verified' /\ payload' = payload]_vars
  BY StepHits DEF Hit
<1>2. QED  BY <1>1, HitInvariant, PTL DEF Spec, VerifiedIsImmutable
=============================================================================
