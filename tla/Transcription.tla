---------------------------- MODULE Transcription ----------------------------
(***************************************************************************)
(* Windowed Parakeet transcription (src/engines/asr-parakeet): calls of    *)
(* transcribe() on one engine, each with its group loop (pipeline.js) and  *)
(* its decode sink (decode-sink.js), over the pool of decoder workers they *)
(* share (decode-pool.js, decoder-worker.js).  A window is its index in    *)
(* the recording, a job the place of its request in the pool's numbering.  *)
(***************************************************************************)
EXTENDS Naturals, Sequences, FiniteSets

CONSTANTS
  Calls,        \* transcribe() calls, which nothing makes wait for each other
  Groups,       \* the windows of each group of the recording
  Silent,       \* groups that yield no mel frames
  NumWorkers,   \* decoder workers
  MaxFailures,  \* bound: windows a worker fails on, encodes and worker errors
  MayDispose    \* the engine may be disposed of while a call runs

\* What the constants must be.
TranscriptionConstants ==
  /\ Groups \in Seq(Nat \ {0}) /\ Groups # <<>>
  /\ Silent \subseteq DOMAIN Groups
  /\ NumWorkers \in Nat \ {0}
  /\ MaxFailures \in Nat
  /\ MayDispose \in BOOLEAN

VARIABLES
  call,      \* each call: its place in the group loop and its sink
  jobs,      \* the jobs posted so far: window, promise and result
  waiting,   \* jobs whose promise is unsettled in the pool
  inbox,     \* jobs posted to each worker, which takes them in the order of their numbers
  replies,   \* answers of each worker the page has yet to handle
  disposed,  \* dispose() has terminated the workers
  failures   \* what is left of MaxFailures

poolVars == <<jobs, waiting, inbox, replies>>
vars == <<call, poolVars, disposed, failures>>

Workers == 1..NumWorkers

\* The windows of the first n groups.
Before[n \in 0..Len(Groups)] == IF n = 0 THEN 0 ELSE Before[n - 1] + Groups[n]

Windows(g) == Before[g - 1] + 1 .. Before[g]

LastWindow == Before[Len(Groups)]

Stitched == [window : Nat \ {0}, result : Nat]

Call ==
  [at : {"new", "groups", "finishing", "done", "failed"}, group : Nat \ {0},
   window : Nat \ {0}, decJobs : Seq(Nat \ {0}), transcript : Seq(Stitched)]

\* promise: how decode()'s promise stands; result: the job whose tokens resolved
\* it, 0 before.
Job ==
  [call : Calls, window : Nat \ {0}, promise : {"pending", "resolved", "rejected"},
   result : Nat]

TypeOK ==
  /\ call \in [Calls -> Call]
  /\ jobs \in Seq(Job)
  /\ waiting \subseteq DOMAIN jobs
  /\ inbox \in [Workers -> SUBSET DOMAIN jobs]
  /\ replies \in [Workers -> Seq([id : DOMAIN jobs, ok : BOOLEAN])]
  /\ disposed \in BOOLEAN
  /\ failures \in 0..MaxFailures

Init ==
  /\ call = [c \in Calls |-> [at |-> "new", group |-> 1, window |-> 1,
                              decJobs |-> <<>>, transcript |-> <<>>]]
  /\ jobs = <<>>
  /\ waiting = {}
  /\ inbox = [w \in Workers |-> {}]
  /\ replies = [w \in Workers |-> <<>>]
  /\ disposed = FALSE
  /\ failures = MaxFailures

(***************************************************************************)
(* The decode sink.                                                        *)
(***************************************************************************)
Resolved(j) == jobs[j].promise = "resolved"

First(ids) == CHOOSE j \in ids : \A i \in ids : j <= i

\* What stitch() appends for each of some jobs.
StitchAll(t, js) ==
  t \o [i \in DOMAIN js |-> [window |-> jobs[js[i]].window, result |-> jobs[js[i]].result]]

\* How many of a call's jobs can be stitched without overtaking one.
Ready(decJobs) ==
  LET pending == {i \in DOMAIN decJobs : ~Resolved(decJobs[i])}
  IN  IF pending = {} THEN Len(decJobs) ELSE First(pending) - 1

\* decode() for each window of the group, dealt to the workers in turn.
Posted(c, g) ==
  [i \in 1..Groups[g] |->
     [call |-> c, window |-> call[c].window + i - 1, promise |-> "pending", result |-> 0]]

WorkerOf(id) == ((id - 1) % NumWorkers) + 1

Deal(ids) == [w \in Workers |-> inbox[w] \cup {id \in ids : WorkerOf(id) = w}]

(***************************************************************************)
(* The group loop.                                                         *)
(***************************************************************************)
Start(c) ==
  /\ call[c].at = "new" /\ ~disposed
  /\ call' = [call EXCEPT ![c].at = "groups"]
  /\ UNCHANGED <<poolVars, disposed, failures>>

AfterGroup(k) ==
  [k EXCEPT !.group = @ + 1, !.window = @ + Groups[k.group],
            !.at = IF k.group < Len(Groups) THEN "groups" ELSE "finishing"]

\* sink.skip: the group had no mels, nothing was submitted for it.
Skip(c) ==
  /\ call[c].at = "groups" /\ call[c].group \in Silent
  /\ call' = [call EXCEPT ![c] = AfterGroup(@)]
  /\ UNCHANGED <<poolVars, disposed, failures>>

\* The group's frames have landed: post its windows and stitch what is ready.
ConsumeFrames(c) ==
  LET k == call[c]
      n == Groups[k.group]
      first == Len(jobs) + 1
      all == k.decJobs \o [i \in 1..n |-> first + i - 1]
      ready == Ready(k.decJobs)
  IN  /\ k.at = "groups" /\ k.group \notin Silent /\ ~disposed
      /\ jobs' = jobs \o Posted(c, k.group)
      /\ waiting' = waiting \union (first .. first + n - 1)
      /\ inbox' = Deal(first .. first + n - 1)
      /\ call' = [call EXCEPT ![c] =
                    [AfterGroup(k) EXCEPT
                       !.decJobs = SubSeq(all, ready + 1, Len(all)),
                       !.transcript = StitchAll(@, SubSeq(all, 1, ready))]]
      /\ UNCHANGED <<replies, disposed, failures>>

\* finish() awaits the jobs that are left one by one.
FinishOne(c) ==
  /\ call[c].at = "finishing" /\ call[c].decJobs # <<>>
  /\ Resolved(Head(call[c].decJobs))
  /\ call' = [call EXCEPT ![c].transcript = StitchAll(@, <<Head(call[c].decJobs)>>),
                          ![c].decJobs = Tail(@)]
  /\ UNCHANGED <<poolVars, disposed, failures>>

Return(c) ==
  /\ call[c].at = "finishing" /\ call[c].decJobs = <<>>
  /\ call' = [call EXCEPT ![c].at = "done"]
  /\ UNCHANGED <<poolVars, disposed, failures>>

\* A decode() that rejected fails the call when finish() comes to it.
Rejected(c) ==
  /\ call[c].at = "finishing" /\ call[c].decJobs # <<>>
  /\ jobs[Head(call[c].decJobs)].promise = "rejected"
  /\ call' = [call EXCEPT ![c].at = "failed"]
  /\ UNCHANGED <<poolVars, disposed, failures>>

\* Mel extraction, the encode or its readback throws; the jobs already posted
\* stay with the workers.
EncodeFails(c) ==
  /\ call[c].at = "groups" /\ ~disposed
  /\ failures > 0 /\ failures' = failures - 1
  /\ call' = [call EXCEPT ![c].at = "failed"]
  /\ UNCHANGED <<poolVars, disposed>>

\* The device was destroyed with the engine: the readback rejects.
ReadbackAborts(c) ==
  /\ call[c].at = "groups" /\ call[c].group \notin Silent /\ disposed
  /\ call' = [call EXCEPT ![c].at = "failed"]
  /\ UNCHANGED <<poolVars, disposed, failures>>

(***************************************************************************)
(* The workers and the pool's handlers.                                    *)
(***************************************************************************)
\* A worker decodes its next window, or catches an error and says so.
Decode(w) ==
  /\ inbox[w] # {}
  /\ \E ok \in BOOLEAN :
       /\ ok \/ failures > 0
       /\ failures' = IF ok THEN failures ELSE failures - 1
       /\ replies' = [replies EXCEPT ![w] = Append(@, [id |-> First(inbox[w]), ok |-> ok])]
  /\ inbox' = [inbox EXCEPT ![w] = @ \ {First(@)}]
  /\ UNCHANGED <<call, jobs, waiting, disposed>>

Settle(m, id) ==
  /\ waiting' = waiting \ {id}
  /\ jobs' = [jobs EXCEPT ![id].promise = IF m.ok THEN "resolved" ELSE "rejected",
                          ![id].result = IF m.ok THEN m.id ELSE 0]

\* Mutant: answers are taken to come back in the order of the requests.
SettleOldest(m) == Settle(m, First(waiting))

\* The promise is found by the id the answer carries.
SettleOwn(m) == Settle(m, m.id)

\* onmessage: settle the promise the answer is for, if it still waits.
Reply(w) ==
  LET m == Head(replies[w])
  IN  /\ replies[w] # <<>>
      /\ replies' = [replies EXCEPT ![w] = Tail(@)]
      /\ IF m.id \in waiting
         THEN SettleOwn(m)
         ELSE UNCHANGED <<waiting, jobs>>
      /\ UNCHANGED <<call, inbox, disposed, failures>>

\* onerror of any worker: failAll rejects every pending decode, whoever has it.
WorkerError ==
  /\ failures > 0 /\ ~disposed
  /\ failures' = failures - 1
  /\ jobs' = [j \in DOMAIN jobs |->
                IF j \in waiting THEN [jobs[j] EXCEPT !.promise = "rejected"] ELSE jobs[j]]
  /\ waiting' = {}
  /\ UNCHANGED <<call, inbox, replies, disposed>>

\* dispose(): the workers are terminated with what they hold; promises are not
\* settled.
Dispose ==
  /\ MayDispose /\ ~disposed
  /\ disposed' = TRUE
  /\ inbox' = [w \in Workers |-> {}]
  /\ replies' = [w \in Workers |-> <<>>]
  /\ UNCHANGED <<call, jobs, waiting, failures>>

Advance(c) ==
  \/ Skip(c)
  \/ ConsumeFrames(c)
  \/ ReadbackAborts(c)
  \/ FinishOne(c)
  \/ Return(c)
  \/ Rejected(c)

Next ==
  \/ \E c \in Calls : Start(c) \/ Advance(c) \/ EncodeFails(c)
  \/ \E w \in Workers : Decode(w) \/ Reply(w)
  \/ WorkerError
  \/ Dispose

Spec == Init /\ [][Next]_vars

\* Frames of a submitted group land, workers answer and the page takes its turns.
FairSpec ==
  /\ Spec
  /\ \A c \in Calls : WF_vars(Advance(c))
  /\ \A w \in Workers : WF_vars(Decode(w)) /\ WF_vars(Reply(w))

(***************************************************************************)
(* Properties.                                                             *)
(***************************************************************************)
Spoken == {w \in 1..LastWindow : \A g \in Silent : w \notin Windows(g)}

\* Windows are stitched in the order of the recording and none is passed over, each with the tokens
\* of its own frames, never with another call's although the pool is shared and answers come back in
\* any order, and a call that returns has stitched them all (decode-sink.js, stitcher.js: "stitch()
\* MUST be called in window order").
TranscriptIsInOrder ==
  \A c \in Calls :
    LET t == call[c].transcript
        heard(n) == {t[i].window : i \in 1..n}
    IN  /\ \A i \in DOMAIN t :
             /\ t[i].window \in Spoken
             /\ heard(i - 1) = {w \in Spoken : w < t[i].window}
             /\ t[i].result \in DOMAIN jobs
             /\ jobs[t[i].result].call = c /\ jobs[t[i].result].window = t[i].window
        /\ call[c].at = "done" => heard(Len(t)) = Spoken

\* A transcription that was started returns or fails (decode-pool.js: "a hung
\* transcribe() is never the failure mode").
TranscriptionEnds ==
  \A c \in Calls : call[c].at = "groups" ~> call[c].at \in {"done", "failed"}
==============================================================================
