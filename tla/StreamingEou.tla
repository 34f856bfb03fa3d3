----------------------------- MODULE StreamingEou -----------------------------
(***************************************************************************)
(* The streaming end-of-utterance engine (src/engines/eou-parakeet): the   *)
(* calls push(), finish() and transcribe(), which one promise chain runs   *)
(* in turn, and reset(), which does not wait, over the encoder streams     *)
(* (asr-parakeet/streaming-encoder.js) and the buffer pool they share.     *)
(* Audio is counted in chunk passes; a stream has one layer, with one      *)
(* cache and one constant tensor.                                          *)
(***************************************************************************)
EXTENDS BufferPool

CONSTANTS
  MaxCalls,     \* bound: calls of push, finish and transcribe
  MaxPasses,    \* bound: chunk passes one call has audio for
  MaxFailures,  \* bound: readbacks that reject
  Budget,       \* buffers trimPool leaves in the pool
  Patient       \* reset() is not called while a call has a further pass to run

\* What the constants must be.
StreamingConstants ==
  /\ MaxCalls \in Nat /\ MaxPasses \in Nat /\ MaxFailures \in Nat
  /\ Budget \in Nat
  /\ Patient \in BOOLEAN

VARIABLES
  pool,      \* the context's buffer pool
  enc,       \* the encoder streams, each with the text decoded from it
  stream,    \* the engine's live stream, 0 if none
  calls,     \* the calls made, in the order of the promise chain
  decoder,   \* the stream each decoder instance follows, and how far it is
  failures   \* what is left of MaxFailures

vars == <<pool, enc, stream, calls, decoder, failures>>

\* Bound: streams that something refers to.
Streams == 1..3

Stream ==
  [fed : Nat, subT : Nat, cache : Nat, fixed : Nat, ids : Seq(Nat),
   finished : BOOLEAN, broken : BOOLEAN, flushed : BOOLEAN]

\* at: where the call stands; frames: the tensor it downloads; outs: the passes
\* encodeStreamPush has yet to return; decode: the instance it decodes with.
Call ==
  [kind : {"push", "finish", "transcribe"}, size : 0..MaxPasses,
   at : {"queued", "encode", "download", "flush", "flushed", "done", "failed"},
   on : 0..3, frames : Nat, outs : Seq(Nat), decode : {"main", "worker"}]

Decoders == {"main", "worker"}

TypeOK ==
  /\ pool \in Pool
  /\ enc \in [Streams -> Stream]
  /\ stream \in {0} \union Streams
  /\ calls \in Seq(Call) /\ Len(calls) <= MaxCalls
  /\ decoder \in [Decoders -> [on : {0} \union Streams, next : Nat]]
  /\ failures \in 0..MaxFailures

NoStream ==
  [fed |-> 0, subT |-> 0, cache |-> 0, fixed |-> 0, ids |-> <<>>,
   finished |-> FALSE, broken |-> FALSE, flushed |-> FALSE]

Init ==
  /\ pool = EmptyPool
  /\ enc = [s \in Streams |-> NoStream]
  /\ stream = 0
  /\ calls = <<>>
  /\ decoder = [d \in Decoders |-> [on |-> 0, next |-> 1]]
  /\ failures = MaxFailures

\* Streams nobody refers to, which a new one may take the place of.
Unused == Streams \ ({stream} \union {calls[i].on : i \in DOMAIN calls})

\* Buffers that are some stream's tensor or some call's download.
Held ==
  ((UNION {{enc[s].cache, enc[s].fixed} : s \in Streams \ Unused})
     \union {calls[i].frames : i \in DOMAIN calls}) \ {0}

(***************************************************************************)
(* The promise chain.                                                      *)
(***************************************************************************)
Ask(kind, size) ==
  /\ Len(calls) < MaxCalls
  /\ calls' = Append(calls, [kind |-> kind, size |-> size, at |-> "queued", on |-> 0,
                             frames |-> 0, outs |-> <<>>, decode |-> "main"])
  /\ UNCHANGED <<pool, enc, stream, decoder, failures>>

\* A call that is over refers to no stream.
Over(i, how) ==
  [calls EXCEPT ![i].at = how, ![i].on = 0, ![i].frames = 0, ![i].outs = <<>>]

Turn(i) == \A j \in 1..i - 1 : calls[j].at \in {"done", "failed"}

Waiting(i, kind) ==
  i \in DOMAIN calls /\ calls[i].at = "queued" /\ calls[i].kind = kind /\ Turn(i)

At(i, at) == i \in DOMAIN calls /\ calls[i].at = at

\* createEncodeStream: a stream's constants are allocated outside any arena; the
\* decoder is reset with it.
Create(i, s, d) ==
  /\ enc' = [enc EXCEPT ![s] = [NoStream EXCEPT !.fed = calls[i].size,
                                               !.fixed = CreateBuffer(pool, Held).last]]
  /\ decoder' = [decoder EXCEPT ![d] = [on |-> s, next |-> 1]]
  /\ calls' = [calls EXCEPT ![i].at = "encode", ![i].on = s, ![i].decode = d]

Feed(i, finished) ==
  /\ enc' = [enc EXCEPT ![stream].fed = @ + calls[i].size, ![stream].finished = finished]
  /\ calls' = [calls EXCEPT ![i].at = "encode", ![i].on = stream]

\* The live stream takes audio.
Open == stream # 0 /\ ~enc[stream].finished /\ ~enc[stream].broken

BeginPush(i) ==
  /\ Waiting(i, "push")
  /\ \/ /\ stream = 0
        /\ stream' = Min(Unused) /\ Create(i, Min(Unused), "main")
     \/ /\ Open
        /\ Feed(i, FALSE) /\ UNCHANGED <<stream, decoder>>
     \/ /\ stream # 0 /\ ~Open
        /\ calls' = Over(i, "failed") /\ UNCHANGED <<enc, stream, decoder>>
  /\ UNCHANGED <<pool, failures>>

BeginFinish(i) ==
  /\ Waiting(i, "finish")
  /\ \/ /\ Open
        /\ Feed(i, TRUE)
     \/ /\ ~Open
        /\ calls' = Over(i, "done") /\ UNCHANGED enc
  /\ UNCHANGED <<pool, stream, decoder, failures>>

\* Batch decoding has a worker with a decoder of its own, or uses the page's.
StartBatch(i) ==
  /\ \E d \in Decoders : Create(i, Min(Unused), d)
  /\ UNCHANGED <<pool, stream, failures>>

\* Mutant: a batch does not look for a live stream.
BeginTranscribeAnyway(i) == Waiting(i, "transcribe") /\ StartBatch(i)

BeginTranscribe(i) ==
  /\ Waiting(i, "transcribe")
  /\ \/ stream = 0 /\ StartBatch(i)
     \/ /\ stream # 0 /\ calls' = Over(i, "failed")
        /\ UNCHANGED <<pool, enc, stream, decoder, failures>>

(***************************************************************************)
(* One chunk pass (runChunk): record, submit and await the readback.       *)
(***************************************************************************)
\* What the pass allocates, in order: the mel upload, scratch, the next cache
\* and the frames.  The last two are pinned, the mel is put back by hand.
PassBuffers ==
  LET p1 == CreateBuffer(PushArena(pool), Held)
      mel == p1.last
      p2 == AllocRaw(p1, Held \union {mel})
      p3 == AllocRaw(p2, Held \union {mel})
      cache == p3.last
      p4 == AllocRaw(Pin(p3, cache), Held \union {mel, cache})
      frames == p4.last
  IN  [pool |-> Put(PopArena(Pin(p4, frames)), mel), cache |-> cache, frames |-> frames]

\* The cache of the stream is swapped; the one it replaces goes to the pool.
RunChunk(i, s) ==
  LET b == PassBuffers
  IN  /\ pool' = IF enc[s].cache = 0 THEN b.pool ELSE Put(b.pool, enc[s].cache)
      /\ enc' = [enc EXCEPT ![s].cache = b.cache, ![s].flushed = (calls[i].at = "flush")]
      /\ calls' = [calls EXCEPT ![i].at = "download", ![i].frames = b.frames]
      /\ UNCHANGED <<stream, decoder, failures>>

Download(i) ==
  LET s == calls[i].on
  IN  /\ At(i, "download")
      /\ pool' = Put(pool, calls[i].frames)
      /\ enc' = [enc EXCEPT ![s].subT = @ + 1]
      /\ calls' = [calls EXCEPT ![i].at = IF enc[s].flushed THEN "flushed" ELSE "encode",
                                ![i].frames = 0, ![i].outs = Append(@, enc[s].subT + 1)]
      /\ UNCHANGED <<stream, decoder, failures>>

Passes(i) == enc[calls[i].on].subT < enc[calls[i].on].fed

(***************************************************************************)
(* What a call does with the passes, and how it ends.                      *)
(***************************************************************************)
\* The engine looks its live stream up again; a batch has its own.
Target(i) == IF calls[i].kind = "transcribe" THEN calls[i].on ELSE stream

\* A pass decoded by a decoder that is not there yet or has moved on says nothing
\* sensible: 0.
Tokens(i) ==
  LET d == decoder[calls[i].decode]
  IN  [k \in DOMAIN calls[i].outs |->
         IF d.on = calls[i].on /\ d.next + k - 1 = calls[i].outs[k] THEN calls[i].outs[k] ELSE 0]

Consume(i) ==
  IF calls[i].outs = <<>> THEN UNCHANGED <<enc, decoder>>
  ELSE /\ Target(i) # 0
       /\ enc' = [enc EXCEPT ![Target(i)].ids = @ \o Tokens(i)]
       /\ decoder' = [decoder EXCEPT ![calls[i].decode].next = @ + Len(calls[i].outs)]

\* disposeEncodeStream: every tensor of the stream goes to the pool.
Dispose(p, s) ==
  Put(IF enc[s].cache = 0 THEN p ELSE Put(p, enc[s].cache), enc[s].fixed)

\* The call's text is complete.  A batch disposes of its stream and trims.
Complete(i) ==
  /\ calls' = Over(i, "done")
  /\ pool' = IF calls[i].kind = "transcribe"
             THEN Trim(Dispose(pool, calls[i].on), Budget) ELSE pool
  /\ UNCHANGED <<stream, failures>>

Encode(i) ==
  /\ At(i, "encode")
  /\ \/ Passes(i) /\ RunChunk(i, calls[i].on)
     \/ /\ ~Passes(i) /\ Consume(i)
        /\ \/ calls[i].kind = "push" /\ Complete(i)
           \/ /\ calls[i].kind # "push"
              /\ calls' = [calls EXCEPT ![i].at = "flush", ![i].outs = <<>>]
              /\ UNCHANGED <<pool, stream, failures>>

\* encodeStreamFlush: the padded tail is one more pass, or nothing.
Flush(i) ==
  /\ At(i, "flush")
  /\ \/ RunChunk(i, calls[i].on)
     \/ UNCHANGED <<enc, decoder>> /\ Complete(i)

Flushed(i) == At(i, "flushed") /\ Consume(i) /\ Complete(i)

\* push() poisons its stream, a batch disposes of its own, finish() does neither.
Broken(i) ==
  /\ calls' = Over(i, "failed")
  /\ enc' = IF calls[i].kind = "push" THEN [enc EXCEPT ![calls[i].on].broken = TRUE] ELSE enc
  /\ pool' = IF calls[i].kind = "transcribe"
             THEN Trim(Dispose(pool, calls[i].on), Budget) ELSE pool
  /\ UNCHANGED <<stream, decoder>>

ReadbackFails(i) ==
  /\ At(i, "download") /\ failures > 0 /\ failures' = failures - 1
  /\ Broken(i)

\* reset() took the stream away: consume reads a property of null.
ConsumeFails(i) ==
  /\ (At(i, "encode") /\ ~Passes(i)) \/ At(i, "flushed")
  /\ calls[i].outs # <<>> /\ Target(i) = 0
  /\ Broken(i) /\ UNCHANGED failures

\* The call runs another pass when the readback it awaits has landed.
Further(i) == enc[calls[i].on].subT + 1 < enc[calls[i].on].fed

\* Any time the page's thread is free: while a call is queued or awaits a readback.
Reset ==
  /\ \A i \in DOMAIN calls : calls[i].at \in {"queued", "download", "done", "failed"}
  /\ Patient => \A i \in DOMAIN calls :
                  At(i, "download") /\ calls[i].on = stream => ~Further(i)
  /\ stream # 0
  /\ pool' = Trim(Dispose(pool, stream), Budget)
  /\ stream' = 0
  /\ UNCHANGED <<enc, calls, decoder, failures>>

Next ==
  \/ \E kind \in {"push", "finish", "transcribe"}, size \in 0..MaxPasses : Ask(kind, size)
  \/ \E i \in 1..MaxCalls :
       \/ BeginPush(i) \/ BeginFinish(i) \/ BeginTranscribe(i)
       \/ Encode(i) \/ Download(i) \/ Flush(i) \/ Flushed(i)
       \/ ReadbackFails(i) \/ ConsumeFails(i)
  \/ Reset

Spec == Init /\ [][Next]_vars

(***************************************************************************)
(* Properties.                                                             *)
(***************************************************************************)
\* Streams whose tensors some pass may still read.
Live ==
  ({stream} \union {calls[i].on : i \in {j \in DOMAIN calls :
     calls[j].kind = "transcribe" \/ (At(j, "download") /\ Further(j))}}) \ {0}

Tensors(s) == {enc[s].fixed, enc[s].cache} \ {0}

\* A buffer is in the pool once, or is one tensor of one stream, or is what one call downloads: nothing
\* the pool hands out is still read by a later pass (buffer-pool.js: "pooled buffers are unreferenced
\* by definition").
BuffersHaveOneOwner ==
  LET pooled == ToSet(pool.free)
      downloads == {calls[i].frames : i \in DOMAIN calls} \ {0}
  IN  /\ IsInjective(pool.free)
      /\ \A s \in Live :
           /\ enc[s].fixed # enc[s].cache
           /\ Tensors(s) \cap (pooled \cup downloads) = {}
           /\ \A r \in Live \ {s} : Tensors(s) \cap Tensors(r) = {}
      /\ downloads \cap pooled = {}
      /\ \A i, j \in DOMAIN calls : calls[i].frames = calls[j].frames /\ i # j => calls[i].frames = 0

\* A live stream's text is what was said to it, each pass decoded once, in
\* order and by a decoder that followed it from the start; when no call works
\* on it and none failed, none of it is missing.
StreamHearsItsAudio ==
  stream # 0 =>
    LET s == enc[stream]
    IN  /\ s.ids = [k \in DOMAIN s.ids |-> k]
        /\ \/ ~Open
           \/ \E i \in DOMAIN calls : calls[i].on = stream
           \/ Len(s.ids) = s.fed
==============================================================================
