----------------------------- MODULE Playground -----------------------------
(***************************************************************************)
(* The playground's engine session, two of its engines and the songs of    *)
(* the music demo.  They share nothing that their models tell apart, so a  *)
(* behaviour is one of the four, and the others stay as they began.        *)
(***************************************************************************)
EXTENDS SongStorage, Sequences

CONSTANTS
  \* the session
  Resources,
  \* transcriptions
  Calls, Groups, Silent, NumWorkers, MaxDecodeFailures, MayDispose,
  \* the streaming engine
  MaxCalls, MaxPasses, MaxReadbackFailures, Budget, Patient

VARIABLES
  part,
  resource, made, op, using, close, state,
  call, jobs, waiting, inbox, replies, disposed, decodeFailures,
  pool, enc, stream, calls, decoder, readbackFailures

Session == INSTANCE ResourceSession

Transcriptions == INSTANCE Transcription WITH
  MaxFailures <- MaxDecodeFailures, failures <- decodeFailures

Streaming == INSTANCE StreamingEou WITH
  MaxFailures <- MaxReadbackFailures, failures <- readbackFailures

ASSUME PlaygroundConstants ==
  /\ StorageConstants /\ Session!SessionConstants
  /\ Transcriptions!TranscriptionConstants /\ Streaming!StreamingConstants

sessionVars == <<resource, made, op, using, close, state>>
transcriptionVars == <<call, jobs, waiting, inbox, replies, disposed, decodeFailures>>
streamingVars == <<pool, enc, stream, calls, decoder, readbackFailures>>
playgroundVars == <<part, vars, sessionVars, transcriptionVars, streamingVars>>

PlaygroundInit ==
  /\ part \in {"songs", "session", "transcription", "streaming"}
  /\ Init /\ Session!Init /\ Transcriptions!Init /\ Streaming!Init

PlaygroundNext ==
  /\ UNCHANGED part
  /\ \/ /\ part = "songs" /\ Next
        /\ UNCHANGED <<sessionVars, transcriptionVars, streamingVars>>
     \/ /\ part = "session" /\ Session!Next
        /\ UNCHANGED <<vars, transcriptionVars, streamingVars>>
     \/ /\ part = "transcription" /\ Transcriptions!Next
        /\ UNCHANGED <<vars, sessionVars, streamingVars>>
     \/ /\ part = "streaming" /\ Streaming!Next
        /\ UNCHANGED <<vars, sessionVars, transcriptionVars>>

PlaygroundSpec == PlaygroundInit /\ [][PlaygroundNext]_playgroundVars

\* ResourceSession: after close() nothing is alive, in use or in flight.
ClosedIsEmpty == Session!ClosedIsEmpty

\* ResourceSession: dispose() is called on nothing that a run or an initialize still uses.
NotDisposedInUse == Session!NotDisposedInUse

\* Transcription: each call stitches its own windows, once and in order.
TranscriptIsInOrder == Transcriptions!TranscriptIsInOrder

\* StreamingEou: a buffer is in the pool once or is one tensor of one stream.
BuffersHaveOneOwner == Streaming!BuffersHaveOneOwner

\* StreamingEou: a live stream's text is what was said to it.
StreamHearsItsAudio == Streaming!StreamHearsItsAudio
=============================================================================
