----------------------------- MODULE AceChannel -----------------------------
(***************************************************************************)
(* The two FIFO message ports between the page (AceStepMusicClient) and    *)
(* its dedicated inference worker (AceWorkerRuntime).  A port delivers in  *)
(* the order of postMessage and never duplicates; Worker.terminate() drops *)
(* whatever is still queued in either direction.                           *)
(*                                                                         *)
(* A message is a record: its type and the two correlation ids of          *)
(* runtime/protocol.ts, NoId where the type carries none.                  *)
(***************************************************************************)
EXTENDS Naturals, Sequences

VARIABLES toWorker,   \* page -> worker, AceClientMessage
          toClient    \* worker -> page, AceWorkerMessage

channelVars == <<toWorker, toClient>>

NoId == 0

ClientMessage ==
  [type : {"initialize", "cancel-initialization", "generate", "cancel", "dispose"},
   requestId : Nat, jobId : Nat]

\* "fatal-error" is an "error" whose code satisfies isAceFatalGpuErrorCode;
\* "diagnostic" stands for the two fatal GPU diagnostic codes only.
WorkerMessage ==
  [type : {"initialization-progress", "ready", "initialization-cancelled",
           "generation-progress", "diagnostic", "result", "cancelled",
           "disposed", "error", "fatal-error"},
   requestId : Nat, jobId : Nat]

RequestMessage(type, requestId) == [type |-> type, requestId |-> requestId, jobId |-> NoId]
JobMessage(type, jobId) == [type |-> type, requestId |-> NoId, jobId |-> jobId]

ErrorTypes == {"error", "fatal-error"}

ChannelTypeOK ==
  /\ toWorker \in Seq(ClientMessage)
  /\ toClient \in Seq(WorkerMessage)

ChannelInit ==
  /\ toWorker = <<>>
  /\ toClient = <<>>

Post(message) == toClient' = Append(toClient, message)
=============================================================================
