------------------------------ MODULE MCRuntime ------------------------------
(***************************************************************************)
(* The inference worker for TLC: its message runtime under a page that     *)
(* sends what it likes, and the scheduler that its backend gives the GPU   *)
(* graphs to.  They share nothing that their models tell apart, so a       *)
(* behaviour is one of the two, and the other stays as it began.           *)
(***************************************************************************)
EXTENDS AceWorkerOpen, MCGpuScheduler

VARIABLE part

RuntimeInit == part \in {"messages", "graphs"} /\ OpenInit /\ Init

RuntimeNext ==
  /\ UNCHANGED part
  /\ \/ part = "messages" /\ OpenNext /\ UNCHANGED vars
     \/ part = "graphs" /\ Next /\ UNCHANGED openVars

\* The runtime is fair as its module says; nothing of it is enabled before a message is sent.
RuntimeSpec == RuntimeInit /\ [][RuntimeNext]_<<part, openVars, vars>> /\ OpenFairness
==============================================================================
