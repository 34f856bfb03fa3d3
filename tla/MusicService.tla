---------------------------- MODULE MusicService ----------------------------
(***************************************************************************)
(* What a page may rely on when it uses AceStepMusicClient, with no word   *)
(* of messages or promises' plumbing: calls of generate() run one at a     *)
(* time, each settles once, an AbortError means that the page asked for    *)
(* it, and whenever an inference worker is alive the shared model-cache    *)
(* lock is held, so no deletion or migration can run under it.             *)
(***************************************************************************)
EXTENDS Naturals

CONSTANT Calls

VARIABLES
  call,     \* what became of each generate(): none, pending, or how it settled
  asked,    \* calls the page cancelled, disposed or terminated
  serving,  \* an inference worker is alive
  locked    \* this page holds the model-cache lock (shared)

serviceVars == <<call, asked, serving, locked>>

ServiceInit ==
  /\ call = [c \in Calls |-> "none"]
  /\ asked = {}
  /\ serving = FALSE
  /\ locked = FALSE

Begin(c) ==
  /\ \A d \in Calls : call[d] # "pending"
  /\ call[c] = "none"
  /\ call' = [call EXCEPT ![c] = "pending"]
  /\ UNCHANGED asked

Ask(c) ==
  /\ call[c] = "pending"
  /\ asked' = asked \cup {c}
  /\ UNCHANGED call

End(c) ==
  /\ call[c] = "pending"
  /\ asked' \in {asked, asked \cup {c}}
  /\ \E result \in {"resolved", "failed"} \cup {r \in {"aborted"} : c \in asked'} :
       call' = [call EXCEPT ![c] = result]

CallStep == \E c \in Calls : Begin(c) \/ Ask(c) \/ End(c)

LockStep ==
  \/ ~serving /\ ~locked /\ locked' /\ UNCHANGED serving
  \/ locked /\ locked' /\ serving' = ~serving
  \/ locked /\ ~locked' /\ ~serving'

ServiceNext ==
  /\ CallStep \/ UNCHANGED <<call, asked>>
  /\ LockStep \/ UNCHANGED <<serving, locked>>

ServiceSpec == ServiceInit /\ [][ServiceNext]_serviceVars
=============================================================================
