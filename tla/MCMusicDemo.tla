----------------------------- MODULE MCMusicDemo -----------------------------
(***************************************************************************)
(* The music demo for TLC: the life of its model cache over releases, the  *)
(* stages of a generation, the plans of the epochs of its GPU graphs, and  *)
(* its stem splitter.  They share nothing that their models tell apart, so *)
(* a behaviour is one of the four, and the others stay as they began.      *)
(***************************************************************************)
EXTENDS CacheLifecycle, GenerationStages, EpochTiling, TLC

CONSTANTS c1, c2, c3, p1, p2, old, new

\* Three calls in two tabs, of an older and a newer release.
TwoPages == (c1 :> p1) @@ (c2 :> p1) @@ (c3 :> p2)
TwoReleases == (p1 :> old) @@ (p2 :> new)

VARIABLES
  part,
  caller, disposing, initialized, request, terminated, script, stemsInbox, handling, separator,
  events, stemsFaults

stemsVars ==
  <<caller, disposing, initialized, request, terminated, script, stemsInbox, handling, separator,
    events, stemsFaults>>

\* Two separations, three faults.
Stems == INSTANCE DicoseSession WITH
  Callers <- {"first", "second"}, MaxFaults <- 3, inbox <- stemsInbox, faults <- stemsFaults

\* Bounds: the phases of a graph, and the command buffers of a phase.
MaxPhases == 3
MaxPhaseSize == 9

GraphPhases == UNION {[1..n -> 1..MaxPhaseSize] : n \in 1..MaxPhases}

\* The cache may be anybody's when a tab opens.  A worker that is not exercised has loaded.
DemoInit ==
  /\ part \in {"cache", "generation", "stems", "plan"}
  /\ Init /\ GenerationInit /\ Stems!Init
  /\ IF part = "plan" THEN phases \in GraphPhases ELSE phases = <<>>
  /\ part # "cache" => marker = NoMarker /\ files = {}
  /\ part # "stems" => script = "running"

DemoNext ==
  /\ UNCHANGED <<part, phases>>
  /\ \/ part = "cache" /\ Next /\ UNCHANGED <<stemsVars, generationVars>>
     \/ part = "generation" /\ GenerationNext /\ UNCHANGED <<vars, stemsVars>>
     \/ part = "stems" /\ Stems!Next /\ UNCHANGED <<vars, generationVars>>

\* Each part is fair as its module says; a part that stays as it began has nothing enabled.
DemoSpec ==
  /\ DemoInit /\ [][DemoNext]_<<part, phases, vars, generationVars, stemsVars>>
  /\ \A c \in Calls : WF_vars(Progress(c))
  /\ GenerationFairness /\ Stems!Fairness

\* DicoseSession: every separation and every dispose() ends that was asked of a worker not known to have failed.
CallsSettle == Stems!CallsSettle
==============================================================================
