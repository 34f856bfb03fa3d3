---------------------------- MODULE EpochTiling ----------------------------
(***************************************************************************)
(* What the scheduler and the comments of OPT-0080 require of a plan of    *)
(* EpochPlan, for the phases of one graph.                                 *)
(***************************************************************************)
EXTENDS EpochPlan, FiniteSets

VARIABLE phases

PhaseStart(p) == Cardinality(UNION {{q} \X (1..phases[q]) : q \in 1..p - 1}) + 1
PhaseBuffers(p) == PhaseStart(p)..(PhaseStart(p) + phases[p] - 1)
EpochBuffers(epoch) == epoch.first..epoch.last

(* "Four-command, phase-aligned epochs": every command buffer is in one     *)
(* epoch and epochs follow one another, which is what GpuScheduler assumes  *)
(* of EpochsOf; an epoch stays inside its phase and is cut short only by    *)
(* the end of it, so no graph has more true drains than its phases need.    *)
EpochsTilePhases ==
  LET epochs == Epochs(phases) IN
  /\ UNION {EpochBuffers(epochs[i]) : i \in 1..Len(epochs)} = 1..BufferCount(phases)
  /\ \A i \in 1..Len(epochs) :
       LET epoch == epochs[i] IN
       /\ EpochBuffers(epoch) # {}
       /\ i < Len(epochs) => epochs[i + 1].first = epoch.last + 1
       /\ EpochBuffers(epoch) \subseteq PhaseBuffers(epoch.phase)
       /\ Cardinality(EpochBuffers(epoch)) <= 4
       /\ Cardinality(EpochBuffers(epoch)) < 4 => epoch.last + 1 \notin PhaseBuffers(epoch.phase)
=============================================================================
