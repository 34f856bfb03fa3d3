--------------------------- MODULE MCGpuScheduler ---------------------------
(***************************************************************************)
(* Two or three graphs, with the epochs that EpochPlan gives their phases  *)
(* (written out: TLC looks them up at every step).                         *)
(***************************************************************************)
EXTENDS GpuScheduler

Planner == INSTANCE EpochPlan

E(phase, first, last) == [phase |-> phase, first |-> first, last |-> last]

TwoPlans == <<<<E(1, 1, 4), E(1, 5, 5)>>, <<E(1, 1, 1), E(2, 2, 3)>>>>
ThreePlans == <<<<E(1, 1, 1), E(2, 2, 2)>>, <<E(1, 1, 2)>>, <<E(1, 1, 1)>>>>

ASSUME PlansArePlanned ==
  /\ TwoPlans = <<Planner!Epochs(<<5>>), Planner!Epochs(<<1, 2>>)>>
  /\ ThreePlans = <<Planner!Epochs(<<1, 1>>), Planner!Epochs(<<2>>), Planner!Epochs(<<1>>)>>
=============================================================================
