----------------------------- MODULE EpochPlan -----------------------------
(***************************************************************************)
(* planAceDepth2Epoch4CompletionEpochs (runtime/scheduler.ts): the command *)
(* buffers of a graph come in phases; each phase is cut into epochs of     *)
(* four, the last one shorter.  Buffers are numbered from 1.               *)
(***************************************************************************)
EXTENDS Naturals, Sequences

Smaller(a, b) == IF a < b THEN a ELSE b

\* Mutant: the epochs of a phase hold five buffers and start every four.
PhaseEpochsOverlap(phase, first, count) ==
  [k \in 1..((count + 3) \div 4) |->
     [phase |-> phase, first |-> first + 4 * (k - 1),
      last |-> Smaller(first + 4 * k, first + count - 1)]]

\* The epochs of one phase whose first buffer is given.
PhaseEpochs(phase, first, count) ==
  [k \in 1..((count + 3) \div 4) |->
     [phase |-> phase, first |-> first + 4 * (k - 1),
      last |-> Smaller(first + 4 * k - 1, first + count - 1)]]

NothingPlanned == [epochs |-> <<>>, next |-> 1]

\* One more phase: its epochs, and the buffer that the next phase begins with.
Planned(plan, phase, count) ==
  [epochs |-> plan.epochs \o PhaseEpochs(phase, plan.next, count),
   next   |-> plan.next + count]

\* What is planned after each number of phases.
PlansAfter(phases) ==
  LET plan[p \in 0..Len(phases)] ==
        IF p = 0 THEN NothingPlanned ELSE Planned(plan[p - 1], p, phases[p])
  IN  plan

WholePlan(phases) == PlansAfter(phases)[Len(phases)]

Epochs(phases) == WholePlan(phases).epochs
BufferCount(phases) == WholePlan(phases).next - 1
=============================================================================
