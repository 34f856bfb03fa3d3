---------------------------- MODULE MCPlayground ----------------------------
(***************************************************************************)
(* A recording for the playground: two groups of two windows and of one,   *)
(* and a tail that encodes alone and yields no frames.                     *)
(***************************************************************************)
EXTENDS Playground

ThreeGroups == <<2, 1, 1>>
=============================================================================
