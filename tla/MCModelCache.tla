---------------------------- MODULE MCModelCache ----------------------------
(* Instances of the model cache for TLC: two callers, in one worker or in   *)
(* the workers of two tabs, and a payload of two units: a prefix and a      *)
(* suffix that different writers may have written.                          *)
EXTENDS ModelCache

OneWorker == [c \in Callers |-> CHOOSE w \in Workers : TRUE]
OwnWorker == CHOOSE home \in [Callers -> Workers] : \A c, d \in Callers : c # d => home[c] # home[d]
=============================================================================
