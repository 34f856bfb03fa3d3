----------------------------- MODULE MCMusicPage -----------------------------
(***************************************************************************)
(* What a click on Generate goes through, for TLC: the controls of the     *)
(* music page, and the model cache of its worker.  They share nothing that *)
(* their models tell apart, so a behaviour is one of the two, and the      *)
(* other stays as it began.                                                *)
(***************************************************************************)
EXTENDS MCModelCache

CONSTANT Nobody

VARIABLES part, page, inbox, outbox, runtime, posted, cancelled, requests, faults

controlsVars == <<page, inbox, outbox, runtime, posted, cancelled, requests, faults>>

\* Three clicks on Generate for either model variant, Delete model, two faults.
Controls == INSTANCE MusicPage WITH
  Variants <- {"production", "preview"}, MaxRequests <- 3, MaxFaults <- 2,
  MayDelete <- TRUE, Overlap <- FALSE, None <- Nobody

ASSUME ControlsConstants == Controls!PageConstants

PageInit == part \in {"model", "controls"} /\ Init /\ Controls!Init

PageNext ==
  /\ UNCHANGED part
  /\ \/ part = "model" /\ Next /\ UNCHANGED controlsVars
     \/ part = "controls" /\ Controls!Next /\ UNCHANGED vars

\* Each part is fair as its module says; a part that stays as it began has nothing enabled.
PageSpec ==
  /\ PageInit /\ [][PageNext]_<<part, vars, controlsVars>>
  /\ \A c \in Callers : WF_vars(Step(c))
  /\ Controls!Fairness

\* MusicPage: the page comes out of busy, and what it heard cancelled is never posted as a job.
ClickIsAnswered == Controls!ClickIsAnswered
==============================================================================
