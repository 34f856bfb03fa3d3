--------------------------- MODULE MCTranscription ---------------------------
(***************************************************************************)
(* A recording for Transcription.                                          *)
(***************************************************************************)
EXTENDS Transcription

CONSTANTS c1, c2

\* Two windows and nothing more.
Clip == <<2>>
==============================================================================
