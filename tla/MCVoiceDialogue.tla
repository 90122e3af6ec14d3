--------------------------- MODULE MCVoiceDialogue ---------------------------
(* Two stretches of speech, two turns, up to two sentences per answer. *)
EXTENDS VoiceDialogue
=============================================================================
