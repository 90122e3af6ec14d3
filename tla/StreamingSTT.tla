---------------------------- MODULE StreamingSTT ----------------------------
(***************************************************************************)
(* perception/audio/streaming_stt.py, class StreamingSTTEngine, as the     *)
(* conversation loops use it.  User speech is told apart by the turn it is *)
(* for: speech heard after t turns were accepted has number t + 1.  A      *)
(* buffer or a hypothesis is represented by the newest speech in it, 0     *)
(* when it holds none.                                                     *)
(***************************************************************************)
EXTENDS Naturals

VARIABLES
    sttAudio,   \* _audio_buffer
    sttWords    \* _committed_words and _speculative_words

sttVars == <<sttAudio, sttWords>>

SttInit == sttAudio = 0 /\ sttWords = 0

(* process_chunk: the audio is buffered before anything is decided. *)
Buffered(chunk) == IF chunk = 0 THEN sttAudio ELSE chunk

(* What a transcription that was started on `audio` can leave as words:     *)
(* what was said, nothing, or the old words when the model fails.           *)
Hypotheses(audio) == {audio, 0, sttWords}

(* reset() *)
SttReset == sttAudio' = 0 /\ sttWords' = 0

SttTypeOK == sttAudio \in Nat /\ sttWords \in Nat
=============================================================================
