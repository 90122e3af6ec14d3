-------------------------- MODULE MCSentencePipeline --------------------------
(* The queue of 3 of the code and answers of up to 6 sentences: the queue   *)
(* fills with one sentence being spoken and another waiting for room.       *)
EXTENDS SentencePipeline
=============================================================================
