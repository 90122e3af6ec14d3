---------------------------- MODULE MCAudioOutput ----------------------------
(* The greeting and one or two answers over a queue of two items, some of    *)
(* them of more chunks than the queue holds.                                 *)
EXTENDS AudioOutput
=============================================================================
