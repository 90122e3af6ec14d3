---------------------------- MODULE SampleStream ----------------------------
(***************************************************************************)
(* What any consumer of an audio ring may rely on, whatever the ring does  *)
(* on overflow: samples are numbered in the order they are produced, the   *)
(* unread ones are always the contiguous interval head+1 .. tail, a read   *)
(* hands out the next ones in order, and a write may lose unread samples   *)
(* only from the old end.                                                  *)
(***************************************************************************)
EXTENDS Naturals, Sequences

CONSTANTS MaxBlock,    \* largest block one call moves
          MaxSamples   \* bound on the number of samples ever produced

VARIABLES head,  \* number of the last sample consumed or lost
          tail,  \* number of the last sample produced
          out    \* the block most recently handed to the consumer

vars == <<head, tail, out>>

Init == head = 0 /\ tail = 0 /\ out = <<>>

Produce(n) ==
    /\ tail + n <= MaxSamples
    /\ tail' = tail + n
    /\ head' \in head .. tail + n
    /\ UNCHANGED out

Consume(n) ==
    /\ head + n <= tail
    /\ out' = [k \in 1 .. n |-> head + k]
    /\ head' = head + n
    /\ UNCHANGED tail

Discard ==
    /\ head' = tail
    /\ UNCHANGED <<tail, out>>

Next == \/ \E n \in 1 .. MaxBlock : Produce(n) \/ Consume(n)
        \/ Discard

Spec == Init /\ [][Next]_vars
=============================================================================
