----------------------------- MODULE SpokenAnswer -----------------------------
(***************************************************************************)
(* What the other party of a dialogue may rely on while an answer is       *)
(* spoken, however sentences get from the model to the voice: they are     *)
(* said in the order they are generated; none begins to count as said once *)
(* the user has interrupted; an answer is complete only with its last      *)
(* sentence said, and cut short only with one unsaid; and the floor is     *)
(* given up only when nothing generates any more.                          *)
(***************************************************************************)
EXTENDS Naturals, Sequences

CONSTANT MaxSentences   \* bound: sentences of one answer

VARIABLES generated,    \* number of sentences generated
          generating,   \* whether the model's side is still at work
          said,         \* the sentences said to the end
          interrupted,  \* whether the user has interrupted
          ending,       \* how the answer ended, or "none"
          released      \* whether the floor has been given up

vars == <<generated, generating, said, interrupted, ending, released>>

Init ==
    /\ generated = 0 /\ generating = TRUE
    /\ said = <<>>
    /\ interrupted \in BOOLEAN
    /\ ending = "none" /\ released = FALSE

Generate ==
    /\ generating /\ ending = "none"
    /\ generated < MaxSentences
    /\ generated' = generated + 1
    /\ UNCHANGED <<generating, said, interrupted, ending, released>>

StopGenerating ==
    /\ generating /\ generating' = FALSE
    /\ UNCHANGED <<generated, said, interrupted, ending, released>>

Say ==
    /\ ending = "none" /\ ~interrupted
    /\ Len(said) < generated
    /\ said' = Append(said, Len(said) + 1)
    /\ UNCHANGED <<generated, generating, interrupted, ending, released>>

Interrupt ==
    /\ ~interrupted /\ ~released
    /\ interrupted' = TRUE
    /\ UNCHANGED <<generated, generating, said, ending, released>>

Complete ==
    /\ ending = "none"
    /\ Len(said) = generated /\ ~generating
    /\ ending' = "complete"
    /\ UNCHANGED <<generated, generating, said, interrupted, released>>

(* Giving up may end the generation at once, or a little later.             *)
CutShort(how) ==
    /\ ending = "none"
    /\ Len(said) < generated
    /\ how = "interrupted" => interrupted
    /\ ending' = how
    /\ generating' \in {generating, FALSE}
    /\ UNCHANGED <<generated, said, interrupted, released>>

Release ==
    /\ ending # "none" /\ ~generating
    /\ ~released /\ released' = TRUE
    /\ UNCHANGED <<generated, generating, said, interrupted, ending>>

Next == \/ Generate \/ StopGenerating
        \/ Say \/ Interrupt
        \/ Complete \/ CutShort("interrupted") \/ CutShort("failed")
        \/ Release

Spec == Init /\ [][Next]_vars
=============================================================================
