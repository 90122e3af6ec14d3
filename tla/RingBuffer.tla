----------------------------- MODULE RingBuffer -----------------------------
(***************************************************************************)
(* perception/audio/capture.py, class RingBuffer: the single-producer      *)
(* single-consumer ring between the PortAudio callback threads and the     *)
(* asyncio loop.  Every method runs under one lock, so each is one action. *)
(* A sample is represented by its production number, which is all the      *)
(* properties tell apart.                                                  *)
(***************************************************************************)
EXTENDS Integers, Sequences

CONSTANTS Capacity,    \* capacity_samples
          MaxBlock,    \* largest block a caller writes or reads at once
          MaxSamples   \* bound on the number of samples ever written

ASSUME RingConstants == /\ Capacity \in Nat \ {0}
                        /\ MaxBlock \in Nat \ {0}
                        /\ MaxSamples \in Nat

VARIABLES
    buf,        \* self._buf
    writePos,   \* self._write_pos
    readPos,    \* self._read_pos
    written,    \* history: samples ever passed to write()
    delivered,  \* history: newest sample read or cleared away
    out         \* the last block read() returned

vars == <<buf, writePos, readPos, written, delivered, out>>

Positions == 0 .. Capacity - 1

-----------------------------------------------------------------------------
(* Deliberately wrong variants of the definitions below, kept to show that  *)
(* the properties notice them: no wrap-around, equal positions taken for a  *)
(* full ring, a read that does not consume, a clear that forgets a position *)

AdvanceNoWrap(p, n) == p + n

AvailableEqualIsFull == IF writePos > readPos
                        THEN writePos - readPos
                        ELSE Capacity - readPos + writePos

ReadKeepsPosition(n) ==
    LET avail == (Capacity + writePos - readPos) % Capacity
    IN  /\ avail >= n
        /\ out' = [k \in 1 .. n |-> buf[(readPos + k - 1) % Capacity]]
        /\ delivered' = buf[(readPos + n - 1) % Capacity]
        /\ UNCHANGED <<buf, writePos, readPos, written>>

ClearReadOnly ==
    /\ readPos' = 0
    /\ delivered' = written
    /\ UNCHANGED <<buf, writePos, written, out>>

-----------------------------------------------------------------------------
(* _available_unlocked: equal positions read as an empty ring. *)
Available == IF writePos >= readPos
             THEN writePos - readPos
             ELSE Capacity - readPos + writePos

Advance(p, n) == (p + n) % Capacity

(* Unread samples the read position skips to make room for n new ones. *)
Overflow(n) == IF n > Capacity - Available THEN n - (Capacity - Available) ELSE 0

(* Of a block larger than the ring only the tail is kept. *)
Kept(n) == IF n >= Capacity THEN Capacity ELSE n

(* How far slot i lies ahead of the write position. *)
Distance(i) == IF i >= writePos THEN i - writePos ELSE i + Capacity - writePos

(* write(data) for a block of n samples.  The two slice copies put the      *)
(* block's sample number d in the slot at distance d.                       *)
Write(n) ==
    LET kept == Kept(n)
    IN  /\ written + n <= MaxSamples
        /\ readPos' = Advance(readPos, Overflow(kept))
        /\ buf' = [i \in Positions |->
                     IF Distance(i) < kept
                     THEN written + (n - kept) + Distance(i) + 1
                     ELSE buf[i]]
        /\ writePos' = Advance(writePos, kept)
        /\ written' = written + n
        /\ UNCHANGED <<delivered, out>>

(* read(n): None, with no effect, when fewer than n samples are available.  *)
Read(n) ==
    /\ Available >= n
    /\ out' = [k \in 1 .. n |-> buf[Advance(readPos, k - 1)]]
    /\ readPos' = Advance(readPos, n)
    /\ delivered' = buf[Advance(readPos, n - 1)]
    /\ UNCHANGED <<buf, writePos, written>>

(* clear(): the old samples stay in buf but are no longer readable. *)
Clear ==
    /\ readPos' = 0
    /\ writePos' = 0
    /\ delivered' = written
    /\ UNCHANGED <<buf, written, out>>

Init ==
    /\ buf = [i \in Positions |-> 0]
    /\ writePos = 0
    /\ readPos = 0
    /\ written = 0
    /\ delivered = 0
    /\ out = <<>>

Next == \/ \E n \in 1 .. MaxBlock : Write(n) \/ Read(n)
        \/ Clear

Spec == Init /\ [][Next]_vars

-----------------------------------------------------------------------------
(* Type invariant: both positions stay inside the buffer.                   *)
TypeOK ==
    /\ buf \in [Positions -> Nat]
    /\ writePos \in Positions
    /\ readPos \in Positions
    /\ written \in 0 .. MaxSamples
    /\ delivered \in 0 .. MaxSamples
    /\ out \in Seq(Nat)

(* What a reader would get is exactly the newest samples written, in order: *)
(* across wrap-around, overflow and oversized blocks, write() and read()    *)
(* never expose a slot holding a stale or misplaced sample.                 *)
ReadableIsNewest ==
    \A k \in 0 .. Available - 1 :
        buf[Advance(readPos, k)] = written - Available + k + 1

(* No sample is played or processed twice: whatever is still readable is    *)
(* newer than everything read() already returned or clear() dropped.        *)
NoReplay == delivered <= written - Available

(* The ring implements the lossy stream its consumers rely on. *)
Stream == INSTANCE SampleStream WITH head <- written - Available, tail <- written
ImplementsStream == Stream!Spec

(* "Overwrites oldest data on overflow rather than blocking" (class         *)
(* docstring): a full ring still holds the newest Capacity unread samples.  *)
OverwritesOnlyOldest ==
    Available = IF written - delivered < Capacity THEN written - delivered ELSE Capacity
=============================================================================
