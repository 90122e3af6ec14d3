--------------------------- MODULE RingBufferProofs ---------------------------
(***************************************************************************)
(* Proofs about RingBuffer for every capacity, block size and bound.       *)
(* The inductive invariant adds nothing to the three checked invariants:   *)
(* together they are inductive.  The argument follows the two positions:   *)
(* a write that leaves the ring short of full adds its block to the        *)
(* readable interval, any other write makes the positions meet.            *)
(***************************************************************************)
EXTENDS RingBuffer, SequenceTheorems, TLAPS

IInv == TypeOK /\ ReadableIsNewest /\ NoReplay

-----------------------------------------------------------------------------
(* A position advanced by at most one lap wraps at most once. *)
LEMMA AdvanceWraps ==
    ASSUME NEW p \in Positions, NEW n \in 0 .. Capacity
    PROVE  /\ Advance(p, n) = IF p + n < Capacity THEN p + n ELSE p + n - Capacity
           /\ Advance(p, n) \in Positions
<1>1. Capacity \in Nat \ {0}
  BY RingConstants
<1>2. CASE p + n < Capacity
  BY <1>1, <1>2 DEF Advance, Positions
<1>3. CASE p + n >= Capacity
  BY <1>1, <1>3 DEF Advance, Positions
<1> QED
  BY <1>1, <1>2, <1>3 DEF Positions

(* The lock holder never sees more than Capacity - 1 readable samples. *)
LEMMA AvailableRange ==
    ASSUME TypeOK
    PROVE  /\ Available \in 0 .. Capacity - 1
           /\ writePos = Advance(readPos, Available)
<1>1. Available \in 0 .. Capacity - 1
  BY RingConstants DEF TypeOK, Available, Positions
<1>2. readPos \in Positions /\ writePos \in Positions /\ Capacity \in Nat \ {0}
  BY RingConstants DEF TypeOK
<1>3. Advance(readPos, Available) = IF readPos + Available < Capacity
                                    THEN readPos + Available
                                    ELSE readPos + Available - Capacity
  BY <1>1, <1>2, AdvanceWraps
<1> QED
  BY <1>1, <1>2, <1>3 DEF Available, Positions

(* The k-th unread slot lies behind the write position when it holds an     *)
(* unread sample and ahead of it when it is free.                           *)
LEMMA SlotDistance ==
    ASSUME TypeOK, NEW k \in 0 .. Capacity - 1
    PROVE  Distance(Advance(readPos, k)) = IF k < Available
                                           THEN k - Available + Capacity
                                           ELSE k - Available
<1>1. readPos \in Positions /\ writePos \in Positions /\ Capacity \in Nat \ {0}
  BY RingConstants DEF TypeOK
<1>2. Advance(readPos, k) = IF readPos + k < Capacity
                            THEN readPos + k ELSE readPos + k - Capacity
  BY <1>1, AdvanceWraps
<1> QED
  BY <1>1, <1>2 DEF Distance, Available, Positions
-----------------------------------------------------------------------------
(* The number of samples between a read and a write position. *)
Gap(r, w) == IF w >= r THEN w - r ELSE Capacity - r + w

LEMMA AvailableIsGap ==
    /\ Available = Gap(readPos, writePos)
    /\ Available' = Gap(readPos', writePos')
  BY DEF Available, Gap

(* Advancing the write position by m, and the read position by the overflow *)
(* of m, widens the gap by m or closes it.                                  *)
LEMMA GapAfterWrite ==
    ASSUME NEW r \in Positions, NEW w \in Positions, NEW m \in 0 .. Capacity,
           NEW o \in 0 .. Capacity,
           o = IF m > Capacity - Gap(r, w) THEN m - (Capacity - Gap(r, w)) ELSE 0
    PROVE  /\ Gap(r, w) \in 0 .. Capacity - 1
           /\ Gap(Advance(r, o), Advance(w, m)) =
                 IF Gap(r, w) + m < Capacity THEN Gap(r, w) + m ELSE 0
           /\ Gap(r, w) + m < Capacity => Advance(r, o) = r
<1>1. Capacity \in Nat \ {0}
  BY RingConstants
<1>2. Advance(w, m) = IF w + m < Capacity THEN w + m ELSE w + m - Capacity
  BY AdvanceWraps
<1>3. Advance(r, o) = IF r + o < Capacity THEN r + o ELSE r + o - Capacity
  BY AdvanceWraps
<1> QED
  BY <1>1, <1>2, <1>3 DEF Gap, Positions

(* Advancing the read position by at most the gap narrows it. *)
LEMMA GapAfterRead ==
    ASSUME NEW r \in Positions, NEW w \in Positions, NEW n \in 0 .. Gap(r, w)
    PROVE  Gap(Advance(r, n), w) = Gap(r, w) - n
<1>1. Capacity \in Nat \ {0}
  BY RingConstants
<1>2. Gap(r, w) \in 0 .. Capacity - 1
  BY <1>1 DEF Gap, Positions
<1>3. Advance(r, n) = IF r + n < Capacity THEN r + n ELSE r + n - Capacity
  BY <1>1, <1>2, AdvanceWraps
<1> QED
  BY <1>1, <1>2, <1>3 DEF Gap, Positions

-----------------------------------------------------------------------------
(* A write adds its block when there is room for it and a slot to spare,    *)
(* and otherwise leaves the positions equal: the ring reads as empty.       *)
LEMMA WriteAvailable ==
    ASSUME TypeOK, NEW n \in 1 .. MaxBlock, Write(n)
    PROVE  /\ readPos' \in Positions
           /\ writePos' \in Positions
           /\ Available' = IF Available + Kept(n) < Capacity
                           THEN Available + Kept(n) ELSE 0
           /\ Available + Kept(n) < Capacity => readPos' = readPos /\ Kept(n) = n
<1>1. readPos \in Positions /\ writePos \in Positions /\ Capacity \in Nat \ {0}
  BY RingConstants DEF TypeOK
<1>2. Kept(n) \in 0 .. Capacity /\ (Kept(n) < Capacity => Kept(n) = n)
  BY <1>1, RingConstants DEF Kept
<1>3. Available \in 0 .. Capacity - 1
  BY AvailableRange
<1>4. Overflow(Kept(n)) \in 0 .. Capacity
  BY <1>1, <1>2, <1>3 DEF Overflow
<1>5. writePos' = Advance(writePos, Kept(n)) /\ readPos' = Advance(readPos, Overflow(Kept(n)))
  BY DEF Write
<1>6. writePos' \in Positions /\ readPos' \in Positions
  BY <1>1, <1>2, <1>4, <1>5, AdvanceWraps
<1>7. Overflow(Kept(n)) = IF Kept(n) > Capacity - Gap(readPos, writePos)
                          THEN Kept(n) - (Capacity - Gap(readPos, writePos)) ELSE 0
  BY AvailableIsGap DEF Overflow
<1>8. /\ Gap(readPos', writePos') = IF Gap(readPos, writePos) + Kept(n) < Capacity
                                    THEN Gap(readPos, writePos) + Kept(n) ELSE 0
      /\ Gap(readPos, writePos) + Kept(n) < Capacity => readPos' = readPos
  BY <1>1, <1>2, <1>4, <1>5, <1>7, GapAfterWrite
<1>9. Available + Kept(n) < Capacity => Kept(n) < Capacity
  BY <1>1, <1>2, <1>3
<1>10. /\ Available' = IF Available + Kept(n) < Capacity THEN Available + Kept(n) ELSE 0
       /\ Available + Kept(n) < Capacity => readPos' = readPos
  BY <1>8, AvailableIsGap
<1> QED
  BY <1>2, <1>6, <1>9, <1>10

(* The conjuncts of the invariant in the form the steps below use. *)
LEMMA ReadableUnfolded ==
    ASSUME IInv, NEW k \in 0 .. Available - 1
    PROVE  buf[Advance(readPos, k)] = written - Available + k + 1
  BY DEF IInv, ReadableIsNewest

(* write() preserves the invariant. *)
LEMMA WritePreserves ==
    ASSUME IInv, NEW n \in 1 .. MaxBlock, Write(n)
    PROVE  IInv'
<1>1. TypeOK
  BY DEF IInv
<1>2. /\ readPos \in Positions /\ writePos \in Positions
      /\ Capacity \in Nat \ {0} /\ n \in Nat \ {0}
      /\ written \in Nat /\ delivered \in Nat /\ MaxSamples \in Nat
  BY <1>1, RingConstants DEF TypeOK
<1>3. Available \in 0 .. Capacity - 1
  BY <1>1, AvailableRange
<1>4. Kept(n) \in 0 .. Capacity /\ Kept(n) <= n
  BY <1>2 DEF Kept
<1>5. /\ readPos' \in Positions /\ writePos' \in Positions
      /\ Available' = IF Available + Kept(n) < Capacity THEN Available + Kept(n) ELSE 0
      /\ Available + Kept(n) < Capacity => readPos' = readPos /\ Kept(n) = n
  BY <1>1, WriteAvailable
<1>6. /\ written' = written + n /\ written + n <= MaxSamples
      /\ delivered' = delivered /\ out' = out
  BY DEF Write
<1>7. buf' = [i \in Positions |-> IF Distance(i) < Kept(n)
                                  THEN written + (n - Kept(n)) + Distance(i) + 1
                                  ELSE buf[i]]
  BY DEF Write
<1>8. \A i \in Positions : Distance(i) \in 0 .. Capacity - 1
  BY <1>2 DEF Distance, Positions
<1>9. TypeOK'
  <2>1. buf' \in [Positions -> Nat]
    <3>1. ASSUME NEW i \in Positions
          PROVE  (IF Distance(i) < Kept(n)
                  THEN written + (n - Kept(n)) + Distance(i) + 1 ELSE buf[i]) \in Nat
      <4>1. buf[i] \in Nat
        BY <1>1 DEF TypeOK
      <4>2. Distance(i) \in Nat
        BY <1>2, <1>8
      <4> QED
        BY <1>2, <1>4, <4>1, <4>2
    <3> QED
      BY <1>7, <3>1
  <2> QED
    BY <1>1, <1>2, <1>5, <1>6, <2>1 DEF TypeOK, Positions
<1>10. ReadableIsNewest'
  <2>1. SUFFICES ASSUME NEW k \in 0 .. Available' - 1
                 PROVE  buf'[Advance(readPos', k)] = written' - Available' + k + 1
    BY DEF ReadableIsNewest, Advance
  <2>2. /\ Available + Kept(n) < Capacity
        /\ Available' = Available + n
        /\ readPos' = readPos /\ Kept(n) = n
    BY <1>3, <1>4, <1>5
  <2>3. k \in 0 .. Capacity - 1 /\ k \in 0 .. Capacity
    BY <1>2, <1>3, <2>2
  <2>4. Advance(readPos, k) \in Positions
    BY <1>2, <2>3, AdvanceWraps
  <2>5. Distance(Advance(readPos, k)) = IF k < Available THEN k - Available + Capacity
                                                         ELSE k - Available
    BY <1>1, <2>3, SlotDistance
  <2>6. buf'[Advance(readPos, k)] = IF Distance(Advance(readPos, k)) < n
                                    THEN written + Distance(Advance(readPos, k)) + 1
                                    ELSE buf[Advance(readPos, k)]
    BY <1>2, <1>7, <2>2, <2>4
  <2>7. CASE k < Available
    <3>1. buf[Advance(readPos, k)] = written - Available + k + 1
      BY <1>3, <2>3, <2>7, ReadableUnfolded
    <3>2. ~ (Distance(Advance(readPos, k)) < n)
      BY <1>2, <1>3, <2>2, <2>3, <2>5, <2>7
    <3> QED
      BY <1>2, <1>3, <1>6, <2>2, <2>3, <2>6, <3>1, <3>2
  <2>8. CASE k >= Available
    <3>1. Distance(Advance(readPos, k)) = k - Available
      BY <1>3, <2>3, <2>5, <2>8
    <3>2. Distance(Advance(readPos, k)) < n
      BY <1>2, <1>3, <2>1, <2>2, <3>1
    <3> QED
      BY <1>2, <1>3, <1>6, <2>2, <2>3, <2>6, <3>1, <3>2
  <2> QED
    BY <1>3, <2>3, <2>7, <2>8
<1>11. NoReplay'
  <2>1. delivered <= written - Available
    BY DEF IInv, NoReplay
  <2>2. Available' <= Available + n /\ Available' \in Nat
    BY <1>2, <1>3, <1>4, <1>5
  <2>3. delivered \in Int /\ written \in Int /\ n \in Int /\ Available \in Int
    BY <1>2, <1>3
  <2>4. \A d, w, m, a, b \in Int : d <= w - a /\ b <= a + m => d <= (w + m) - b
    OBVIOUS
  <2>5. Available' \in Int
    BY <2>2
  <2>6. Available' <= Available + n
    BY <2>2
  <2>7. delivered <= (written + n) - Available'
    BY <2>1, <2>3, <2>4, <2>5, <2>6
  <2> QED
    BY <1>6, <2>7 DEF NoReplay
<1> QED
  BY <1>9, <1>10, <1>11 DEF IInv

-----------------------------------------------------------------------------
(* read() preserves the invariant and returns the oldest unread samples. *)
LEMMA ReadPreserves ==
    ASSUME IInv, NEW n \in 1 .. MaxBlock, Read(n)
    PROVE  /\ IInv'
           /\ Available' = Available - n
           /\ out' = [k \in 1 .. n |-> written - Available + k]
<1>1. TypeOK
  BY DEF IInv
<1>2. /\ readPos \in Positions /\ writePos \in Positions
      /\ Capacity \in Nat \ {0} /\ n \in Nat \ {0}
      /\ written \in Nat /\ delivered \in Nat /\ MaxSamples \in Nat
      /\ written <= MaxSamples
  BY <1>1, RingConstants DEF TypeOK
<1>3. Available \in 0 .. Capacity - 1 /\ n <= Available
  BY <1>1, AvailableRange DEF Read
<1>4. /\ readPos' = Advance(readPos, n) /\ writePos' = writePos /\ buf' = buf
      /\ written' = written /\ delivered' = buf[Advance(readPos, n - 1)]
      /\ out' = [k \in 1 .. n |-> buf[Advance(readPos, k - 1)]]
  BY DEF Read
<1>5. n \in 0 .. Gap(readPos, writePos) /\ n \in 0 .. Capacity
  BY <1>2, <1>3, AvailableIsGap
<1>6. Available' = Available - n
  BY <1>2, <1>4, <1>5, GapAfterRead, AvailableIsGap
<1>7. readPos' \in Positions
  BY <1>2, <1>4, <1>5, AdvanceWraps
<1>8. ASSUME NEW k \in 1 .. n
      PROVE  buf[Advance(readPos, k - 1)] = written - Available + k
  <2>1. k - 1 \in 0 .. Available - 1
    BY <1>2, <1>3
  <2>2. buf[Advance(readPos, k - 1)] = written - Available + (k - 1) + 1
    BY <2>1, ReadableUnfolded
  <2> QED
    BY <1>2, <1>3, <2>2
<1>9. out' = [k \in 1 .. n |-> written - Available + k]
  BY <1>4, <1>8
<1>10. delivered <= written - Available
  BY DEF IInv, NoReplay
<1>11. delivered' = written - Available + n
  BY <1>2, <1>4, <1>8
<1>12. written - Available \in Nat
  BY <1>2, <1>3, <1>10
<1>13. out' \in Seq(Nat)
  <2>1. \A k \in 1 .. n : written - Available + k \in Nat
    BY <1>12
  <2>2. [k \in 1 .. n |-> written - Available + k] \in [1 .. n -> Nat]
    BY <2>1
  <2> QED
    BY <1>2, <1>9, <2>2, SeqDef
<1>14. TypeOK'
  <2>1. delivered' \in 0 .. MaxSamples
    BY <1>2, <1>3, <1>11, <1>12
  <2> QED
    BY <1>1, <1>4, <1>7, <1>13, <2>1 DEF TypeOK, Positions
<1>15. ReadableIsNewest'
  <2>1. SUFFICES ASSUME NEW k \in 0 .. Available' - 1
                 PROVE  buf[Advance(readPos', k)] = written - Available' + k + 1
    BY <1>4 DEF ReadableIsNewest, Advance
  <2>2. n + k \in 0 .. Available - 1 /\ k \in 0 .. Capacity /\ n + k \in 0 .. Capacity
    BY <1>2, <1>3, <1>6
  <2>3. Advance(readPos', k) = Advance(readPos, n + k)
    <3>1. Advance(readPos, n) = IF readPos + n < Capacity THEN readPos + n
                                                         ELSE readPos + n - Capacity
      BY <1>2, <1>5, AdvanceWraps
    <3>2. Advance(readPos', k) = IF readPos' + k < Capacity THEN readPos' + k
                                                            ELSE readPos' + k - Capacity
      BY <1>7, <2>2, AdvanceWraps
    <3>3. Advance(readPos, n + k) = IF readPos + (n + k) < Capacity
                                    THEN readPos + (n + k) ELSE readPos + (n + k) - Capacity
      BY <1>2, <2>2, AdvanceWraps
    <3>4. readPos' = IF readPos + n < Capacity THEN readPos + n ELSE readPos + n - Capacity
      BY <1>4, <3>1
    <3> QED
      BY <1>2, <2>2, <3>2, <3>3, <3>4 DEF Positions
  <2>4. buf[Advance(readPos, n + k)] = written - Available + (n + k) + 1
    BY <2>2, ReadableUnfolded
  <2> QED
    BY <1>2, <1>3, <1>6, <2>2, <2>3, <2>4
<1>16. NoReplay'
  BY <1>2, <1>3, <1>4, <1>6, <1>11 DEF NoReplay
<1> QED
  BY <1>6, <1>9, <1>14, <1>15, <1>16 DEF IInv

(* clear() preserves the invariant: nothing is readable afterwards. *)
LEMMA ClearPreserves ==
    ASSUME IInv, Clear
    PROVE  IInv' /\ Available' = 0
<1>1. /\ readPos' = 0 /\ writePos' = 0 /\ delivered' = written
      /\ buf' = buf /\ written' = written /\ out' = out
  BY DEF Clear
<1>2. Available' = 0
  BY <1>1 DEF Available
<1>3. TypeOK'
  BY <1>1, RingConstants DEF IInv, TypeOK, Positions
<1>4. ReadableIsNewest'
  BY <1>2 DEF ReadableIsNewest
<1>5. NoReplay'
  BY <1>1, <1>2 DEF NoReplay, IInv, TypeOK
<1> QED
  BY <1>2, <1>3, <1>4, <1>5 DEF IInv

LEMMA InitEstablishes ==
    ASSUME Init
    PROVE  IInv /\ Available = 0
<1>1. Available = 0
  BY DEF Init, Available
<1>2. TypeOK
  <2>1. out \in Seq(Nat)
    BY DEF Init
  <2> QED
    BY <2>1, RingConstants DEF Init, TypeOK, Positions
<1>3. ReadableIsNewest
  BY <1>1 DEF ReadableIsNewest
<1>4. NoReplay
  BY <1>1 DEF Init, NoReplay
<1> QED
  BY <1>1, <1>2, <1>3, <1>4 DEF IInv

LEMMA StutterPreserves ==
    ASSUME IInv, UNCHANGED vars
    PROVE  IInv' /\ Available' = Available
  BY DEF IInv, vars, TypeOK, ReadableIsNewest, NoReplay, Available, Advance, Positions

-----------------------------------------------------------------------------
(* The three invariants together are inductive. *)
THEOREM Inductive == Spec => []IInv
<1>1. Init => IInv
  BY InitEstablishes
<1>2. IInv /\ [Next]_vars => IInv'
  <2> SUFFICES ASSUME IInv, [Next]_vars
               PROVE  IInv'
    OBVIOUS
  <2>1. CASE \E n \in 1 .. MaxBlock : Write(n)
    BY <2>1, WritePreserves
  <2>2. CASE \E n \in 1 .. MaxBlock : Read(n)
    BY <2>2, ReadPreserves
  <2>3. CASE Clear
    BY <2>3, ClearPreserves
  <2>4. CASE UNCHANGED vars
    BY <2>4, StutterPreserves
  <2> QED
    BY <2>1, <2>2, <2>3, <2>4 DEF Next
<1> QED
  BY <1>1, <1>2, PTL DEF Spec

(* Both positions stay inside the buffer, for every capacity and block. *)
THEOREM TypeCorrect == Spec => []TypeOK
<1>1. IInv => TypeOK
  BY DEF IInv
<1> QED
  BY <1>1, Inductive, PTL

(* The readable samples are always the newest ones written, in order. *)
THEOREM ReadableCorrect == Spec => []ReadableIsNewest
<1>1. IInv => ReadableIsNewest
  BY DEF IInv
<1> QED
  BY <1>1, Inductive, PTL

(* No sample is handed out twice, and none after clear() dropped it. *)
THEOREM NeverReplays == Spec => []NoReplay
<1>1. IInv => NoReplay
  BY DEF IInv
<1> QED
  BY <1>1, Inductive, PTL

(* write() may only lose samples from the old end of the stream. *)
LEMMA WriteProduces ==
    ASSUME IInv, NEW n \in 1 .. MaxBlock, Write(n)
    PROVE  Stream!Produce(n)
<1>1. TypeOK /\ written \in Nat /\ Capacity \in Nat \ {0} /\ n \in Nat
  BY RingConstants DEF IInv, TypeOK
<1>2. Available \in 0 .. Capacity - 1 /\ Kept(n) \in 0 .. Capacity /\ Kept(n) <= n
  BY <1>1, AvailableRange DEF Kept
<1>3. Available' = IF Available + Kept(n) < Capacity THEN Available + Kept(n) ELSE 0
  BY <1>1, WriteAvailable
<1>4. written' = written + n /\ written + n <= MaxSamples /\ out' = out
  BY DEF Write
<1>5. ASSUME Available + Kept(n) < Capacity
      PROVE  (written + n) - (Available + Kept(n)) \in written - Available .. written + n
  BY <1>1, <1>2
<1>6. (written + n) - 0 \in written - Available .. written + n
  BY <1>1, <1>2
<1>7. (written - Available)' \in written - Available .. written + n
  BY <1>3, <1>4, <1>5, <1>6
<1> QED
  BY <1>4, <1>7 DEF Stream!Produce

(* The ring implements the lossy stream its consumers rely on: every step   *)
(* maps to a step of SampleStream or leaves its state alone.                *)
THEOREM RingImplementsStream == Spec => ImplementsStream
<1>1. Init => Stream!Init
  <2> SUFFICES ASSUME Init PROVE Stream!Init
    OBVIOUS
  <2>1. Available = 0
    BY InitEstablishes
  <2> QED
    BY <2>1 DEF Init, Stream!Init
<1>2. IInv /\ [Next]_vars => [Stream!Next]_Stream!vars
  <2> SUFFICES ASSUME IInv, [Next]_vars
               PROVE  [Stream!Next]_Stream!vars
    OBVIOUS
  <2>0. written \in Nat /\ Available \in Nat
    BY AvailableRange, RingConstants DEF IInv, TypeOK
  <2>1. CASE \E n \in 1 .. MaxBlock : Write(n)
    BY <2>1, WriteProduces DEF Stream!Next
  <2>2. ASSUME NEW n \in 1 .. MaxBlock, Read(n)
        PROVE  Stream!Next
    <3>1. /\ Available' = Available - n
          /\ out' = [k \in 1 .. n |-> written - Available + k]
      BY <2>2, ReadPreserves
    <3>2. written' = written /\ Available >= n
      BY <2>2 DEF Read
    <3>3. (written - Available) + n <= written
      BY <2>0, <3>2
    <3>4. written - (Available - n) = (written - Available) + n
      BY <2>0
    <3>5. (written - Available)' = (written - Available) + n
      BY <3>1, <3>2, <3>4
    <3>6. Stream!Consume(n)
      BY <3>1, <3>2, <3>3, <3>5 DEF Stream!Consume
    <3> QED
      BY <3>6 DEF Stream!Next
  <2>3. CASE Clear
    <3>1. Available' = 0 /\ written' = written /\ out' = out
      BY <2>3, ClearPreserves DEF Clear
    <3>2. written - 0 = written
      BY <2>0
    <3>3. (written - Available)' = written
      BY <3>1, <3>2
    <3> QED
      BY <3>1, <3>3 DEF Stream!Next, Stream!Discard
  <2>4. CASE UNCHANGED vars
    <3>1. Available' = Available
      BY <2>4, StutterPreserves
    <3> QED
      BY <2>4, <3>1 DEF vars, Stream!vars
  <2> QED
    BY <2>1, <2>2, <2>3, <2>4 DEF Next
<1> QED
  BY <1>1, <1>2, Inductive, PTL DEF Spec, ImplementsStream, Stream!Spec
=============================================================================
