------------------------- MODULE SoundBlasterProofs -------------------------
(***************************************************************************)
(* Proofs about the Sound Blaster's DMA playback.  The handlers are        *)
(* functions from a card to a card that call each other, so there is a     *)
(* lemma per handler: it keeps a card well formed, and it keeps an audible *)
(* card audible, which is the part of the invariant that only the SB16     *)
(* has.                                                                    *)
(***************************************************************************)
EXTENDS SoundBlaster, InductionLemmas, SequenceTheorems

Card == [ mode : Modes, active : BOOLEAN, autoinit : BOOLEAN, left : 0..(Word - 1),
          singlesize : {0} \cup Lengths, autosize : {0} \cup Lengths,
          speaker : BOOLEAN, pending : BOOLEAN,
          min : {0} \cup Minima, freq : Minima,
          suppress : Seq(Nat), process : Seq(Nat),
          irqEvents : 0..MaxEvents, count : 1..CountWord, base : Lengths,
          chauto : BOOLEAN, is_masked : BOOLEAN, callback : BOOLEAN ]

(* A card in mode "dma" has a transfer format.                             *)
Formed(c) == c \in Card /\ (c.mode = "dma" => c.active)

(* The bytes left are at most those of a cycle, and a short transfer's     *)
(* event asks for no more than the rate gives in 3 ms.                     *)
Bounded(c) == c.left <= LongestCycle /\ c.process \in Seq(0..c.min)

(* The SB16: it is audible, so no transfer is discarded; a halted transfer *)
(* has no event; and the counts are bounded unless the guest lowers the    *)
(* rate while an event waits.                                              *)
Audible(c) == /\ c.speaker /\ c.suppress = <<>>
              /\ c.mode = "pause" => c.process = <<>>
              /\ ~LowersRate => Bounded(c)

Inv == /\ sb16 \in BOOLEAN /\ steps \in 0..MaxSteps
       /\ Formed(sb)
       /\ sb16 => Audible(sb)

LEMMA Numbers ==
  /\ MinSize \in Nat \ {0} /\ Slice \in Nat \ {0}
  /\ MaxEvents \in Nat \ {0} /\ MaxSteps \in Nat \ {0} /\ Word \in Nat \ {0}
  /\ CountWord \in Nat \ {0} /\ DefaultMin \in Minima /\ LowersRate \in BOOLEAN
  /\ \A n \in {0} \cup Minima : n \in Nat
  /\ \A n \in Lengths : n \in Nat \ {0} /\ n < Word /\ n < CountWord
<1>1. \A n \in Lengths : n \in Nat \ {0} /\ n < Word /\ n < CountWord
  BY ConstantsAssumption
<1>2. PICK n \in Lengths : TRUE
  BY ConstantsAssumption
<1>3. Word \in Nat \ {0} /\ CountWord \in Nat \ {0}
  BY <1>1, <1>2, ConstantsAssumption
<1> QED
  BY <1>1, <1>3, ConstantsAssumption

(* The numbers of a card.                                                  *)
LEMMA CardNumbers ==
  ASSUME NEW c \in Card
  PROVE  c.left \in Nat /\ c.left \in 0..(Word - 1) /\ c.min \in Nat /\ c.count \in Nat
<1>1. c.left \in 0..(Word - 1) /\ c.min \in {0} \cup Minima /\ c.count \in 1..CountWord
  BY DEF Card
<1>2. c.min \in Nat
  BY <1>1, Numbers, Zenon
<1>3. c.left \in Nat /\ c.count \in Nat
  BY <1>1, Numbers
<1> QED
  BY <1>1, <1>2, <1>3

(* The library's minimum of a non-empty set of numbers.                    *)
LEMMA MinOf ==
  ASSUME NEW S \in SUBSET Nat, S # {}
  PROVE  Min(S) \in S /\ \A n \in S : Min(S) <= n
  BY LeastNat DEF Min

LEMMA MinOfTwo ==
  ASSUME NEW a \in Nat, NEW b \in Nat
  PROVE  Min({a, b}) \in {a, b} /\ Min({a, b}) <= a /\ Min({a, b}) <= b
<1> DEFINE S == {a, b}
<1>1. S \in SUBSET Nat /\ S # {} /\ a \in S /\ b \in S
  OBVIOUS
<1> HIDE DEF S
<1>2. Min(S) \in S /\ \A n \in S : Min(S) <= n
  BY <1>1, MinOf
<1> QED
  BY <1>1, <1>2 DEF S

(* Lengths are bounded by the width of the counter, so there is a longest. *)
LEMMA LongestIsLongest ==
  LongestCycle \in Lengths /\ \A n \in Lengths : n <= LongestCycle
<1> DEFINE T == {Word - n : n \in Lengths}
<1>1. T \in SUBSET Nat /\ T # {}
  <2>1. T # {}
    BY ConstantsAssumption
  <2>2. ASSUME NEW n \in Lengths PROVE Word - n \in Nat
    BY Numbers
  <2> QED
    BY <2>1, <2>2
<1>2. PICK m \in T : \A k \in T : m <= k
  BY <1>1, LeastNat
<1>3. PICK x \in Lengths : m = Word - x
  BY <1>2
<1>4. \A n \in Lengths : n <= x
  <2> TAKE n \in Lengths
  <2>1. Word - n \in T
    OBVIOUS
  <2>2. m <= Word - n
    BY <1>2, <2>1
  <2> HIDE DEF T
  <2> QED
    BY <1>3, <2>2, ConstantsAssumption
<1>5. \A n \in Lengths : x >= n
  BY <1>4, ConstantsAssumption
<1> QED
  BY <1>5, ConstantsAssumption DEF LongestCycle, Max

-----------------------------------------------------------------------------
(* The DMA channel.                                                        *)
LEMMA WordsDoneType ==
  ASSUME NEW c \in Card, NEW want \in Nat
  PROVE  WordsDone(c, want) \in 0..want
<1>1. c.count \in Nat
  BY Numbers DEF Card
<1> QED
  BY <1>1, MinOfTwo DEF WordsDone

LEMMA ReadOrWriteKeeps ==
  ASSUME NEW c \in Card, NEW want \in Nat
  PROVE  \E n \in 1..CountWord, m \in BOOLEAN :
            ReadOrWrite(c, want) = [c EXCEPT !.count = n, !.is_masked = m]
<1>1. c.count \in 1..CountWord /\ c.base \in Nat \ {0} /\ c.base < CountWord /\ c.is_masked \in BOOLEAN
      /\ c.chauto \in BOOLEAN
  BY Numbers DEF Card
<1>2. CASE want < c.count
  <2>1. ReadOrWrite(c, want) = [c EXCEPT !.count = c.count - want]
    BY <1>1, <1>2 DEF ReadOrWrite
  <2>2. [c EXCEPT !.count = c.count - want] = [c EXCEPT !.count = c.count - want, !.is_masked = c.is_masked]
    BY DEF Card
  <2>3. c.count - want \in 1..CountWord
    BY <1>1, <1>2, Numbers
  <2> QED
    BY <1>1, <2>1, <2>2, <2>3
<1>3. CASE want >= c.count /\ c.chauto
  <2> DEFINE n == c.base - ((want - c.count) % c.base)
  <2>1. ReadOrWrite(c, want) = [c EXCEPT !.count = n]
    BY <1>1, <1>3 DEF ReadOrWrite
  <2>2. [c EXCEPT !.count = n] = [c EXCEPT !.count = n, !.is_masked = c.is_masked]
    BY DEF Card
  <2>3. n \in 1..CountWord
    <3>1. (want - c.count) % c.base \in 0..c.base - 1
      BY <1>1, <1>3
    <3> QED
      BY <1>1, <3>1, Numbers
  <2> QED
    BY <1>1, <2>1, <2>2, <2>3
<1>4. CASE want >= c.count /\ ~c.chauto
  <2>1. ReadOrWrite(c, want) = [c EXCEPT !.count = CountWord, !.is_masked = TRUE]
    BY <1>1, <1>4 DEF ReadOrWrite
  <2>2. CountWord \in 1..CountWord /\ TRUE \in BOOLEAN
    BY Numbers
  <2> QED
    BY <2>1, <2>2, Zenon
<1>5. want < c.count \/ want >= c.count
  BY <1>1, Numbers
<1> QED
  BY <1>2, <1>3, <1>4, <1>5

-----------------------------------------------------------------------------
(* PlayDMATransfer.                                                        *)
LEMMA LengthsAreShort ==
  ASSUME NEW n \in {0} \cup Lengths
  PROVE  n \in 0..(Word - 1) /\ n <= LongestCycle
  BY Numbers, LongestIsLongest

LEMMA EndOfCycleKeeps ==
  ASSUME NEW c, Formed(c)
  PROVE  Formed(EndOfCyclePlay(c))
<1>1. c \in Card /\ c.autoinit \in BOOLEAN /\ c.singlesize \in {0} \cup Lengths
      /\ c.autosize \in {0} \cup Lengths /\ c.active \in BOOLEAN /\ c.mode \in Modes
  BY DEF Formed, Card
<1> DEFINE d == SB_RaiseIRQ([c EXCEPT !.process = <<>>])
<1>2. d = [c EXCEPT !.process = <<>>, !.pending = TRUE]
  BY <1>1 DEF SB_RaiseIRQ, Card
<1>3. d \in Card /\ d.mode = c.mode /\ d.active = c.active
  <2>1. <<>> \in Seq(Nat)
    OBVIOUS
  <2> QED
    BY <1>1, <1>2, <2>1 DEF Card
<1> HIDE DEF d
<1>4. CASE ~c.autoinit /\ c.singlesize = 0
  <2>1. EndOfCyclePlay(c) = [d EXCEPT !.mode = "none", !.active = FALSE]
    BY <1>4 DEF EndOfCyclePlay, d
  <2> QED
    BY <1>3, <2>1 DEF Formed, Card, Modes
<1>5. CASE ~c.autoinit /\ c.singlesize # 0
  <2>1. c.singlesize > 0
    BY <1>1, <1>5, Numbers
  <2>2. EndOfCyclePlay(c) = [d EXCEPT !.left = c.singlesize, !.singlesize = 0]
    BY <1>5, <2>1 DEF EndOfCyclePlay, d
  <2>3. c.singlesize \in 0..(Word - 1)
    BY <1>1, LengthsAreShort
  <2>4. 0 \in {0} \cup Lengths
    OBVIOUS
  <2>5. EndOfCyclePlay(c) \in Card
    BY <1>3, <2>2, <2>3, <2>4 DEF Card
  <2>6. EndOfCyclePlay(c).mode = c.mode /\ EndOfCyclePlay(c).active = c.active
    BY <1>3, <2>2 DEF Card
  <2> QED
    BY <2>5, <2>6 DEF Formed
<1>6. CASE c.autoinit
  <2>1. EndOfCyclePlay(c) = [d EXCEPT !.left = c.autosize,
                                      !.mode = IF c.autosize = 0 THEN "none" ELSE @]
    BY <1>6 DEF EndOfCyclePlay, d
  <2>2. c.autosize \in 0..(Word - 1)
    BY <1>1, LengthsAreShort
  <2> DEFINE m == IF c.autosize = 0 THEN "none" ELSE d.mode
  <2>3. EndOfCyclePlay(c) = [d EXCEPT !.left = c.autosize, !.mode = m]
    BY <1>3, <2>1
  <2>4. m \in Modes /\ m \in {"none", c.mode}
    BY <1>1, <1>3 DEF Modes
  <2> HIDE DEF m
  <2>5. EndOfCyclePlay(c) \in Card
    BY <1>3, <2>2, <2>3, <2>4 DEF Card
  <2>6. EndOfCyclePlay(c).mode = m /\ EndOfCyclePlay(c).active = c.active
    BY <1>3, <2>3 DEF Card
  <2> QED
    BY <2>4, <2>5, <2>6 DEF Formed
<1> QED
  BY <1>1, <1>4, <1>5, <1>6

(* A card without events is audible if the rest is right.                  *)
LEMMA NoEvents ==
  ASSUME NEW c, c.speaker, c.suppress = <<>>, c.process = <<>>,
         ~LowersRate => c.left <= LongestCycle
  PROVE  Audible(c)
<1>1. <<>> \in Seq(0..c.min)
  OBVIOUS
<1> QED
  BY <1>1 DEF Audible, Bounded

LEMMA EndOfCycleAudible ==
  ASSUME NEW c, Formed(c), Audible(c)
  PROVE  Audible(EndOfCyclePlay(c))
<1>1. c \in Card /\ c.autoinit \in BOOLEAN /\ c.singlesize \in {0} \cup Lengths
      /\ c.autosize \in {0} \cup Lengths
  BY DEF Formed, Card
<1> DEFINE d == SB_RaiseIRQ([c EXCEPT !.process = <<>>])
<1>2. d = [c EXCEPT !.process = <<>>, !.pending = TRUE]
  BY <1>1 DEF SB_RaiseIRQ, Card
<1>3. /\ d \in Card /\ d.speaker /\ d.suppress = <<>> /\ d.process = <<>>
      /\ ~LowersRate => d.left <= LongestCycle
  <2>1. <<>> \in Seq(Nat)
    OBVIOUS
  <2>2. d \in Card /\ d.process = <<>>
    BY <1>1, <1>2, <2>1 DEF Card
  <2>3. d.speaker = c.speaker /\ d.suppress = c.suppress /\ d.left = c.left
    BY <1>1, <1>2 DEF Card
  <2> QED
    BY <2>2, <2>3, Zenon DEF Audible, Bounded
<1> HIDE DEF d
<1>4. CASE ~c.autoinit /\ c.singlesize = 0
  <2>1. EndOfCyclePlay(c) = [d EXCEPT !.mode = "none", !.active = FALSE]
    BY <1>4 DEF EndOfCyclePlay, d
  <2> QED
    BY <1>3, <2>1, NoEvents DEF Card
<1>5. CASE ~c.autoinit /\ c.singlesize # 0
  <2>1. c.singlesize > 0
    BY <1>1, <1>5, Numbers
  <2>2. EndOfCyclePlay(c) = [d EXCEPT !.left = c.singlesize, !.singlesize = 0]
    BY <1>5, <2>1 DEF EndOfCyclePlay, d
  <2>3. c.singlesize <= LongestCycle
    BY <1>1, LengthsAreShort
  <2> QED
    BY <1>3, <2>2, <2>3, NoEvents DEF Card
<1>6. CASE c.autoinit
  <2>1. EndOfCyclePlay(c) = [d EXCEPT !.left = c.autosize,
                                      !.mode = IF c.autosize = 0 THEN "none" ELSE @]
    BY <1>6 DEF EndOfCyclePlay, d
  <2>2. c.autosize <= LongestCycle
    BY <1>1, LengthsAreShort
  <2> QED
    BY <1>3, <2>1, <2>2, NoEvents DEF Card
<1> QED
  BY <1>1, <1>4, <1>5, <1>6

(* The card after the read of PlayDMATransfer, before the end of a cycle.  *)
AfterRead(c, toRead) ==
  [ReadOrWrite(c, toRead) EXCEPT
     !.mode = IF BecomesMasked(c, toRead) /\ @ = "dma" THEN "masked" ELSE @,
     !.left = (@ - WordsDone(c, toRead)) % Word]

LEMMA PlayIs ==
  ASSUME NEW c, NEW requested
  PROVE  PlayDMATransfer(c, requested) =
           LET d == AfterRead(c, BytesToRead(c, requested))
           IN  IF ~c.active THEN [c EXCEPT !.mode = "none"]
               ELSE IF d.left = 0 THEN EndOfCyclePlay(d) ELSE d
  BY Zenon DEF PlayDMATransfer, AfterRead

(* What a read leaves alone, and what it does to the rest.                 *)
IsAfterRead(c, toRead, d) ==
  /\ d \in Card
  /\ d.mode \in {c.mode, "masked"}
  /\ d.left = (c.left - WordsDone(c, toRead)) % Word
  /\ d.active = c.active /\ d.autoinit = c.autoinit /\ d.autosize = c.autosize
  /\ d.singlesize = c.singlesize /\ d.speaker = c.speaker /\ d.suppress = c.suppress
  /\ d.process = c.process /\ d.pending = c.pending /\ d.callback = c.callback
  /\ d.min = c.min

LEMMA AfterReadIs ==
  ASSUME NEW c \in Card, NEW toRead \in Nat
  PROVE  IsAfterRead(c, toRead, AfterRead(c, toRead))
<1>1. PICK n \in 1..CountWord, m \in BOOLEAN :
         ReadOrWrite(c, toRead) = [c EXCEPT !.count = n, !.is_masked = m]
  BY ReadOrWriteKeeps
<1> DEFINE r == ReadOrWrite(c, toRead)
           B == BecomesMasked(c, toRead)
           w == WordsDone(c, toRead)
           l == (c.left - w) % Word
<1>2. l \in 0..(Word - 1)
  <2>1. w \in 0..toRead /\ c.left \in 0..(Word - 1)
    BY WordsDoneType DEF Card
  <2> HIDE DEF w
  <2> QED
    BY <2>1, Numbers
<1>3. AfterRead(c, toRead) = [r EXCEPT !.mode = IF B /\ @ = "dma" THEN "masked" ELSE @,
                                      !.left = (@ - w) % Word]
  BY DEF AfterRead
<1> HIDE DEF B, w
<1>4. r \in Card /\ r.mode = c.mode /\ r.left = c.left
  BY <1>1 DEF Card
<1>5. r.active = c.active /\ r.autoinit = c.autoinit /\ r.autosize = c.autosize
      /\ r.singlesize = c.singlesize
  BY <1>1 DEF Card
<1>6. r.speaker = c.speaker /\ r.suppress = c.suppress
      /\ r.process = c.process /\ r.pending = c.pending /\ r.callback = c.callback
      /\ r.min = c.min
  BY <1>1 DEF Card
<1> HIDE DEF r
<1> DEFINE k == IF B /\ c.mode = "dma" THEN "masked" ELSE c.mode
           d == AfterRead(c, toRead)
<1>7. d = [r EXCEPT !.mode = k, !.left = l]
  BY <1>3, <1>4
<1>8. k \in {c.mode, "masked"} /\ k \in Modes
  BY DEF Card, Modes
<1>9. l = (c.left - WordsDone(c, toRead)) % Word
  BY DEF w
<1> HIDE DEF k, l, d
<1>10. d \in Card
  BY <1>2, <1>4, <1>7, <1>8 DEF Card
<1>11. d.mode = k /\ d.left = l
  BY <1>4, <1>7 DEF Card
<1>12. d.active = c.active /\ d.autoinit = c.autoinit /\ d.autosize = c.autosize
       /\ d.singlesize = c.singlesize
  BY <1>4, <1>5, <1>7 DEF Card
<1>13. d.speaker = c.speaker /\ d.suppress = c.suppress
       /\ d.process = c.process /\ d.pending = c.pending /\ d.callback = c.callback
       /\ d.min = c.min
  BY <1>4, <1>6, <1>7 DEF Card
<1> QED
  BY <1>8, <1>9, <1>10, <1>11, <1>12, <1>13, Zenon DEF IsAfterRead, d

LEMMA BytesToReadType ==
  ASSUME NEW c \in Card, NEW requested \in Nat
  PROVE  /\ BytesToRead(c, requested) \in Nat
         /\ requested <= c.left \/ requested <= c.min => BytesToRead(c, requested) <= c.left
<1>1. c.left \in Nat /\ c.min \in Nat
  BY CardNumbers
<1>2. c.autoinit \in BOOLEAN
  BY DEF Card
<1> QED
  BY <1>1, <1>2 DEF BytesToRead

LEMMA PlayKeeps ==
  ASSUME NEW c, Formed(c), NEW requested \in Nat
  PROVE  Formed(PlayDMATransfer(c, requested))
<1> DEFINE d == AfterRead(c, BytesToRead(c, requested))
<1>1. c \in Card /\ IsAfterRead(c, BytesToRead(c, requested), d)
  BY BytesToReadType, AfterReadIs DEF Formed
<1>2. PlayDMATransfer(c, requested) = IF ~c.active THEN [c EXCEPT !.mode = "none"]
                                      ELSE IF d.left = 0 THEN EndOfCyclePlay(d) ELSE d
  BY PlayIs
<1> HIDE DEF d
<1>3. Formed(d)
  BY <1>1 DEF Formed, IsAfterRead
<1>4. Formed(EndOfCyclePlay(d))
  BY <1>3, EndOfCycleKeeps
<1>5. Formed([c EXCEPT !.mode = "none"])
  BY <1>1 DEF Formed, Card, Modes
<1> QED
  BY <1>2, <1>3, <1>4, <1>5

LEMMA PlayAudible ==
  ASSUME NEW c, Formed(c), Audible(c), NEW requested \in Nat,
         ~LowersRate => requested <= c.left \/ requested <= c.min
  PROVE  Audible(PlayDMATransfer(c, requested))
<1> DEFINE n == BytesToRead(c, requested)
           d == AfterRead(c, n)
           w == WordsDone(c, n)
<1>1. c \in Card /\ n \in Nat /\ (~LowersRate => n <= c.left)
  BY BytesToReadType DEF Formed
<1>2. IsAfterRead(c, n, d) /\ w \in 0..n
  BY <1>1, AfterReadIs, WordsDoneType
<1>3. PlayDMATransfer(c, requested) = IF ~c.active THEN [c EXCEPT !.mode = "none"]
                                      ELSE IF d.left = 0 THEN EndOfCyclePlay(d) ELSE d
  BY PlayIs
<1>4. d.left = (c.left - w) % Word
  BY <1>2 DEF IsAfterRead
<1> HIDE DEF n, d, w
<1>5. ASSUME ~LowersRate PROVE d.left <= c.left /\ c.left \in Nat /\ d.left \in Nat
  <2>1. c.left \in 0..(Word - 1) /\ Word \in Nat \ {0}
    BY <1>1, Numbers DEF Card
  <2>2. (c.left - w) % Word = c.left - w
    BY <1>1, <1>2, <1>5, <2>1
  <2> QED
    BY <1>1, <1>2, <1>4, <1>5, <2>1, <2>2
<1>6. Formed(d)
  BY <1>2 DEF IsAfterRead, Formed
<1>7. Audible(d)
  <2>1. LongestCycle \in Nat
    BY LongestIsLongest, Numbers
  <2>2. ~LowersRate => d.left <= LongestCycle
    BY <1>5, <2>1 DEF Audible, Bounded
  <2>3. d.mode = "pause" => c.mode = "pause"
    BY <1>2 DEF IsAfterRead
  <2> QED
    BY <1>2, <2>2, <2>3 DEF IsAfterRead, Audible, Bounded
<1>8. Audible(EndOfCyclePlay(d))
  BY <1>6, <1>7, EndOfCycleAudible
<1>9. Audible([c EXCEPT !.mode = "none"])
  BY <1>1 DEF Audible, Bounded, Card
<1> QED
  BY <1>3, <1>7, <1>8, <1>9

-----------------------------------------------------------------------------
(* The DMA callback.                                                       *)
LEMMA CatchUpSizeType ==
  ASSUME NEW c \in Card, NEW elapsed \in Nat
  PROVE  /\ CatchUpSize(c, elapsed) \in 0..c.min
         /\ CatchUpSize(c, elapsed) > 0 =>
               /\ CatchUpSize(c, elapsed) + MinSize <= c.left
               /\ c.autoinit \/ c.left > c.min
<1>1. c.left \in Nat /\ c.min \in Nat /\ MinSize \in Nat /\ c.autoinit \in BOOLEAN
  <2>1. c.autoinit \in BOOLEAN
    BY DEF Card
  <2> QED
    BY <2>1, CardNumbers, Numbers
<1>2. CASE c.left <= MinSize \/ (~c.autoinit /\ c.left <= c.min)
  <2>1. CatchUpSize(c, elapsed) = 0
    BY <1>2 DEF CatchUpSize
  <2> QED
    BY <1>1, <2>1
<1>3. CASE ~(c.left <= MinSize \/ (~c.autoinit /\ c.left <= c.min))
  <2> DEFINE S == {elapsed, c.min, c.left - MinSize}
  <2>1. S \in SUBSET Nat /\ S # {} /\ c.min \in S /\ c.left - MinSize \in S
    BY <1>1, <1>3
  <2>2. CatchUpSize(c, elapsed) = Min(S)
    BY <1>3 DEF CatchUpSize
  <2> HIDE DEF S
  <2>3. Min(S) \in S /\ \A n \in S : Min(S) <= n
    BY <2>1, MinOf
  <2>4. Min(S) \in Nat /\ Min(S) <= c.min /\ Min(S) <= c.left - MinSize
    BY <2>1, <2>3
  <2> QED
    BY <1>1, <1>3, <2>2, <2>4
<1> QED
  BY <1>2, <1>3

(* The card that OnMasked stops.                                           *)
CaughtUp(c, elapsed) ==
  IF CatchUpSize(c, elapsed) > 0 THEN PlayDMATransfer(c, CatchUpSize(c, elapsed)) ELSE c

LEMMA OnMaskedIs ==
  ASSUME NEW c, NEW elapsed
  PROVE  OnMasked(c, elapsed) = IF ~c.callback \/ c.mode # "dma" THEN c
                                ELSE [CaughtUp(c, elapsed) EXCEPT !.mode = "masked"]
  BY DEF OnMasked, CaughtUp

LEMMA OnMaskedKeeps ==
  ASSUME NEW c, Formed(c), NEW elapsed \in Nat
  PROVE  Formed(OnMasked(c, elapsed))
<1>1. CatchUpSize(c, elapsed) \in Nat
  BY CatchUpSizeType, Numbers DEF Formed
<1>2. Formed(CaughtUp(c, elapsed))
  BY <1>1, PlayKeeps DEF CaughtUp
<1> DEFINE d == CaughtUp(c, elapsed)
<1> HIDE DEF d
<1>3. Formed([d EXCEPT !.mode = "masked"])
  BY <1>2, ZenonT(30) DEF Formed, Card, Modes, d
<1> QED
  BY <1>3, OnMaskedIs DEF d

LEMMA OnMaskedAudible ==
  ASSUME NEW c, Formed(c), Audible(c), NEW elapsed \in Nat
  PROVE  Audible(OnMasked(c, elapsed))
<1>1. CatchUpSize(c, elapsed) \in Nat /\ CatchUpSize(c, elapsed) <= c.min
  BY CatchUpSizeType, Numbers DEF Formed
<1> DEFINE d == CaughtUp(c, elapsed)
<1>2. Formed(d) /\ Audible(d)
  BY <1>1, PlayKeeps, PlayAudible DEF CaughtUp
<1> HIDE DEF d
<1>3. Audible([d EXCEPT !.mode = "masked"])
  BY <1>2 DEF Formed, Audible, Bounded, Card
<1> QED
  BY <1>3, OnMaskedIs DEF d

(* A catch-up ends before the cycle does, so it raises no IRQ.             *)
LEMMA CatchUpIsSilent ==
  ASSUME NEW c, Formed(c), NEW elapsed \in Nat
  PROVE  OnMasked(c, elapsed).pending = c.pending
<1> DEFINE s == CatchUpSize(c, elapsed)
           n == BytesToRead(c, s)
           w == WordsDone(c, n)
           d == AfterRead(c, n)
<1>1. c \in Card /\ c.left \in 0..(Word - 1) /\ c.autoinit \in BOOLEAN
      /\ Word \in Nat \ {0} /\ c.min \in Nat /\ MinSize \in Nat \ {0}
  BY Numbers DEF Formed, Card
<1>2. s \in 0..c.min /\ (s > 0 => s + MinSize <= c.left /\ (c.autoinit \/ c.left > c.min))
  BY <1>1, CatchUpSizeType
<1>3. ASSUME s > 0 PROVE PlayDMATransfer(c, s) \in Card /\ PlayDMATransfer(c, s).pending = c.pending
  <2> HIDE DEF s
  <2>1. n = s
    BY <1>1, <1>2, <1>3 DEF BytesToRead
  <2>2. w \in 0..s /\ IsAfterRead(c, n, d)
    BY <1>1, <1>2, <2>1, WordsDoneType, AfterReadIs
  <2>3. d.left = (c.left - w) % Word
    BY <2>2 DEF IsAfterRead
  <2>4. PlayDMATransfer(c, s) = IF ~c.active THEN [c EXCEPT !.mode = "none"]
                                ELSE IF d.left = 0 THEN EndOfCyclePlay(d) ELSE d
    BY PlayIs
  <2> HIDE DEF n, w, d
  <2>5. d.left # 0
    <3>1. (c.left - w) % Word = c.left - w /\ c.left - w > 0
      BY <1>1, <1>2, <1>3, <2>2
    <3> QED
      BY <2>3, <3>1
  <2>6. d \in Card /\ d.pending = c.pending
    BY <2>2 DEF IsAfterRead
  <2>7. [c EXCEPT !.mode = "none"] \in Card /\ [c EXCEPT !.mode = "none"].pending = c.pending
    BY <1>1 DEF Card, Modes
  <2> QED
    BY <2>4, <2>5, <2>6, <2>7
<1>4. CaughtUp(c, elapsed) \in Card /\ CaughtUp(c, elapsed).pending = c.pending
  BY <1>1, <1>3 DEF CaughtUp
<1> DEFINE e == CaughtUp(c, elapsed)
<1> HIDE DEF e
<1>5. [e EXCEPT !.mode = "masked"].pending = c.pending
  BY <1>4 DEF Card, e
<1> QED
  BY <1>5, OnMaskedIs DEF e

LEMMA AppendType ==
  ASSUME NEW S, NEW q \in Seq(S), NEW n \in S
  PROVE  Append(q, n) \in Seq(S)
  OBVIOUS

LEMMA FlushKeeps ==
  ASSUME NEW c, Formed(c)
  PROVE  Formed(FlushRemainingDMATransfer(c))
<1>1. c \in Card /\ c.left \in Nat /\ c.speaker \in BOOLEAN /\ c.min \in Nat
      /\ c.suppress \in Seq(Nat) /\ c.process \in Seq(Nat)
  <2>1. c \in Card
    BY DEF Formed
  <2>2. c.speaker \in BOOLEAN /\ c.suppress \in Seq(Nat) /\ c.process \in Seq(Nat)
    BY <2>1 DEF Card
  <2> QED
    BY <2>1, <2>2, CardNumbers
<1>2. CASE c.left = 0
  BY <1>2 DEF FlushRemainingDMATransfer
<1>3. CASE c.left > 0 /\ ~c.speaker
  <2> DEFINE q == Append(c.suppress, Min({c.min, c.left}))
  <2>1. q \in Seq(Nat)
    BY <1>1, MinOfTwo, AppendType
  <2>2. FlushRemainingDMATransfer(c) = [c EXCEPT !.suppress = q]
    BY <1>1, <1>3 DEF FlushRemainingDMATransfer
  <2> HIDE DEF q
  <2> QED
    BY <1>1, <2>1, <2>2 DEF Formed, Card
<1>4. CASE c.left > 0 /\ c.speaker /\ c.left < c.min
  <2> DEFINE q == Append(c.process, c.left)
  <2>1. q \in Seq(Nat)
    BY <1>1, AppendType
  <2>2. FlushRemainingDMATransfer(c) = [c EXCEPT !.process = q]
    BY <1>1, <1>4 DEF FlushRemainingDMATransfer
  <2> HIDE DEF q
  <2> QED
    BY <1>1, <2>1, <2>2 DEF Formed, Card
<1>5. CASE c.left > 0 /\ c.speaker /\ ~(c.left < c.min)
  <2>1. FlushRemainingDMATransfer(c) = c
    BY <1>1, <1>5 DEF FlushRemainingDMATransfer
  <2> QED
    BY <2>1
<1> QED
  BY <1>1, <1>2, <1>3, <1>4, <1>5

LEMMA FlushAudible ==
  ASSUME NEW c, Formed(c), Audible(c), c.mode # "pause"
  PROVE  Audible(FlushRemainingDMATransfer(c))
<1>1. c \in Card /\ c.left \in Nat /\ c.speaker /\ c.min \in Nat
  BY CardNumbers DEF Formed, Audible
<1>2. CASE c.left = 0
  BY <1>2 DEF FlushRemainingDMATransfer
<1>3. CASE c.left > 0 /\ c.left < c.min
  <2> DEFINE q == Append(c.process, c.left)
  <2>1. FlushRemainingDMATransfer(c) = [c EXCEPT !.process = q]
    BY <1>1, <1>3 DEF FlushRemainingDMATransfer
  <2>2. ~LowersRate => q \in Seq(0..c.min)
    <3>1. c.left \in 0..c.min
      BY <1>1, <1>3
    <3> QED
      BY <3>1, AppendType DEF Audible, Bounded
  <2> HIDE DEF q
  <2> QED
    BY <1>1, <2>1, <2>2 DEF Audible, Bounded, Card
<1>4. CASE c.left > 0 /\ ~(c.left < c.min)
  <2>1. FlushRemainingDMATransfer(c) = c
    BY <1>1, <1>4 DEF FlushRemainingDMATransfer
  <2> QED
    BY <2>1
<1> QED
  BY <1>1, <1>2, <1>3, <1>4

LEMMA OnUnmaskedKeeps ==
  ASSUME NEW c, Formed(c)
  PROVE  Formed(OnUnmasked(c))
<1> DEFINE d == [c EXCEPT !.mode = "dma"]
<1>1. OnUnmasked(c) = IF c.callback /\ c.mode = "masked" /\ c.active
                      THEN FlushRemainingDMATransfer(d) ELSE c
  BY DEF OnUnmasked
<1>2. c.active => Formed(d)
  BY DEF Formed, Card, Modes
<1> HIDE DEF d
<1>3. c.active => Formed(FlushRemainingDMATransfer(d))
  BY <1>2, FlushKeeps
<1> QED
  BY <1>1, <1>3

LEMMA OnUnmaskedAudible ==
  ASSUME NEW c, Formed(c), Audible(c)
  PROVE  Audible(OnUnmasked(c))
<1> DEFINE d == [c EXCEPT !.mode = "dma"]
<1>1. OnUnmasked(c) = IF c.callback /\ c.mode = "masked" /\ c.active
                      THEN FlushRemainingDMATransfer(d) ELSE c
  BY DEF OnUnmasked
<1>2. c.active => Formed(d) /\ Audible(d) /\ d.mode # "pause"
  <2>1. c.active => Formed(d)
    BY DEF Formed, Card, Modes
  <2>2. Audible(d) /\ d.mode # "pause"
    BY DEF Formed, Audible, Bounded, Card
  <2> QED
    BY <2>1, <2>2
<1> HIDE DEF d
<1>3. c.active => Audible(FlushRemainingDMATransfer(d))
  BY <1>2, FlushAudible
<1> QED
  BY <1>1, <1>3

LEMMA RegisterKeeps ==
  ASSUME NEW c, Formed(c)
  PROVE  /\ Formed(RegisterCallback(c))
         /\ Audible(c) => Audible(RegisterCallback(c))
<1> DEFINE d == [c EXCEPT !.callback = TRUE]
<1>1. RegisterCallback(c) = IF d.is_masked THEN d ELSE OnUnmasked(d)
  BY DEF RegisterCallback
<1>2. Formed(d) /\ (Audible(c) => Audible(d))
  BY DEF Formed, Audible, Bounded, Card
<1> HIDE DEF d
<1> QED
  BY <1>1, <1>2, OnUnmaskedKeeps, OnUnmaskedAudible

-----------------------------------------------------------------------------
(* The mixer's callbacks.                                                  *)
LEMMA CallBackKeeps ==
  ASSUME NEW c, Formed(c), NEW len \in Nat
  PROVE  /\ Formed(SBLASTER_CallBack(c, len))
         /\ Audible(c) => Audible(SBLASTER_CallBack(c, len))
<1> DEFINE r == Min({len, c.left})
<1>1. c.left \in Nat
  BY Numbers DEF Formed, Card
<1>2. r \in Nat /\ r <= c.left
  BY <1>1, MinOfTwo
<1>3. SBLASTER_CallBack(c, len) = IF c.mode = "dma" THEN PlayDMATransfer(c, r) ELSE c
  BY DEF SBLASTER_CallBack
<1> HIDE DEF r
<1>4. Formed(PlayDMATransfer(c, r)) /\ (Audible(c) => Audible(PlayDMATransfer(c, r)))
  BY <1>2, PlayKeeps, PlayAudible
<1> QED
  BY <1>3, <1>4

LEMMA FillUpKeeps ==
  ASSUME NEW c, Formed(c), NEW d \in FillUp(c)
  PROVE  Formed(d) /\ (Audible(c) => Audible(d))
<1> DEFINE once == {SBLASTER_CallBack(c, len) : len \in 1..Slice}
           twice == {SBLASTER_CallBack(e, len) : e \in once, len \in 1..Slice}
<1>1. \A len \in 1..Slice : len \in Nat
  BY Numbers
<1>2. ASSUME NEW e \in once PROVE Formed(e) /\ (Audible(c) => Audible(e))
  BY <1>1, CallBackKeeps
<1> HIDE DEF once
<1>3. ASSUME NEW e \in twice PROVE Formed(e) /\ (Audible(c) => Audible(e))
  <2>1. PICK f \in once, len \in 1..Slice : e = SBLASTER_CallBack(f, len)
    OBVIOUS
  <2> QED
    BY <1>1, <1>2, <2>1, CallBackKeeps
<1>4. d = c \/ d \in once \/ d \in twice
  BY DEF FillUp, once
<1> QED
  BY <1>2, <1>3, <1>4

(* The bytes that DSP_DoDMATransfer loads.                                 *)
LEMMA DoTransferKeeps ==
  ASSUME NEW c, Formed(c), NEW autoinit \in BOOLEAN
  PROVE  /\ Formed(DSP_DoDMATransfer(c, autoinit))
         /\ Audible(c) => Audible(DSP_DoDMATransfer(c, autoinit))
<1> DEFINE d == CASE c.mode # "none" /\ c.autoinit /\ ~autoinit -> c
                  [] ~autoinit /\ ~(c.mode # "none" /\ c.autoinit) ->
                       [c EXCEPT !.left = c.singlesize, !.singlesize = 0]
                  [] OTHER -> [c EXCEPT !.left = c.autosize]
           r == [d EXCEPT !.pending = FALSE, !.autoinit = autoinit, !.active = TRUE,
                          !.min = c.freq, !.process = <<>>, !.mode = "masked"]
<1>1. DSP_DoDMATransfer(c, autoinit) = RegisterCallback(r)
  BY DEF DSP_DoDMATransfer
<1>2. /\ c \in Card /\ c.autoinit \in BOOLEAN
      /\ c.singlesize \in 0..(Word - 1) /\ c.singlesize <= LongestCycle
      /\ c.autosize \in 0..(Word - 1) /\ c.autosize <= LongestCycle
      /\ c.freq \in Minima
  <2>1. c \in Card /\ c.autoinit \in BOOLEAN /\ c.singlesize \in {0} \cup Lengths
        /\ c.autosize \in {0} \cup Lengths /\ c.freq \in Minima
    BY DEF Formed, Card
  <2> QED
    BY <2>1, LengthsAreShort
<1>3. d \in Card /\ (Audible(c) => d.speaker /\ d.suppress = <<>>
                                 /\ (~LowersRate => d.left <= LongestCycle))
  <2>1. CASE c.mode # "none" /\ c.autoinit /\ ~autoinit
    <3>1. d = c
      BY <2>1
    <3> QED
      BY <1>2, <3>1, Zenon DEF Audible, Bounded
  <2>2. CASE ~autoinit /\ ~(c.mode # "none" /\ c.autoinit)
    <3> DEFINE e == [c EXCEPT !.left = c.singlesize, !.singlesize = 0]
    <3>1. d = e
      BY <2>2
    <3>2. 0 \in {0} \cup Lengths
      OBVIOUS
    <3>3. e \in Card
      BY <1>2, <3>2 DEF Card
    <3>4. e.speaker = c.speaker /\ e.suppress = c.suppress /\ e.left = c.singlesize
      BY <1>2 DEF Card
    <3> QED
      BY <1>2, <3>1, <3>3, <3>4, Zenon DEF Audible, Bounded
  <2>3. CASE autoinit
    <3> DEFINE e == [c EXCEPT !.left = c.autosize]
    <3>1. d = e
      BY <2>3
    <3>3. e \in Card
      BY <1>2 DEF Card
    <3>4. e.speaker = c.speaker /\ e.suppress = c.suppress /\ e.left = c.autosize
      BY <1>2 DEF Card
    <3> QED
      BY <1>2, <3>1, <3>3, <3>4, Zenon DEF Audible, Bounded
  <2> QED
    BY <1>2, <2>1, <2>2, <2>3
<1> HIDE DEF d
<1>4. Formed(r) /\ (Audible(c) => Audible(r))
  <2>1. <<>> \in Seq(Nat)
    OBVIOUS
  <2>2. r \in Card /\ r.mode = "masked" /\ r.process = <<>>
    <3>1. c.freq \in {0} \cup Minima /\ "masked" \in Modes
      BY <1>2 DEF Modes
    <3>2. r \in Card
      BY <1>3, <2>1, <3>1 DEF Card
    <3>3. r.mode = "masked" /\ r.process = <<>>
      BY <1>3 DEF Card
    <3> QED
      BY <3>2, <3>3
  <2>3. r.speaker = d.speaker /\ r.suppress = d.suppress /\ r.left = d.left
    BY <1>3 DEF Card
  <2> HIDE DEF r
  <2>4. Formed(r)
    BY <2>2 DEF Formed
  <2>5. Audible(c) => Audible(r)
    BY <1>3, <2>2, <2>3, NoEvents
  <2> QED
    BY <2>4, <2>5
<1> HIDE DEF r
<1> QED
  BY <1>1, <1>4, RegisterKeeps

LEMMA SuppressKeeps ==
  ASSUME NEW c, Formed(c), NEW value \in Nat, NEW elapsed \in Nat
  PROVE  Formed(SuppressDMATransfer(c, value, elapsed))
<1> DEFINE n == Min({value, c.left})
           read == ReadOrWrite(c, n)
           back == IF BecomesMasked(c, n) THEN OnMasked(read, elapsed) ELSE read
           w == WordsDone(c, n)
           d == [back EXCEPT !.left = (@ - w) % Word]
           e == CASE d.left > 0 -> d
                  [] d.left = 0 /\ d.autoinit -> SB_RaiseIRQ([d EXCEPT !.left = d.autosize])
                  [] OTHER -> SB_RaiseIRQ([d EXCEPT !.mode = "none", !.active = FALSE])
           x == [e EXCEPT !.suppress = Append(@, Min({e.min, e.left}))]
<1>1. SuppressDMATransfer(c, value, elapsed) = IF e.left > 0 THEN x ELSE e
  BY Zenon DEF SuppressDMATransfer
<1>2. c \in Card /\ n \in Nat
  <2>1. c \in Card /\ c.left \in 0..(Word - 1)
    BY DEF Formed, Card
  <2>2. c.left \in Nat
    BY <2>1, CardNumbers
  <2> QED
    BY <2>1, <2>2, MinOfTwo
<1>3. w \in 0..n
  BY <1>2, WordsDoneType
<1> HIDE DEF n
<1>4. Formed(read)
  <2>1. PICK k \in 1..CountWord, m \in BOOLEAN : read = [c EXCEPT !.count = k, !.is_masked = m]
    BY <1>2, ReadOrWriteKeeps
  <2> HIDE DEF read
  <2> QED
    BY <1>2, <2>1 DEF Formed, Card
<1> HIDE DEF read
<1>5. Formed(back)
  BY <1>4, OnMaskedKeeps
<1> HIDE DEF back, w
<1>6. Formed(d)
  <2>1. back \in Card /\ back.left \in 0..(Word - 1)
    BY <1>5 DEF Formed, Card
  <2>2. (back.left - w) % Word \in 0..(Word - 1)
    BY <1>2, <1>3, <2>1, Numbers
  <2>3. d \in Card /\ d.mode = back.mode /\ d.active = back.active
    BY <2>1, <2>2 DEF Card
  <2> QED
    BY <1>5, <2>3 DEF Formed
<1> HIDE DEF d
<1>7. Formed(e)
  <2>1. d \in Card /\ d.left \in 0..(Word - 1) /\ d.autoinit \in BOOLEAN
        /\ d.autosize \in {0} \cup Lengths
    BY <1>6 DEF Formed, Card
  <2>2. CASE d.left > 0
    BY <1>6, <2>2
  <2>3. CASE d.left = 0 /\ d.autoinit
    <3> DEFINE f == [d EXCEPT !.left = d.autosize]
    <3>1. e = [f EXCEPT !.pending = TRUE]
      BY <2>3 DEF SB_RaiseIRQ
    <3>2. d.autosize \in 0..(Word - 1)
      BY <2>1, LengthsAreShort
    <3>3. Formed(f)
      BY <1>6, <3>2 DEF Formed, Card
    <3> HIDE DEF e, f
    <3> QED
      BY <3>1, <3>3 DEF Formed, Card
  <2>4. CASE d.left = 0 /\ ~d.autoinit
    <3> DEFINE f == [d EXCEPT !.mode = "none", !.active = FALSE]
    <3>1. e = [f EXCEPT !.pending = TRUE]
      BY <2>4 DEF SB_RaiseIRQ
    <3>2. f \in Card
      BY <2>1, ZenonT(30) DEF Card, Modes
    <3>3. f.mode = "none"
      BY <2>1 DEF Card
    <3> HIDE DEF e, f
    <3> QED
      BY <3>1, <3>2, <3>3 DEF Formed, Card
  <2> HIDE DEF e
  <2>5. d.left > 0 \/ d.left = 0
    BY <2>1, Numbers
  <2> QED
    BY <2>1, <2>2, <2>3, <2>4, <2>5
<1> HIDE DEF e
<1>8. ASSUME e.left > 0 PROVE Formed(x)
  <2>1. e \in Card /\ e.left \in 0..(Word - 1) /\ e.suppress \in Seq(Nat)
        /\ e.min \in {0} \cup Minima
    BY <1>7 DEF Formed, Card
  <2> DEFINE q == Append(e.suppress, Min({e.min, e.left}))
  <2>2. q \in Seq(Nat)
    <3>1. e.min \in Nat /\ e.left \in Nat
      BY <2>1, CardNumbers
    <3> QED
      BY <2>1, <3>1, MinOfTwo, AppendType
  <2>3. x = [e EXCEPT !.suppress = q]
    OBVIOUS
  <2> HIDE DEF q, x
  <2> QED
    BY <1>7, <2>2, <2>3 DEF Formed, Card
<1> QED
  BY <1>1, <1>7, <1>8

-----------------------------------------------------------------------------
(* The steps.                                                              *)
Preserved == Formed(sb') /\ (sb16 => Audible(sb'))

LEMMA WiderSeq ==
  ASSUME NEW S, NEW T, S \subseteq T, NEW q \in Seq(S)
  PROVE  q \in Seq(T)
<1>1. \A i \in 1..Len(q) : q[i] \in T
  BY ElementOfSeq
<1>2. Len(q) \in Nat /\ q = [i \in 1..Len(q) |-> q[i]]
  BY LenProperties
<1> QED
  BY <1>1, <1>2

LEMMA RemoveAtType ==
  ASSUME NEW S, NEW q \in Seq(S), NEW i \in DOMAIN q
  PROVE  RemoveAt(q, i) \in Seq(S) /\ q[i] \in S
<1>1. i \in 1..Len(q) /\ Len(q) \in Nat
  OBVIOUS
<1>2. SubSeq(q, 1, i - 1) \in Seq(S) /\ SubSeq(q, i + 1, Len(q)) \in Seq(S)
  <2> DEFINE n == i - 1
             m == i + 1
             l == Len(q)
  <2>1. /\ n \in Int /\ m \in Int /\ 1 \in Int /\ l \in Int
        /\ \A j \in 1..n : j \in 1..Len(q)
        /\ \A j \in m..l : j \in 1..Len(q)
    BY <1>1
  <2>2. \A j \in 1..Len(q) : q[j] \in S
    BY ElementOfSeq
  <2>3. SubSeq(q, 1, n) \in Seq(S)
    BY <2>1, <2>2, SubSeqProperties
  <2> HIDE DEF n, m, l
  <2>4. SubSeq(q, m, l) \in Seq(S)
    <3>1. \A j \in m..l : q[j] \in S
      BY <2>1, <2>2, Zenon
    <3> QED
      BY <2>1, <3>1, SubSeqProperties, Zenon
  <2> QED
    BY <2>3, <2>4 DEF n, m, l
<1>3. q[i] \in S
  BY <1>1, ElementOfSeq
<1> QED
  BY <1>2, <1>3 DEF RemoveAt

LEMMA GuestKeeps ==
  ASSUME Inv, GuestStep
  PROVE  Preserved
<1>1. sb \in Card /\ Formed(sb) /\ (sb16 => Audible(sb)) /\ sb16 \in BOOLEAN
  BY DEF Inv, Formed
<1>2. <<>> \in Seq(Nat)
  OBVIOUS
<1>3. CASE ProgramChannel
  <2>1. PICK n \in Lengths, a \in BOOLEAN : sb' = [sb EXCEPT !.count = n, !.base = n, !.chauto = a]
    BY <1>3 DEF ProgramChannel
  <2>2. n \in 1..CountWord
    BY Numbers
  <2>3. sb' \in Card /\ sb'.mode = sb.mode /\ sb'.active = sb.active
    BY <1>1, <2>1, <2>2 DEF Card
  <2>4. sb'.speaker = sb.speaker /\ sb'.suppress = sb.suppress /\ sb'.left = sb.left
        /\ sb'.process = sb.process /\ sb'.min = sb.min
    BY <1>1, <2>1 DEF Card
  <2> QED
    BY <1>1, <2>3, <2>4, Zenon DEF Preserved, Formed, Audible, Bounded
<1>4. CASE Mask
  <2> DEFINE c == [sb EXCEPT !.is_masked = TRUE]
  <2>1. PICK e \in 0..sb.min : sb' = OnMasked(c, e)
    BY <1>4 DEF Mask
  <2>2. e \in Nat
    BY Numbers
  <2>3. Formed(c) /\ (sb16 => Audible(c))
    BY <1>1 DEF Formed, Audible, Bounded, Card
  <2> HIDE DEF c
  <2> QED
    BY <2>1, <2>2, <2>3, OnMaskedKeeps, OnMaskedAudible DEF Preserved
<1>5. CASE Unmask
  <2> DEFINE c == [sb EXCEPT !.is_masked = FALSE]
  <2>1. sb' = OnUnmasked(c)
    BY <1>5 DEF Unmask
  <2>2. Formed(c) /\ (sb16 => Audible(c))
    <3>1. Formed(c)
      BY <1>1 DEF Formed, Card
    <3>2. sb16 => Audible(c)
      BY <1>1 DEF Audible, Bounded, Card
    <3> QED
      BY <3>1, <3>2
  <2> HIDE DEF c
  <2> QED
    BY <2>1, <2>2, OnUnmaskedKeeps, OnUnmaskedAudible DEF Preserved
<1>6. CASE SingleCycle
  <2>1. PICK n \in Lengths : \E c \in FillUp([sb EXCEPT !.singlesize = n]) :
           sb' = DSP_DoDMATransfer(c, FALSE)
    BY <1>6 DEF SingleCycle
  <2> DEFINE d == [sb EXCEPT !.singlesize = n]
  <2>2. Formed(d) /\ (sb16 => Audible(d))
    BY <1>1 DEF Formed, Audible, Bounded, Card
  <2>3. PICK c \in FillUp(d) : sb' = DSP_DoDMATransfer(c, FALSE)
    BY <2>1
  <2> HIDE DEF d
  <2>4. Formed(c) /\ (sb16 => Audible(c))
    BY <2>2, FillUpKeeps
  <2> QED
    BY <2>3, <2>4, DoTransferKeeps DEF Preserved
<1>7. CASE SetBlockSize
  BY <1>1, <1>7 DEF SetBlockSize, Preserved, Formed, Audible, Bounded, Card
<1>8. CASE AutoInit
  <2>1. PICK c \in FillUp(sb) : sb' = DSP_DoDMATransfer(c, TRUE)
    BY <1>8 DEF AutoInit
  <2>2. Formed(c) /\ (sb16 => Audible(c))
    BY <1>1, FillUpKeeps
  <2> QED
    BY <2>1, <2>2, DoTransferKeeps DEF Preserved
<1>9. CASE Halt
  <2>1. sb' = [sb EXCEPT !.mode = "pause", !.process = <<>>]
    BY <1>9 DEF Halt
  <2>2. sb' \in Card /\ sb'.mode = "pause" /\ sb'.process = <<>>
    BY <1>1, <1>2, <2>1 DEF Card, Modes
  <2>3. sb'.speaker = sb.speaker /\ sb'.suppress = sb.suppress /\ sb'.left = sb.left
    BY <1>1, <2>1 DEF Card
  <2>4. sb16 => Audible(sb')
    BY <1>1, <2>2, <2>3, NoEvents DEF Audible, Bounded
  <2> QED
    BY <2>2, <2>4 DEF Preserved, Formed
<1>10. CASE Continue
  <2> DEFINE c == [sb EXCEPT !.mode = "masked"]
  <2>1. sb' = IF sb.mode # "pause" THEN sb ELSE IF sb.callback THEN RegisterCallback(c) ELSE c
    BY <1>10 DEF Continue
  <2>2. Formed(c) /\ (sb16 => Audible(c))
    BY <1>1 DEF Formed, Audible, Bounded, Card, Modes
  <2> HIDE DEF c
  <2> QED
    BY <1>1, <2>1, <2>2, RegisterKeeps DEF Preserved
<1>11. CASE ExitAutoInit
  BY <1>1, <1>11 DEF ExitAutoInit, Preserved, Formed, Audible, Bounded, Card
<1>12. CASE SpeakerOn
  <2> DEFINE c == [sb EXCEPT !.suppress = <<>>]
             f == FlushRemainingDMATransfer(c)
  <2>1. sb' = [f EXCEPT !.speaker = TRUE] /\ ~sb16
    BY <1>12 DEF SpeakerOn
  <2>2. Formed(c)
    BY <1>1, <1>2 DEF Formed, Card
  <2> HIDE DEF c
  <2>3. Formed(f)
    BY <2>2, FlushKeeps
  <2> HIDE DEF f
  <2> QED
    BY <2>1, <2>3 DEF Preserved, Formed, Card
<1>13. CASE SpeakerOff
  BY <1>1, <1>13 DEF SpeakerOff, Preserved, Formed, Card
<1>14. CASE TriggerIRQ
  <2>1. sb' = [sb EXCEPT !.irqEvents = @ + 1] /\ sb.irqEvents < MaxEvents
    BY <1>14 DEF TriggerIRQ
  <2>2. sb.irqEvents + 1 \in 0..MaxEvents
    <3>1. sb.irqEvents \in 0..MaxEvents
      BY <1>1 DEF Card
    <3> QED
      BY <2>1, <3>1, Numbers
  <2> QED
    BY <1>1, <2>1, <2>2 DEF Preserved, Formed, Audible, Bounded, Card
<1>15. CASE Reset
  <2>1. sb' = [sb EXCEPT !.mode = "none", !.active = FALSE, !.autoinit = FALSE,
                        !.left = 0, !.singlesize = 0, !.autosize = 0,
                        !.speaker = sb16, !.pending = FALSE, !.process = <<>>,
                        !.freq = DefaultMin]
    BY <1>15 DEF Reset
  <2>2. 0 \in 0..(Word - 1) /\ 0 <= LongestCycle /\ 0 \in {0} \cup Lengths
    BY Numbers, LongestIsLongest
  <2>3. sb' \in Card /\ sb'.mode = "none"
    <3> DEFINE c == [sb EXCEPT !.mode = "none", !.active = FALSE, !.autoinit = FALSE,
                               !.pending = FALSE, !.speaker = sb16]
               d == [c EXCEPT !.left = 0, !.singlesize = 0, !.autosize = 0]
    <3>1. c \in Card /\ c.mode = "none"
      BY <1>1, ZenonT(30) DEF Card, Modes
    <3>2. sb' = [d EXCEPT !.process = <<>>, !.freq = DefaultMin]
      BY <2>1
    <3> HIDE DEF c
    <3>3. d \in Card /\ d.mode = "none"
      BY <2>2, <3>1 DEF Card
    <3> HIDE DEF d
    <3>4. DefaultMin \in Minima
      BY Numbers
    <3> QED
      BY <1>2, <3>2, <3>3, <3>4 DEF Card
  <2>4. sb'.speaker = sb16 /\ sb'.suppress = sb.suppress /\ sb'.left = 0 /\ sb'.process = <<>>
    BY <1>1, <2>1 DEF Card
  <2> QED
    BY <1>1, <2>2, <2>3, <2>4, NoEvents DEF Preserved, Formed, Audible
<1>16. CASE AckIRQ
  BY <1>1, <1>16 DEF AckIRQ, Preserved, Formed, Audible, Bounded, Card
<1>17. CASE ChangeRate
  <2>1. PICK n \in Minima :
           \/ sb' = [sb EXCEPT !.freq = n]
           \/ \E c \in FillUp(sb) : /\ LowersRate \/ n >= c.min \/ c.process = <<>>
                                   /\ sb' = [c EXCEPT !.freq = n, !.min = n]
    BY <1>17 DEF ChangeRate
  <2>2. CASE sb' = [sb EXCEPT !.freq = n]
    BY <1>1, <2>2 DEF Preserved, Formed, Audible, Bounded, Card
  <2>3. ASSUME NEW c \in FillUp(sb), LowersRate \/ n >= c.min \/ c.process = <<>>,
               sb' = [c EXCEPT !.freq = n, !.min = n]
        PROVE  Preserved
    <3>1. Formed(c) /\ (sb16 => Audible(c)) /\ c \in Card
      BY <1>1, FillUpKeeps DEF Formed
    <3>2. Formed(sb')
      BY <2>3, <3>1 DEF Formed, Card
    <3>3. /\ sb'.speaker = c.speaker /\ sb'.suppress = c.suppress /\ sb'.mode = c.mode
          /\ sb'.process = c.process /\ sb'.left = c.left /\ sb'.min = n
      BY <2>3, <3>1 DEF Card
    <3>4. ASSUME ~LowersRate, c.process \in Seq(0..c.min) PROVE c.process \in Seq(0..n)
      <4>1. c.min \in Nat /\ n \in Nat
        BY <3>1, Numbers DEF Card
      <4>2. CASE c.process = <<>>
        BY <4>2
      <4>3. CASE n >= c.min
        <5>1. 0..c.min \subseteq 0..n
          BY <4>1, <4>3
        <5> QED
          BY <3>4, <5>1, WiderSeq
      <4> QED
        BY <2>3, <3>4, <4>2, <4>3
    <3> QED
      BY <3>1, <3>2, <3>3, <3>4 DEF Preserved, Audible, Bounded
  <2> QED
    BY <2>1, <2>2, <2>3
<1> QED
  BY <1>3, <1>4, <1>5, <1>6, <1>7, <1>8, <1>9, <1>10, <1>11, <1>12, <1>13, <1>14, <1>15, <1>16, <1>17
     DEF GuestStep

LEMMA CardKeeps ==
  ASSUME Inv, CardStep
  PROVE  Preserved
<1>1. /\ sb \in Card /\ Formed(sb) /\ (sb16 => Audible(sb)) /\ sb16 \in BOOLEAN
      /\ sb.process \in Seq(Nat) /\ sb.suppress \in Seq(Nat)
  BY DEF Inv, Formed, Card
<1>2. CASE MixerTick
  <2>1. PICK len \in 1..Slice : sb' = SBLASTER_CallBack(sb, len)
    BY <1>2 DEF MixerTick
  <2>2. len \in Nat
    BY Numbers
  <2> QED
    BY <1>1, <2>1, <2>2, CallBackKeeps DEF Preserved
<1>3. CASE ProcessEvent
  <2>1. PICK i \in DOMAIN sb.process :
           sb' = PlayDMATransfer([sb EXCEPT !.process = RemoveAt(@, i)], sb.process[i])
    BY <1>3 DEF ProcessEvent
  <2> DEFINE q == RemoveAt(sb.process, i)
             c == [sb EXCEPT !.process = q]
             v == sb.process[i]
  <2>2. sb' = PlayDMATransfer(c, v)
    BY <2>1
  <2>3. /\ q \in Seq(Nat) /\ v \in Nat
        /\ sb16 /\ ~LowersRate => q \in Seq(0..sb.min) /\ v \in 0..sb.min
    <3>1. q \in Seq(Nat) /\ v \in Nat
      BY <1>1, RemoveAtType
    <3>2. ASSUME sb16, ~LowersRate PROVE q \in Seq(0..sb.min) /\ v \in 0..sb.min
      <4>1. sb.process \in Seq(0..sb.min)
        BY <1>1, <3>2 DEF Audible, Bounded
      <4> QED
        BY <4>1, RemoveAtType
    <3> QED
      BY <3>1, <3>2
  <2>4. sb16 => sb.mode # "pause"
    BY <1>1, <1>3 DEF ProcessEvent, Audible
  <2> HIDE DEF q, v
  <2>5. c.min = sb.min /\ Formed(c) /\ (sb16 => Audible(c))
    BY <1>1, <2>3, <2>4 DEF Formed, Audible, Bounded, Card
  <2>6. c.min \in Nat
    BY <2>5, Numbers DEF Formed, Card
  <2> HIDE DEF c
  <2>7. sb16 /\ ~LowersRate => v <= c.min
    BY <2>3, <2>5, <2>6
  <2> QED
    BY <2>2, <2>3, <2>5, <2>7, PlayKeeps, PlayAudible DEF Preserved
<1>4. CASE SuppressEvent
  <2>1. PICK i \in DOMAIN sb.suppress, e \in 0..sb.min :
           sb' = SuppressDMATransfer([sb EXCEPT !.suppress = RemoveAt(@, i)], sb.suppress[i], e)
    BY <1>4 DEF SuppressEvent
  <2> DEFINE q == RemoveAt(sb.suppress, i)
             c == [sb EXCEPT !.suppress = q]
             v == sb.suppress[i]
  <2>2. sb' = SuppressDMATransfer(c, v, e)
    BY <2>1
  <2>3. q \in Seq(Nat) /\ v \in Nat /\ e \in Nat
    BY <1>1, RemoveAtType
  <2>4. ~sb16
    BY <1>1, <1>4 DEF SuppressEvent, Audible
  <2> HIDE DEF q, v
  <2>5. Formed(c)
    BY <1>1, <2>3 DEF Formed, Card
  <2> HIDE DEF c
  <2> QED
    BY <2>2, <2>3, <2>4, <2>5, SuppressKeeps DEF Preserved
<1>5. CASE RaiseIRQEvent
  <2> DEFINE c == [sb EXCEPT !.irqEvents = @ - 1]
  <2>1. sb' = [c EXCEPT !.pending = TRUE] /\ sb.irqEvents > 0
    BY <1>5 DEF RaiseIRQEvent, SB_RaiseIRQ
  <2>2. sb.irqEvents - 1 \in 0..MaxEvents
    <3>1. sb.irqEvents \in 0..MaxEvents
      BY <1>1 DEF Card
    <3> QED
      BY <2>1, <3>1, Numbers
  <2>3. Formed(c) /\ (sb16 => Audible(c))
    BY <1>1, <2>2 DEF Formed, Audible, Bounded, Card
  <2> HIDE DEF c
  <2> QED
    BY <2>1, <2>3 DEF Preserved, Formed, Audible, Bounded, Card
<1> QED
  BY <1>2, <1>3, <1>4, <1>5 DEF CardStep

LEMMA StepsTaken ==
  ASSUME Inv, Next
  PROVE  sb16' = sb16 /\ steps' \in 0..MaxSteps /\ (GuestStep => steps' # steps)
<1>1. steps \in 0..MaxSteps
  BY DEF Inv
<1>2. CASE GuestStep
  <2>1. Guest
    BY <1>2 DEF GuestStep, ProgramChannel, Mask, Unmask, ChangeRate, SingleCycle, SetBlockSize, AutoInit,
                Halt, Continue, ExitAutoInit, SpeakerOn, SpeakerOff, TriggerIRQ, Reset, AckIRQ
  <2> QED
    BY <1>1, <2>1, Numbers DEF Guest
<1>3. CASE CardStep
  <2>1. sb16' = sb16 /\ steps' = steps
    BY <1>3 DEF CardStep, MixerTick, ProcessEvent, SuppressEvent, RaiseIRQEvent
  <2>2. GuestStep => Guest
    BY DEF GuestStep, ProgramChannel, Mask, Unmask, ChangeRate, SingleCycle, SetBlockSize, AutoInit,
           Halt, Continue, ExitAutoInit, SpeakerOn, SpeakerOff, TriggerIRQ, Reset, AckIRQ
  <2> QED
    BY <1>1, <2>1, <2>2, Numbers DEF Guest
<1> QED
  BY <1>2, <1>3 DEF Next

LEMMA InitInv == Init => Inv
<1> SUFFICES ASSUME Init PROVE Inv
  OBVIOUS
<1>1. PICK n \in Lengths, a \in BOOLEAN :
        sb = [ mode |-> "none", active |-> FALSE, autoinit |-> FALSE, left |-> 0,
               singlesize |-> 0, autosize |-> 0, speaker |-> sb16, pending |-> FALSE,
               min |-> 0, freq |-> DefaultMin,
               suppress |-> <<>>, process |-> <<>>, irqEvents |-> 0,
               count |-> n, base |-> n, chauto |-> a, is_masked |-> TRUE, callback |-> FALSE ]
  BY DEF Init
<1>2. 0 \in 0..(Word - 1) /\ 0 <= LongestCycle /\ 0 \in {0} \cup Lengths /\ 0 \in 0..MaxEvents
      /\ 0 \in 0..MaxSteps /\ n \in 1..CountWord /\ <<>> \in Seq(Nat)
      /\ 0 \in {0} \cup Minima /\ DefaultMin \in Minima
  BY Numbers, LongestIsLongest
<1>3. sb16 \in BOOLEAN /\ steps = 0
  BY DEF Init
<1>4. sb \in Card
  BY <1>1, <1>2, <1>3 DEF Card, Modes
<1> QED
  BY <1>1, <1>2, <1>3, <1>4, NoEvents DEF Inv, Formed

(* The invariant the theorems rest on.                                     *)
THEOREM CardInvariant == Spec => []Inv
<1>1. Inv /\ [Next]_vars => Inv'
  <2> SUFFICES ASSUME Inv, [Next]_vars PROVE Inv'
    OBVIOUS
  <2>1. CASE Next
    <3>1. Preserved
      BY <2>1, GuestKeeps, CardKeeps DEF Next
    <3>2. sb16' = sb16 /\ steps' \in 0..MaxSteps
      BY <2>1, StepsTaken
    <3> QED
      BY <3>1, <3>2 DEF Inv, Preserved, Formed, Audible, Bounded
  <2>2. CASE UNCHANGED vars
    BY <2>2 DEF Inv, Formed, Audible, Bounded, vars
  <2> QED
    BY <2>1, <2>2
<1> QED
  BY <1>1, InitInv, PTL DEF Spec

(* However the guest's commands, the mixer and the events interleave, the  *)
(* card's state is well formed, the SB16's count of bytes left does not    *)
(* wrap around, and mode "dma" has a transfer format, for a guest that     *)
(* does not lower the rate while the event of a short transfer waits.      *)
THEOREM TransferIsConsistent == ~LowersRate => (Spec => []TransferConsistent)
<1> SUFFICES ASSUME ~LowersRate PROVE Spec => []TransferConsistent
  OBVIOUS
<1>1. Inv => TransferConsistent
  <2> SUFFICES ASSUME Inv PROVE TransferConsistent
    OBVIOUS
  <2>1. sb \in Card /\ sb16 \in BOOLEAN /\ steps \in 0..MaxSteps
    BY DEF Inv, Formed
  <2>2. TypeOK
    BY <2>1 DEF TypeOK, Card
  <2>3. LeftNeverWraps
    BY DEF Inv, Audible, Bounded, LeftNeverWraps
  <2>4. sb.mode = "dma" => sb.active
    BY DEF Inv, Formed
  <2> QED
    BY <2>2, <2>3, <2>4 DEF TransferConsistent
<1> QED
  BY <1>1, CardInvariant, PTL

(* Masking the DMA channel catches up with the bytes the time is worth and *)
(* never ends the cycle, so it raises no IRQ.                              *)
THEOREM CatchingUpRaisesNoIRQ == Spec => CatchUpRaisesNoIRQ
<1> DEFINE A == Mask => sb'.pending = sb.pending
<1>1. Inv /\ [Next]_vars => A
  <2> SUFFICES ASSUME Inv, Mask PROVE sb'.pending = sb.pending
    OBVIOUS
  <2> DEFINE c == [sb EXCEPT !.is_masked = TRUE]
  <2>1. PICK e \in 0..sb.min : sb' = OnMasked(c, e)
    BY DEF Mask
  <2>2. e \in Nat
    BY Numbers
  <2>3. Formed(c) /\ c.pending = sb.pending
    BY DEF Inv, Formed, Card
  <2> HIDE DEF c
  <2>4. sb'.pending = c.pending
    BY <2>1, <2>2, <2>3, CatchUpIsSilent
  <2> QED
    BY <2>3, <2>4
<1> HIDE DEF A
<1>2. Spec => [][A]_vars
  BY <1>1, CardInvariant, PTL DEF Spec
<1> QED
  BY <1>2 DEF A, CatchUpRaisesNoIRQ

(* The halted transfer of an SB16 reads nothing until the guest acts: its  *)
(* event went with the halt, and the mixer finds no mode to play.          *)
THEOREM HaltedTransferReadsNothing == Spec => HaltedReadsNothing
<1> DEFINE A == sb16 /\ sb.mode = "pause" /\ steps' = steps =>
                  sb'.count = sb.count /\ sb'.left = sb.left
<1>1. Inv /\ [Next]_vars => A
  <2> SUFFICES ASSUME Inv, [Next]_vars, sb16, sb.mode = "pause", steps' = steps
               PROVE  sb'.count = sb.count /\ sb'.left = sb.left
    OBVIOUS
  <2>1. CASE UNCHANGED vars
    BY <2>1 DEF vars
  <2>2. CASE Next
    <3>1. CardStep
      BY <2>2, StepsTaken DEF Next
    <3>2. sb \in Card /\ sb.process = <<>> /\ sb.suppress = <<>>
      BY DEF Inv, Formed, Audible
    <3>3. RaiseIRQEvent
      BY <3>1, <3>2 DEF CardStep, MixerTick, ProcessEvent, SuppressEvent
    <3>4. sb' = [[sb EXCEPT !.irqEvents = @ - 1] EXCEPT !.pending = TRUE]
      BY <3>3 DEF RaiseIRQEvent, SB_RaiseIRQ
    <3> QED
      BY <3>2, <3>4 DEF Card
  <2> QED
    BY <2>1, <2>2
<1> HIDE DEF A
<1>2. Spec => [][A]_vars
  BY <1>1, CardInvariant, PTL DEF Spec
<1> QED
  BY <1>2 DEF A, HaltedReadsNothing
=============================================================================
