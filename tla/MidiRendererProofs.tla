------------------------- MODULE MidiRendererProofs -------------------------
(***************************************************************************)
(* Proofs about MidiRenderer for any capacities, frame rates and bursts:   *)
(* the life of the synthesizer also in fast forward, the two bounds for a  *)
(* tick of whole frames whose frames the mixer takes.                      *)
(***************************************************************************)
EXTENDS MidiRenderer, InductionLemmas, SequenceTheorems, TLAPS

(* Close has freed the synthesizer only when both threads are past using   *)
(* it: the main thread has returned from the join and the renderer has     *)
(* left its loop.                                                          *)
FreedAfterJoin == service \in BOOLEAN /\ (~service => main = "closed" /\ renderer = "ended")

LEMMA FreedInitially == Init => FreedAfterJoin
  BY DEF Init, FreedAfterJoin

(* No call of the main thread starts once it has closed the handler.       *)
LEMMA MainKeepsFreed ==
  FreedAfterJoin /\ (Advance \/ PlayMsg \/ Tick \/ Close \/ MainStep) => FreedAfterJoin'
<1> SUFFICES ASSUME FreedAfterJoin, Advance \/ PlayMsg \/ Tick \/ Close \/ MainStep
             PROVE  FreedAfterJoin'
  OBVIOUS
<1>1. CASE Advance
  BY <1>1 DEF Advance, FreedAfterJoin, mainVars, rendererVars
<1>2. CASE PlayMsg
  BY <1>2 DEF PlayMsg, FreedAfterJoin, rendererVars
<1>3. CASE Tick
  BY <1>3 DEF Tick, FreedAfterJoin, rendererVars
<1>4. CASE Close
  BY <1>4 DEF Close, FreedAfterJoin, rendererVars
<1>5. CASE EnqueueWork
  BY <1>5 DEF EnqueueWork, FreedAfterJoin, rendererVars
<1>6. CASE MixerCallBack
  BY <1>6 DEF MixerCallBack, FreedAfterJoin, rendererVars
<1>7. CASE StopWork
  BY <1>7 DEF StopWork, FreedAfterJoin, rendererVars
<1>8. CASE StopAudio
  BY <1>8 DEF StopAudio, FreedAfterJoin, rendererVars
<1>9. CASE Join
  BY <1>9 DEF Join, FreedAfterJoin, rendererVars
<1> QED
  BY <1>1, <1>2, <1>3, <1>4, <1>5, <1>6, <1>7, <1>8, <1>9 DEF MainStep

(* A renderer that has left its loop does nothing more.                    *)
LEMMA RendererKeepsFreed ==
  FreedAfterJoin /\ RendererStep => FreedAfterJoin'
<1> SUFFICES ASSUME FreedAfterJoin, RendererStep PROVE FreedAfterJoin'
  OBVIOUS
<1>1. renderer # "ended" /\ service' = service
  BY DEF RendererStep, Render, Pick, RenderAudioFrames, FillAudio, ApplyMessage
<1> QED
  BY <1>1 DEF FreedAfterJoin

LEMMA FreedInvariant == Spec => []FreedAfterJoin
<1>1. FreedAfterJoin /\ [Next]_vars => FreedAfterJoin'
  <2> SUFFICES ASSUME FreedAfterJoin, [Next]_vars PROVE FreedAfterJoin'
    OBVIOUS
  <2>1. CASE Next
    BY <2>1, MainKeepsFreed, RendererKeepsFreed DEF Next
  <2>2. CASE UNCHANGED vars
    BY <2>2 DEF vars, mainVars, rendererVars, FreedAfterJoin
  <2> QED
    BY <2>1, <2>2
<1> QED
  BY <1>1, FreedInitially, PTL DEF Spec

(* The renderer thread uses the synthesizer only while it exists, whatever *)
(* it was doing when Close came and however the queues are sized.          *)
THEOREM ServiceOutlives == Spec => []ServiceOutlivesRenderer
<1>1. FreedAfterJoin => ServiceOutlivesRenderer
  BY DEF FreedAfterJoin, ServiceOutlivesRenderer
<1> QED
  BY <1>1, FreedInvariant, PTL

-----------------------------------------------------------------------------
(* How many frames a queue of messages asks for.                           *)

LEMMA MinOfTwo ==
  ASSUME NEW a \in Int, NEW b \in Int
  PROVE  Min({a, b}) = IF a <= b THEN a ELSE b
<1> DEFINE c == IF a <= b THEN a ELSE b
<1>1. c \in {a, b} /\ \A y \in {a, b} : c <= y
  OBVIOUS
<1>2. \A x \in {a, b} : (\A y \in {a, b} : x <= y) => x = c
  OBVIOUS
<1>3. Min({a, b}) = CHOOSE x \in {a, b} : \A y \in {a, b} : x <= y
  BY DEF Min
<1> HIDE DEF c
<1>4. Min({a, b}) = c
  BY <1>1, <1>2, <1>3
<1> QED
  BY <1>4 DEF c

SumsTo(f, q, n) ==
  f \in [0..n -> Nat] /\ \A i \in 0..n : f[i] = IF i = 0 THEN 0 ELSE f[i - 1] + q[i]

IsSum(f, q) == f = [i \in 0..Len(q) |-> IF i = 0 THEN 0 ELSE f[i - 1] + q[i]]

Sums(f, q) ==
  /\ f \in [0..Len(q) -> Nat]
  /\ f[0] = 0
  /\ \A i \in 1..Len(q) : f[i] = f[i - 1] + q[i]

LEMMA FramesAre ==
  ASSUME NEW q \in Seq(Nat)
  PROVE  Sums(Frames(q), q)
<1> DEFINE N == Len(q)
           T == {n \in 0..N : \E f : SumsTo(f, q, n)}
<1>1. N \in Nat /\ \A i \in 1..N : q[i] \in Nat
  OBVIOUS
<1> HIDE DEF N
<1>2. 0 \in T
  <2>1. SumsTo([i \in 0..0 |-> 0], q, 0)
    BY DEF SumsTo
  <2> QED
    BY <1>1, <2>1
<1>3. ASSUME NEW n \in 1..N, n - 1 \in T PROVE n \in T
  <2>1. PICK f : SumsTo(f, q, n - 1)
    BY <1>3
  <2> DEFINE g == [i \in 0..n |-> IF i = n THEN f[n - 1] + q[n] ELSE f[i]]
  <2>2. n - 1 \in 0..n - 1 /\ f[n - 1] \in Nat /\ q[n] \in Nat /\ n \in Nat
    BY <1>1, <2>1 DEF SumsTo
  <2>3. g \in [0..n -> Nat]
    <3>1. ASSUME NEW i \in 0..n PROVE (IF i = n THEN f[n - 1] + q[n] ELSE f[i]) \in Nat
      BY <2>1, <2>2 DEF SumsTo
    <3> QED
      BY <3>1
  <2>4. ASSUME NEW i \in 0..n PROVE g[i] = IF i = 0 THEN 0 ELSE g[i - 1] + q[i]
    <3>1. CASE i = n
      <4>1. g[i] = f[n - 1] + q[n] /\ i # 0 /\ g[i - 1] = f[n - 1]
        BY <1>3, <2>2, <3>1
      <4> QED
        BY <3>1, <4>1
    <3>2. CASE i # n
      <4>1. i \in 0..n - 1 /\ g[i] = f[i] /\ (i # 0 => g[i - 1] = f[i - 1])
        BY <2>2, <3>2
      <4>2. f[i] = IF i = 0 THEN 0 ELSE f[i - 1] + q[i]
        BY <2>1, <4>1 DEF SumsTo
      <4> QED
        BY <4>1, <4>2
    <3> QED
      BY <3>1, <3>2
  <2> HIDE DEF g
  <2>5. SumsTo(g, q, n)
    BY <2>3, <2>4 DEF SumsTo
  <2> QED
    BY <2>5
<1> HIDE DEF T
<1>4. N \in T
  <2>1. 0..N \subseteq T
    BY <1>1, <1>2, <1>3, InductionUpTo
  <2> QED
    BY <1>1, <2>1
<1>5. PICK f : SumsTo(f, q, N)
  BY <1>4 DEF T
<1>6. f = [i \in 0..N |-> IF i = 0 THEN 0 ELSE f[i - 1] + q[i]]
  BY <1>5 DEF SumsTo
<1>7. IsSum(f, q)
  BY <1>6 DEF IsSum, N
<1> DEFINE g == CHOOSE h : IsSum(h, q)
<1>8. Frames(q) = g
  BY DEF Frames, IsSum
<1>9. IsSum(g, q)
  BY <1>7
<1> HIDE DEF g
<1>10. \A i \in 0..N : g[i] = IF i = 0 THEN 0 ELSE g[i - 1] + q[i]
  BY <1>9 DEF IsSum, N
<1>11. \A i \in 0..N : g[i] \in Nat
  <2> DEFINE W == {i \in 0..N : g[i] \in Nat}
  <2>1. 0 \in W
    BY <1>1, <1>10
  <2>2. ASSUME NEW i \in 1..N, i - 1 \in W PROVE i \in W
    <3>1. g[i - 1] \in Nat /\ q[i] \in Nat /\ i \in 0..N /\ i # 0
      BY <1>1, <2>2
    <3>2. g[i] = g[i - 1] + q[i]
      BY <1>10, <3>1
    <3> QED
      BY <3>1, <3>2
  <2> HIDE DEF W
  <2>3. 0..N \subseteq W
    BY <1>1, <2>1, <2>2, InductionUpTo
  <2> QED
    BY <2>3 DEF W
<1>12. g \in [0..N -> Nat]
  BY <1>9, <1>11 DEF IsSum, N
<1>13. g[0] = 0 /\ \A i \in 1..N : g[i] = g[i - 1] + q[i]
  BY <1>1, <1>10
<1> QED
  BY <1>8, <1>12, <1>13 DEF Sums, N

(* A message behind the others leaves their sums alone.                    *)
LEMMA FramesAppend ==
  ASSUME NEW q \in Seq(Nat), NEW x \in Nat
  PROVE  /\ \A i \in 0..Len(q) : Frames(Append(q, x))[i] = Frames(q)[i]
         /\ Frames(Append(q, x))[Len(q) + 1] = Frames(q)[Len(q)] + x
<1> DEFINE r == Append(q, x)
           f == Frames(q)
           g == Frames(r)
           N == Len(q)
           T == {i \in 0..N : g[i] = f[i]}
<1>1. r \in Seq(Nat) /\ Len(r) = N + 1 /\ N \in Nat /\ (\A i \in 1..N : r[i] = q[i]) /\ r[N + 1] = x
  OBVIOUS
<1>2. Sums(f, q) /\ Sums(g, r)
  BY <1>1, FramesAre
<1> HIDE DEF r, f, g, N
<1>3. 0 \in T
  BY <1>1, <1>2 DEF Sums
<1>4. ASSUME NEW i \in 1..N, i - 1 \in T PROVE i \in T
  <2>1. g[i - 1] = f[i - 1] /\ i \in 1..Len(r) /\ i \in 1..Len(q) /\ i \in 0..N
    BY <1>1, <1>4 DEF N
  <2>2. g[i] = g[i - 1] + r[i] /\ f[i] = f[i - 1] + q[i]
    BY <1>2, <2>1 DEF Sums
  <2> QED
    BY <1>1, <2>1, <2>2
<1> HIDE DEF T
<1>5. 0..N \subseteq T
  BY <1>1, <1>3, <1>4, InductionUpTo
<1>6. \A i \in 0..N : g[i] = f[i]
  BY <1>5 DEF T
<1>7. g[N + 1] = f[N] + x
  <2>1. N + 1 \in 1..Len(r) /\ (N + 1) - 1 = N /\ N \in 0..N
    BY <1>1
  <2>2. g[N + 1] = g[(N + 1) - 1] + r[N + 1]
    BY <1>2, <2>1 DEF Sums
  <2> QED
    BY <1>1, <1>6, <2>1, <2>2
<1> QED
  BY <1>6, <1>7 DEF f, g, N, r

(* Without the first message every sum is less by what it asked for.       *)
LEMMA FramesTail ==
  ASSUME NEW q \in Seq(Nat), q # << >>
  PROVE  \A i \in 0..Len(q) - 1 : Frames(q)[i + 1] = Head(q) + Frames(Tail(q))[i]
<1> DEFINE r == Tail(q)
           f == Frames(q)
           g == Frames(r)
           N == Len(q) - 1
           T == {i \in 0..N : f[i + 1] = Head(q) + g[i]}
<1>1. /\ r \in Seq(Nat) /\ Len(r) = N /\ N \in Nat /\ (\A i \in 1..N : r[i] = q[i + 1])
      /\ Head(q) = q[1] /\ q[1] \in Nat /\ Len(q) = N + 1
  BY HeadTailProperties, EmptySeq
<1>2. Sums(f, q) /\ Sums(g, r)
  BY <1>1, FramesAre
<1> HIDE DEF r, f, g, N
<1>3. 0 \in T
  <2>1. 1 \in 1..Len(q)
    BY <1>1
  <2>2. f[1] = f[1 - 1] + q[1] /\ f[0] = 0 /\ g[0] = 0
    BY <1>2, <2>1 DEF Sums
  <2> QED
    BY <1>1, <2>2
<1>4. ASSUME NEW i \in 1..N, i - 1 \in T PROVE i \in T
  <2>1. f[(i - 1) + 1] = Head(q) + g[i - 1] /\ (i - 1) + 1 = i /\ i + 1 \in 1..Len(q) /\ i \in 1..Len(r)
    BY <1>1, <1>4
  <2>2. f[i + 1] = f[(i + 1) - 1] + q[i + 1] /\ g[i] = g[i - 1] + r[i]
    BY <1>2, <2>1 DEF Sums
  <2>3. (i + 1) - 1 = i /\ r[i] = q[i + 1] /\ i \in 0..N
    BY <1>1
  <2>4. g[i - 1] \in Nat /\ q[i + 1] \in Nat
    <3>1. i - 1 \in 0..Len(r)
      BY <1>1
    <3>2. g[i - 1] \in Nat
      BY <1>2, <3>1 DEF Sums
    <3>3. q[i + 1] \in Nat
      BY <2>1
    <3> QED
      BY <3>2, <3>3
  <2>5. f[i] = Head(q) + g[i - 1] /\ f[i + 1] = f[i] + q[i + 1] /\ g[i] = g[i - 1] + q[i + 1]
    BY <2>1, <2>2, <2>3
  <2>6. f[i + 1] = Head(q) + g[i]
    BY <1>1, <2>4, <2>5, SMTT(20)
  <2> QED
    BY <2>3, <2>6
<1> HIDE DEF T
<1>5. 0..N \subseteq T
  BY <1>1, <1>3, <1>4, InductionUpTo
<1> QED
  BY <1>5 DEF f, g, N, r, T

-----------------------------------------------------------------------------
(* Whole numbers of frames in spans of time.                               *)
LEMMA FloorIs ==
  ASSUME NEW a \in Int, NEW b \in Nat \ {0}, NEW k \in Int, b * k <= a, a < (b * k) + b
  PROVE  a \div b = k
  OBVIOUS

LEMMA Division ==
  ASSUME NEW a \in Int, NEW b \in Nat \ {0}
  PROVE  /\ a \div b \in Int /\ a % b \in 0..b - 1
         /\ a = (b * (a \div b)) + (a % b)
         /\ b * (a \div b) <= a /\ a < (b * (a \div b)) + b
  OBVIOUS

LEMMA FloorShift ==
  ASSUME NEW a \in Int, NEW b \in Nat \ {0}, NEW k \in Int
  PROVE  (a + (b * k)) \div b = (a \div b) + k
<1> DEFINE d == a \div b
           x == b * d
           y == b * k
<1>1. d \in Int /\ x <= a /\ a < x + b
  BY Division
<1>2. b * (d + k) = x + y /\ x \in Int /\ y \in Int
  BY <1>1
<1>3. a + y \in Int /\ d + k \in Int /\ b * (d + k) <= a + y /\ a + y < (b * (d + k)) + b
  <2>1. x + y <= a + y /\ a + y < (x + y) + b
    <3> HIDE DEF d, x, y
    <3> QED
      BY <1>1, <1>2
  <2> HIDE DEF d, x, y
  <2> QED
    BY <1>1, <1>2, <2>1
<1> HIDE DEF d
<1>4. (a + y) \div b = d + k
  BY <1>3, FloorIs
<1> QED
  BY <1>4 DEF d

LEMMA FloorMonotone ==
  ASSUME NEW a \in Int, NEW c \in Int, NEW b \in Nat \ {0}, a <= c
  PROVE  a \div b <= c \div b
  OBVIOUS

-----------------------------------------------------------------------------
(* Types.                                                                  *)
LEMMA Bounds ==
  /\ WorkCap \in Nat /\ AudioCap \in Nat /\ UnitsPerTick \in Nat /\ Burst \in Nat
  /\ UnitsPerFrame \in Nat \ {0} /\ UnitsPerFrame \in Nat
  /\ AudioCap > 0 /\ UnitsPerFrame > 0 /\ UnitsPerTick > 0
  /\ MaxBehind = 2 * UnitsPerTick /\ MaxBehind \in Nat
  BY ConstantsAssumption DEF MaxBehind

LEMMA FramesPerTickNat == FramesPerTick \in Nat
  BY Bounds DEF FramesPerTick

(* With whole frames a tick takes them all.                                *)
LEMMA WholeTick ==
  ASSUME WholeFrames
  PROVE  UnitsPerTick = UnitsPerFrame * FramesPerTick
<1>1. UnitsPerTick = (UnitsPerFrame * FramesPerTick) + (UnitsPerTick % UnitsPerFrame)
  BY Bounds, Division DEF FramesPerTick
<1>2. UnitsPerFrame * FramesPerTick \in Int
  BY Bounds, FramesPerTickNat
<1> DEFINE x == UnitsPerFrame * FramesPerTick
<1>3. UnitsPerTick = x + 0 /\ x \in Int
  BY <1>1, <1>2 DEF WholeFrames
<1> HIDE DEF x
<1>4. UnitsPerTick = x
  BY <1>3
<1> QED
  BY <1>4 DEF x

(* A tick of whole frames is covered by these frames and no more.          *)
LEMMA TickCovered ==
  ASSUME WholeFrames
  PROVE  ((UnitsPerTick + UnitsPerFrame) - 1) \div UnitsPerFrame = FramesPerTick
<1> DEFINE F == FramesPerTick
           z == UnitsPerFrame * F
           e == (UnitsPerTick + UnitsPerFrame) - 1
<1>1. UnitsPerTick = z /\ z \in Nat /\ F \in Int
  BY WholeTick, FramesPerTickNat, Bounds
<1>2. z <= e /\ e < z + UnitsPerFrame /\ e \in Int
  <2> HIDE DEF z
  <2> QED
    BY <1>1, Bounds
<1> HIDE DEF e, F
<1>3. e \div UnitsPerFrame = F
  BY <1>1, <1>2, Bounds, FloorIs
<1> QED
  BY <1>3 DEF e, F

(* The frames that cover a span are no more than it needs.                 *)
LEMMA Covering ==
  ASSUME NEW u \in Nat \ {0}
  PROVE  /\ FramesIn(u) \in Nat /\ FramesIn(u) > 0
         /\ UnitsPerFrame * FramesIn(u) \in Nat
         /\ u <= UnitsPerFrame * FramesIn(u)
         /\ UnitsPerFrame * FramesIn(u) < u + UnitsPerFrame
<1> DEFINE k == FramesIn(u)
           x == UnitsPerFrame * k
<1>1. (u + UnitsPerFrame) - 1 \in Int /\ k = ((u + UnitsPerFrame) - 1) \div UnitsPerFrame
  BY Bounds DEF FramesIn
<1>2. k \in Int /\ x <= (u + UnitsPerFrame) - 1 /\ (u + UnitsPerFrame) - 1 < x + UnitsPerFrame
  <2> DEFINE c == (u + UnitsPerFrame) - 1
  <2>1. c \in Int /\ k = c \div UnitsPerFrame
    BY <1>1
  <2> HIDE DEF c, k
  <2> QED
    BY <2>1, Bounds, Division DEF c
<1>3. x \in Int
  BY <1>2, Bounds
<1>4. k > 0
  <2>1. UnitsPerFrame * 1 <= (u + UnitsPerFrame) - 1
    BY Bounds
  <2> HIDE DEF k
  <2>2. ~(k <= 0)
    <3> SUFFICES ASSUME k <= 0 PROVE FALSE
      OBVIOUS
    <3>1. UnitsPerFrame * k <= 0
      BY <1>2, Bounds
    <3>2. x <= 0
      BY <3>1
    <3> HIDE DEF x
    <3> QED
      BY <1>2, <1>3, <3>2, Bounds
  <2> QED
    BY <1>2, <2>2
<1>5. u <= x /\ x < u + UnitsPerFrame
  <2> HIDE DEF x
  <2> QED
    BY <1>2, <1>3, Bounds
<1>6. x \in Nat
  <2> HIDE DEF x
  <2> QED
    BY <1>3, <1>5
<1> HIDE DEF k
<1> QED
  BY <1>2, <1>4, <1>5, <1>6 DEF k

LEMMA FramesInTypes ==
  /\ FramesIn(MaxBehind) \in Nat /\ FramesIn(MaxBehind) > 0
  /\ \A u \in 1..MaxBehind : FramesIn(u) <= FramesIn(MaxBehind)
<1>1. MaxBehind \in Nat \ {0}
  BY Bounds
<1>2. ASSUME NEW u \in 1..MaxBehind PROVE FramesIn(u) <= FramesIn(MaxBehind)
  <2> DEFINE a == (u + UnitsPerFrame) - 1
             c == (MaxBehind + UnitsPerFrame) - 1
  <2>1. a \in Int /\ c \in Int /\ a <= c
    BY Bounds
  <2>2. FramesIn(u) = a \div UnitsPerFrame /\ FramesIn(MaxBehind) = c \div UnitsPerFrame
    BY Bounds DEF FramesIn
  <2> HIDE DEF a, c
  <2> QED
    BY <2>1, <2>2, Bounds, FloorMonotone
<1> QED
  BY <1>1, <1>2, Covering

(* What GetNumPendingAudioFrames returns, and where it leaves the datum.   *)
LEMMA DueTypes ==
  ASSUME TypeOK
  PROVE  /\ Due \in 0..FramesIn(MaxBehind)
         /\ UnitsPerFrame * Due \in Nat
         /\ behind - (Due * UnitsPerFrame) = behind - (UnitsPerFrame * Due)
         /\ behind - (UnitsPerFrame * Due) \in (1 - UnitsPerFrame)..MaxBehind
<1>1. behind \in (1 - UnitsPerFrame)..MaxBehind /\ awake \in BOOLEAN
  BY DEF TypeOK
<1>2. CASE awake /\ behind > 0
  <2>1. behind \in Nat \ {0} /\ behind \in 1..MaxBehind
    BY <1>1, <1>2, Bounds
  <2>2. Due = FramesIn(behind)
    BY <1>2 DEF Due
  <2>3. /\ Due \in Nat /\ UnitsPerFrame * Due \in Nat /\ behind <= UnitsPerFrame * Due
        /\ UnitsPerFrame * Due < behind + UnitsPerFrame
    BY <2>1, <2>2, Covering
  <2>4. Due <= FramesIn(MaxBehind) /\ FramesIn(MaxBehind) \in Nat
    BY <2>1, <2>2, FramesInTypes
  <2>5. Due * UnitsPerFrame = UnitsPerFrame * Due
    BY <2>3, Bounds
  <2> DEFINE x == UnitsPerFrame * Due
  <2>6. x \in Nat /\ behind <= x /\ x < behind + UnitsPerFrame
    BY <2>3
  <2> HIDE DEF x
  <2>7. behind - x \in (1 - UnitsPerFrame)..MaxBehind
    BY <2>1, <2>6, Bounds
  <2> QED
    BY <2>3, <2>4, <2>5, <2>7 DEF x
<1>3. CASE ~(awake /\ behind > 0)
  <2>1. Due = 0
    BY <1>3 DEF Due
  <2>2. 0 * UnitsPerFrame = 0 /\ UnitsPerFrame * 0 = 0 /\ behind - 0 = behind
    BY <1>1, Bounds
  <2> QED
    BY <1>1, <2>1, <2>2, FramesInTypes
<1> QED
  BY <1>2, <1>3

(* The mixer asks for the whole frames of a tick, or one more.             *)
LEMMA RequestedTypes ==
  ASSUME TypeOK
  PROVE  /\ FramesRequested \subseteq 0..FramesPerTick + 1
         /\ (credit + UnitsPerTick) % UnitsPerFrame \in 0..UnitsPerFrame
<1> DEFINE c == credit + UnitsPerTick
           n == c \div UnitsPerFrame
<1>1. c \in Nat /\ c >= UnitsPerTick /\ c <= UnitsPerTick + UnitsPerFrame
  BY Bounds DEF TypeOK
<1>2. (UnitsPerTick + (UnitsPerFrame * 1)) \div UnitsPerFrame = FramesPerTick + 1
  BY Bounds, FloorShift DEF FramesPerTick
<1>3. UnitsPerTick + (UnitsPerFrame * 1) = UnitsPerTick + UnitsPerFrame
  BY Bounds
<1> HIDE DEF c
<1>4. n \in Nat /\ n <= (UnitsPerTick + UnitsPerFrame) \div UnitsPerFrame
  <2>1. n \in Nat
    BY <1>1, Bounds
  <2>2. n <= (UnitsPerTick + UnitsPerFrame) \div UnitsPerFrame
    BY <1>1, Bounds, FloorMonotone
  <2> QED
    BY <2>1, <2>2
<1>5. n \in 0..FramesPerTick + 1 /\ 0 \in 0..FramesPerTick + 1
  BY <1>2, <1>3, <1>4, FramesPerTickNat
<1>6. FramesRequested = IF FastForward THEN {0, n} ELSE {n}
  BY DEF FramesRequested, c
<1> HIDE DEF n
<1>7. FramesRequested \subseteq 0..FramesPerTick + 1
  BY <1>5, <1>6
<1>8. c % UnitsPerFrame \in 0..UnitsPerFrame
  <2>1. c % UnitsPerFrame \in 0..UnitsPerFrame - 1
    BY <1>1, Bounds, Division
  <2> QED
    BY <2>1, Bounds
<1> QED
  BY <1>7, <1>8 DEF c

LEMMA TypesInitially == Init => TypeOK
<1> SUFFICES ASSUME Init PROVE TypeOK
  OBVIOUS
<1>1. work \in Seq(0..FramesIn(MaxBehind)) /\ Len(work) <= WorkCap
  <2>1. << >> \in Seq(0..FramesIn(MaxBehind)) /\ Len(<< >>) = 0
    OBVIOUS
  <2> QED
    BY <2>1, Bounds DEF Init
<1>2. {workOpen, audioOpen, message, awake, service} \subseteq BOOLEAN
  BY DEF Init
<1>3. credit \in 0..UnitsPerFrame /\ behind \in (1 - UnitsPerFrame)..MaxBehind
  BY Bounds DEF Init
<1>4. /\ pending \in 0..FramesIn(MaxBehind) /\ todo \in 0..FramesIn(MaxBehind)
      /\ need \in 0..FramesPerTick + 1
  BY FramesInTypes, FramesPerTickNat DEF Init
<1> QED
  BY <1>1, <1>2, <1>3, <1>4, Bounds DEF Init, TypeOK

LEMMA MainKeepsTypes ==
  ASSUME TypeOK, Advance \/ PlayMsg \/ Tick \/ Close \/ MainStep
  PROVE  TypeOK'
<1> USE Bounds
<1>1. CASE Advance
  <2>1. behind' = IF behind + 1 <= MaxBehind THEN behind + 1 ELSE MaxBehind
    <3>1. behind + 1 \in Int /\ MaxBehind \in Int
      BY DEF TypeOK
    <3>2. behind' = Min({behind + 1, MaxBehind})
      BY <1>1 DEF Advance
    <3> QED
      BY <3>1, <3>2, MinOfTwo
  <2> QED
    BY <1>1, <2>1 DEF Advance, TypeOK, workVars, audioVars, mainVars, rendererVars
<1>2. CASE PlayMsg
  <2>1. pending' = Due /\ awake' = TRUE
        /\ behind' = IF awake THEN behind - (Due * UnitsPerFrame) ELSE 0
    BY <1>2 DEF PlayMsg, GetNumPendingAudioFrames
  <2>2. 0 \in (1 - UnitsPerFrame)..MaxBehind
    OBVIOUS
  <2>3. pending' \in 0..FramesIn(MaxBehind) /\ behind' \in (1 - UnitsPerFrame)..MaxBehind
    <3> DEFINE x == behind - (UnitsPerFrame * Due)
               I == (1 - UnitsPerFrame)..MaxBehind
    <3>1. x \in I /\ 0 \in I /\ Due \in 0..FramesIn(MaxBehind)
      BY <2>2, DueTypes
    <3>2. behind' = IF awake THEN x ELSE 0
      BY <2>1, DueTypes
    <3> HIDE DEF x, I
    <3>3. behind' \in I
      BY <3>1, <3>2
    <3> QED
      BY <2>1, <3>1, <3>3 DEF I
  <2>4. sent' \in 0..Burst /\ main' = "enqueue"
    <3>1. sent < Burst /\ sent' = sent + 1 /\ main' = "enqueue"
      BY <1>2 DEF PlayMsg
    <3>2. sent \in 0..Burst
      BY DEF TypeOK
    <3> QED
      BY <3>1, <3>2
  <2> QED
    BY <1>2, <2>1, <2>3, <2>4 DEF PlayMsg, TypeOK, workVars, audioVars, rendererVars
<1>3. CASE Tick
  <2>1. PICK n \in FramesRequested : IF awake /\ n > 0 THEN main' = "mix" /\ need' = n
                                                      ELSE UNCHANGED <<main, need>>
    BY <1>3 DEF Tick
  <2>2. n \in 0..FramesPerTick + 1
    BY <2>1, RequestedTypes
  <2>3. need' \in 0..FramesPerTick + 1
        /\ main' \in {"run", "enqueue", "mix", "stop_work", "stop_audio", "join", "closed"}
    BY <2>1, <2>2 DEF TypeOK
  <2>4. credit' \in 0..UnitsPerFrame
    BY <1>3, RequestedTypes DEF Tick
  <2>5. phase' \in 0..UnitsPerTick /\ sent' \in 0..Burst
    BY <1>3 DEF Tick
  <2> QED
    BY <1>3, <2>3, <2>4, <2>5 DEF Tick, TypeOK, workVars, audioVars, rendererVars
<1>4. CASE Close
  BY <1>4 DEF Close, TypeOK, workVars, audioVars, rendererVars, clockVars
<1>5. CASE EnqueueWork
  <2>1. work' \in Seq(0..FramesIn(MaxBehind)) /\ Len(work') <= WorkCap
    BY <1>5 DEF EnqueueWork, TypeOK
  <2> QED
    BY <1>5, <2>1 DEF EnqueueWork, TypeOK, audioVars, rendererVars, clockVars
<1>6. CASE MixerCallBack
  <2> DEFINE n == Min({need, audio})
  <2>1. n = (IF need <= audio THEN need ELSE audio) /\ need \in Int /\ audio \in Int
    BY MinOfTwo DEF TypeOK
  <2>2. n \in 0..need /\ n \in 0..audio
    BY <2>1 DEF TypeOK
  <2>3. audio' = audio - n /\ need' = need - n
    BY <1>6 DEF MixerCallBack
  <2> HIDE DEF n
  <2>4. audio - n \in 0..AudioCap /\ need - n \in 0..FramesPerTick + 1
    BY <2>2, FramesPerTickNat DEF TypeOK
  <2>5. behind' \in (1 - UnitsPerFrame)..MaxBehind /\ awake' \in BOOLEAN
        /\ main' \in {"run", "enqueue", "mix", "stop_work", "stop_audio", "join", "closed"}
    <3>1. (UNCHANGED <<main, behind, awake>>) \/ (main' = "run" /\ behind' = 0 /\ awake' \in {TRUE, FALSE})
      BY <1>6 DEF MixerCallBack
    <3>2. CASE UNCHANGED <<main, behind, awake>>
      BY <3>2 DEF TypeOK
    <3>3. CASE main' = "run" /\ behind' = 0 /\ awake' \in {TRUE, FALSE}
      <4>1. awake' \in BOOLEAN
        BY <3>3, Zenon
      <4>2. 0 \in (1 - UnitsPerFrame)..MaxBehind
        OBVIOUS
      <4> QED
        BY <3>3, <4>1, <4>2, Zenon
    <3> QED
      BY <3>1, <3>2, <3>3
  <2> QED
    BY <1>6, <2>3, <2>4, <2>5 DEF MixerCallBack, TypeOK, workVars, rendererVars
<1>7. CASE StopWork
  BY <1>7 DEF StopWork, TypeOK, audioVars, rendererVars, clockVars
<1>8. CASE StopAudio
  BY <1>8 DEF StopAudio, TypeOK, workVars, rendererVars, clockVars
<1>9. CASE Join
  BY <1>9 DEF Join, TypeOK, workVars, audioVars, rendererVars, clockVars
<1> QED
  BY <1>1, <1>2, <1>3, <1>4, <1>5, <1>6, <1>7, <1>8, <1>9 DEF MainStep

(* What a step of BulkEnqueue moves.                                       *)
LEMMA FillMoves ==
  ASSUME TypeOK, FillAudio
  PROVE  \E n \in 0..todo : /\ audio' = audio + n /\ n <= AudioCap - audio
                            /\ todo' = IF audioOpen THEN todo - n ELSE 0
<1> DEFINE n == IF audioOpen THEN Min({todo, AudioCap - audio}) ELSE 0
<1>1. Min({todo, AudioCap - audio}) = IF todo <= AudioCap - audio THEN todo ELSE AudioCap - audio
  BY MinOfTwo, Bounds, FramesInTypes DEF TypeOK
<1>2. n \in 0..todo /\ n <= AudioCap - audio
  BY <1>1, Bounds, FramesInTypes DEF TypeOK
<1>3. audio' = audio + n /\ todo' = IF audioOpen THEN todo - n ELSE 0
  BY DEF FillAudio
<1> HIDE DEF n
<1> QED
  BY <1>2, <1>3

LEMMA RendererKeepsTypes ==
  ASSUME TypeOK, RendererStep
  PROVE  TypeOK'
<1> USE Bounds
<1>1. CASE Render
  BY <1>1 DEF Render, TypeOK, workVars, audioVars, mainVars, clockVars
<1>2. CASE Pick
  <2>1. /\ work' \in Seq(0..FramesIn(MaxBehind)) /\ Len(work') <= WorkCap
        /\ todo' \in 0..FramesIn(MaxBehind)
    <3>1. CASE work = <<>>
      BY <1>2, <3>1, FramesInTypes DEF Pick, TypeOK
    <3>2. CASE work # <<>>
      <4>1. /\ Tail(work) \in Seq(0..FramesIn(MaxBehind)) /\ Len(Tail(work)) = Len(work) - 1
            /\ Head(work) \in 0..FramesIn(MaxBehind) /\ Len(work) \in Nat
        <5> DEFINE S == 0..FramesIn(MaxBehind)
        <5>1. work \in Seq(S)
          BY DEF TypeOK
        <5> HIDE DEF S
        <5>2. Tail(work) \in Seq(S) /\ Len(Tail(work)) = Len(work) - 1 /\ Head(work) \in S /\ Len(work) \in Nat
          BY <3>2, <5>1, HeadTailProperties, EmptySeq
        <5> QED
          BY <5>2 DEF S
      <4> QED
        BY <1>2, <3>2, <4>1 DEF Pick, TypeOK
    <3> QED
      BY <3>1, <3>2
  <2>2. message' \in BOOLEAN /\ renderer' \in {"render", "apply"}
    BY <1>2 DEF Pick
  <2> QED
    BY <1>2, <2>1, <2>2 DEF Pick, TypeOK, audioVars, mainVars, clockVars
<1>3. CASE RenderAudioFrames
  BY <1>3 DEF RenderAudioFrames, TypeOK, workVars, audioVars, mainVars, clockVars
<1>4. CASE FillAudio
  <2>1. PICK n \in 0..todo : /\ audio' = audio + n /\ n <= AudioCap - audio
                             /\ todo' = IF audioOpen THEN todo - n ELSE 0
    BY <1>4, FillMoves
  <2>2. audio' \in 0..AudioCap /\ todo' \in 0..FramesIn(MaxBehind)
    BY <2>1, FramesInTypes DEF TypeOK
  <2>3. renderer' \in {"loop", "fill", "apply"}
    BY <1>4 DEF FillAudio
  <2> QED
    BY <1>4, <2>2, <2>3 DEF FillAudio, TypeOK, workVars, mainVars, clockVars
<1>5. CASE ApplyMessage
  BY <1>5 DEF ApplyMessage, TypeOK, workVars, audioVars, mainVars, clockVars
<1> QED
  BY <1>1, <1>2, <1>3, <1>4, <1>5 DEF RendererStep

-----------------------------------------------------------------------------
(* Where the threads are, and what they count there.                       *)
InFlight == IF main = "enqueue" THEN pending ELSE 0

RendererControl ==
  /\ todo > 0 <=> renderer \in {"render", "fill"}
  /\ ~message => todo <= 1

(* The last two parts need a tick of whole frames: a message asks for no   *)
(* frame that ends after the tick, and the mixer takes them all.           *)
Closing == {"stop_work", "stop_audio", "join", "closed"}

MainControl ==
  /\ need > 0 <=> main = "mix"
  /\ main \in {"mix", "enqueue"} => awake
  /\ main \in Closing => ~awake
  /\ main = "mix" => phase = 0 /\ sent = 0 /\ behind <= UnitsPerTick /\ need <= FramesPerTick
  /\ main = "run" /\ ~awake => sent = 0
  /\ awake /\ main # "mix" => behind + (UnitsPerFrame * InFlight) <= phase
  /\ credit = 0

LEMMA WholeRequest ==
  ASSUME WholeFrames, ~FastForward, credit = 0
  PROVE  /\ FramesRequested = {FramesPerTick} /\ FramesPerTick \in Nat /\ FramesPerTick > 0
         /\ (credit + UnitsPerTick) % UnitsPerFrame = 0
<1>1. credit + UnitsPerTick = UnitsPerTick
  BY Bounds
<1>2. FramesRequested = {FramesPerTick}
  BY <1>1 DEF FramesRequested, FramesPerTick
<1>3. FramesPerTick # 0
  BY WholeTick, Bounds
<1> QED
  BY <1>1, <1>2, <1>3, FramesPerTickNat DEF WholeFrames

LEMMA RendererKeepsControl ==
  ASSUME TypeOK, RendererControl, RendererStep
  PROVE  RendererControl'
<1>1. CASE Render
  BY <1>1 DEF Render, RendererControl
<1>2. CASE Pick
  <2>1. todo' \in Nat
    BY <1>2, RendererKeepsTypes, Bounds DEF RendererStep, TypeOK
  <2>2. (todo' > 0 <=> renderer' \in {"render", "fill"})
    BY <1>2 DEF Pick
  <2>3. ~message' => todo' <= 1
    <3>1. (message' = (work # <<>>)) /\ (todo' = IF work = <<>> THEN 1 ELSE Head(work))
      BY <1>2 DEF Pick
    <3>2. ~message' => todo' = 1
      BY <3>1, Zenon
    <3> QED
      BY <3>2
  <2> QED
    BY <2>2, <2>3 DEF RendererControl
<1>3. CASE RenderAudioFrames
  BY <1>3 DEF RenderAudioFrames, RendererControl
<1>4. CASE FillAudio
  <2>1. PICK n \in 0..todo : todo' = IF audioOpen THEN todo - n ELSE 0
    BY <1>4, FillMoves
  <2>2. ~message' => todo' <= 1
    BY <1>4, <2>1, Bounds DEF FillAudio, RendererControl, TypeOK
  <2>3. todo' > 0 <=> renderer' \in {"render", "fill"}
    BY <1>4 DEF FillAudio
  <2> QED
    BY <2>2, <2>3 DEF RendererControl
<1>5. CASE ApplyMessage
  BY <1>5 DEF ApplyMessage, RendererControl, TypeOK
<1> QED
  BY <1>1, <1>2, <1>3, <1>4, <1>5 DEF RendererStep

LEMMA MainKeepsControl ==
  ASSUME TypeOK, MainControl, WholeFrames, ~FastForward, Advance \/ PlayMsg \/ Tick \/ Close \/ MainStep
  PROVE  MainControl'
<1> USE Bounds
<1>1. CASE Advance
  <2>1. behind' = IF behind + 1 <= MaxBehind THEN behind + 1 ELSE MaxBehind
    <3>1. behind + 1 \in Int /\ MaxBehind \in Int
      BY DEF TypeOK
    <3>2. behind' = Min({behind + 1, MaxBehind})
      BY <1>1 DEF Advance
    <3> QED
      BY <3>1, <3>2, MinOfTwo
  <2>2. main = "run" /\ main' = "run" /\ awake' = awake /\ need' = need /\ phase' = phase + 1
        /\ sent' = sent /\ credit' = credit
    BY <1>1 DEF Advance, mainVars
  <2>3. InFlight = 0 /\ InFlight' = 0 /\ UnitsPerFrame * 0 = 0
    BY <2>2 DEF InFlight
  <2>4. awake => behind <= phase
    BY <2>2, <2>3 DEF MainControl, TypeOK
  <2> DEFINE d == behind'
  <2>5. d \in Int /\ d <= behind + 1
    BY <2>1 DEF TypeOK
  <2>6. awake => d + 0 <= phase + 1
    <3> HIDE DEF d
    <3> QED
      BY <2>4, <2>5 DEF TypeOK
  <2> QED
    BY <2>2, <2>3, <2>6 DEF MainControl, Closing, d
<1>2. CASE PlayMsg
  <2>1. /\ main = "run" /\ main' = "enqueue" /\ awake' = TRUE /\ pending' = Due
        /\ behind' = (IF awake THEN behind - (Due * UnitsPerFrame) ELSE 0)
        /\ need' = need /\ phase' = phase /\ credit' = credit
    BY <1>2 DEF PlayMsg, GetNumPendingAudioFrames
  <2>2. InFlight = 0 /\ InFlight' = Due /\ UnitsPerFrame * 0 = 0
    BY <2>1 DEF InFlight
  <2> DEFINE x == UnitsPerFrame * Due
  <2>3. x \in Nat /\ Due * UnitsPerFrame = x
    BY DueTypes
  <2>4. behind' + x <= phase
    <3>1. CASE awake
      <4>1. behind' = behind - x /\ behind <= phase /\ behind \in Int /\ phase \in Int
        BY <2>1, <2>2, <2>3, <3>1 DEF MainControl, TypeOK
      <4> HIDE DEF x
      <4> QED
        BY <2>3, <4>1
    <3>2. CASE ~awake
      <4>1. Due = 0 /\ behind' = 0 /\ phase \in Nat
        BY <2>1, <3>2 DEF Due, TypeOK
      <4> QED
        BY <2>2, <4>1
    <3> QED
      BY <3>1, <3>2
  <2> QED
    BY <2>1, <2>2, <2>4 DEF MainControl, Closing
<1>3. CASE Tick
  <2>1. credit = 0 /\ FramesRequested = {FramesPerTick} /\ FramesPerTick \in Nat /\ FramesPerTick > 0
        /\ (credit + UnitsPerTick) % UnitsPerFrame = 0
    BY WholeRequest DEF MainControl
  <2>2. /\ main = "run" /\ phase = UnitsPerTick /\ phase' = 0 /\ sent' = 0 /\ credit' = 0
        /\ awake' = awake /\ behind' = behind
        /\ IF awake THEN main' = "mix" /\ need' = FramesPerTick ELSE main' = main /\ need' = need
    BY <1>3, <2>1 DEF Tick
  <2>3. InFlight = 0 /\ UnitsPerFrame * 0 = 0
    BY <2>2 DEF InFlight
  <2>4. awake => behind <= UnitsPerTick
    BY <2>2, <2>3 DEF MainControl, TypeOK
  <2> QED
    BY <2>1, <2>2, <2>4 DEF MainControl, Closing
<1>4. CASE Close
  BY <1>4 DEF Close, MainControl, InFlight, Closing, TypeOK, clockVars
<1>5. CASE EnqueueWork
  <2>1. /\ main = "enqueue" /\ main' = "run"
        /\ UNCHANGED <<need, awake, behind, phase, credit, sent, pending>>
    BY <1>5 DEF EnqueueWork, clockVars
  <2>2. InFlight = pending /\ InFlight' = 0 /\ UnitsPerFrame * 0 = 0
    BY <2>1 DEF InFlight
  <2>3. awake /\ behind <= phase
    <3>1. awake /\ behind + (UnitsPerFrame * pending) <= phase
      BY <2>1, <2>2 DEF MainControl
    <3>2. UnitsPerFrame * pending \in Nat
      BY FramesInTypes DEF TypeOK
    <3> DEFINE x == UnitsPerFrame * pending
    <3>3. x \in Nat /\ behind + x <= phase
      BY <3>1, <3>2
    <3> HIDE DEF x
    <3> QED
      BY <3>1, <3>3 DEF TypeOK
  <2>4. behind + 0 <= phase
    BY <2>3 DEF TypeOK
  <2> QED
    BY <2>1, <2>2, <2>3, <2>4 DEF MainControl, Closing
<1>6. CASE MixerCallBack
  <2> DEFINE n == Min({need, audio})
  <2>1. n = (IF need <= audio THEN need ELSE audio) /\ need \in Nat /\ audio \in Nat
    BY MinOfTwo DEF TypeOK
  <2>2. need' = need - n /\ UNCHANGED <<pending, phase, credit, sent>> /\ main = "mix" /\ audio > 0
    BY <1>6 DEF MixerCallBack
  <2>3. IF n < need THEN UNCHANGED <<main, behind, awake>>
        ELSE main' = "run" /\ behind' = 0 /\ awake' \in {TRUE, FALSE}
    BY <1>6 DEF MixerCallBack
  <2> HIDE DEF n
  <2>4. phase = 0 /\ sent = 0 /\ behind <= UnitsPerTick /\ awake
        /\ need <= FramesPerTick /\ credit = 0
    BY <2>2 DEF MainControl
  <2>5. CASE n < need
    <3>1. need' > 0 /\ need' <= FramesPerTick /\ UNCHANGED <<main, behind, awake>>
      BY <2>1, <2>2, <2>3, <2>4, <2>5, FramesPerTickNat
    <3> QED
      BY <2>2, <2>4, <3>1 DEF MainControl, Closing
  <2>6. CASE ~(n < need)
    <3>1. need' = 0 /\ main' = "run" /\ behind' = 0 /\ awake' \in {TRUE, FALSE}
      <4>1. n = need
        BY <2>1, <2>6
      <4>2. need - need = 0
        BY <2>1
      <4> QED
        BY <2>2, <2>3, <2>6, <4>1, <4>2
    <3>2. InFlight' = 0 /\ UnitsPerFrame * 0 = 0 /\ 0 + 0 <= 0
      BY <3>1 DEF InFlight
    <3> QED
      BY <2>2, <2>4, <3>1, <3>2 DEF MainControl, Closing
  <2> QED
    BY <2>5, <2>6
<1>7. CASE StopWork
  BY <1>7 DEF StopWork, MainControl, InFlight, Closing, clockVars
<1>8. CASE StopAudio
  BY <1>8 DEF StopAudio, MainControl, InFlight, Closing, clockVars
<1>9. CASE Join
  BY <1>9 DEF Join, MainControl, InFlight, Closing, clockVars
<1> QED
  BY <1>1, <1>2, <1>3, <1>4, <1>5, <1>6, <1>7, <1>8, <1>9 DEF MainStep

-----------------------------------------------------------------------------
(* The frames that are queued or wanted are no more than the audio queue   *)
(* can take, the one rendered ahead and those that last_rendered_ms has    *)
(* been moved past since the tick began.                                   *)
Total == Frames(work)[Len(work)]

Ahead == IF main \in Closing THEN FramesPerTick
         ELSE IF awake THEN (phase - behind) \div UnitsPerFrame ELSE 0

(* A renderer that has caught up with the messages may render ahead while  *)
(* the mixer is still taking what it needs.                                *)
CaughtUp == main = "mix" /\ work = << >> /\ ~message

Room ==
  \/ CaughtUp
  \/ Total + (todo + InFlight + audio) <= AudioCap + 1 + need + Ahead

(* The datum is less than a frame ahead of now, and of the next tick.      *)
LEMMA AheadTypes ==
  ASSUME TypeOK, MainControl, WholeFrames
  PROVE  /\ Ahead \in Int /\ Ahead <= FramesPerTick
         /\ main # "mix" => Ahead >= InFlight
         /\ main = "mix" => Ahead <= 0
<1> USE Bounds
<1>1. /\ phase \in 0..UnitsPerTick /\ behind \in (1 - UnitsPerFrame)..MaxBehind /\ awake \in BOOLEAN
      /\ pending \in Nat /\ FramesPerTick \in Nat /\ InFlight \in Nat
  BY FramesInTypes, FramesPerTickNat DEF TypeOK, InFlight
<1>2. main # "mix" /\ ~awake => InFlight = 0
  BY DEF MainControl, InFlight
<1>3. CASE main \in Closing
  <2>1. main # "mix" /\ InFlight = 0 /\ Ahead = FramesPerTick
    BY <1>3 DEF Closing, InFlight, Ahead
  <2> QED
    BY <1>1, <2>1
<1>4. CASE main \notin Closing /\ ~awake
  <2>1. main # "mix" /\ Ahead = 0
    BY <1>4 DEF Ahead, MainControl
  <2> QED
    BY <1>1, <1>2, <1>4, <2>1
<1>5. CASE main \notin Closing /\ awake
  <2> DEFINE q == phase - behind
             F == FramesPerTick
             v == InFlight
  <2>1. Ahead = q \div UnitsPerFrame /\ q \in Int
    BY <1>1, <1>5 DEF Ahead
  <2>2. q <= (UnitsPerTick + UnitsPerFrame) - 1
    BY <1>1
  <2>3. Ahead \in Int
    BY <2>1, Division
  <2>4. Ahead <= F
    <3>1. UnitsPerTick = UnitsPerFrame * F
      BY WholeTick
    <3> DEFINE x == UnitsPerFrame * F
               c == (x + UnitsPerFrame) - 1
    <3>2. x \in Nat /\ q <= c /\ x = UnitsPerTick
      BY <2>2, <3>1
    <3>3. x <= c /\ c < x + UnitsPerFrame /\ c \in Int
      <4> HIDE DEF x
      <4> QED
        BY <3>2
    <3>4. c \div UnitsPerFrame = F
      <4> HIDE DEF c, F
      <4>1. F \in Int
        BY <1>1 DEF F
      <4> QED
        BY <3>3, <4>1, FloorIs
    <3>5. q \div UnitsPerFrame <= c \div UnitsPerFrame
      <4> HIDE DEF q, c
      <4> QED
        BY <2>1, <3>2, <3>3, FloorMonotone
    <3> QED
      BY <2>1, <3>4, <3>5
  <2>5. main # "mix" => Ahead >= v
    <3> SUFFICES ASSUME main # "mix" PROVE Ahead >= v
      OBVIOUS
    <3> DEFINE x == UnitsPerFrame * v
    <3>1. x \in Int /\ behind + x <= phase
      BY <1>1, <1>5 DEF MainControl
    <3>2. x <= q
      <4> HIDE DEF x
      <4> QED
        BY <1>1, <3>1
    <3>3. x = 0 + (UnitsPerFrame * v) /\ v \in Int /\ 0 \div UnitsPerFrame = 0
      BY <1>1
    <3>4. x \div UnitsPerFrame = v
      <4>1. UnitsPerFrame * v <= x /\ x < (UnitsPerFrame * v) + UnitsPerFrame
        <5>1. x = UnitsPerFrame * v
          OBVIOUS
        <5> HIDE DEF x
        <5>2. x <= x /\ x < x + UnitsPerFrame
          BY <3>1
        <5> QED
          BY <5>1, <5>2
      <4> HIDE DEF x, v
      <4> QED
        BY <3>1, <3>3, <4>1, FloorIs
    <3> HIDE DEF q, x
    <3>5. x \div UnitsPerFrame <= q \div UnitsPerFrame
      BY <2>1, <3>1, <3>2, FloorMonotone
    <3> QED
      BY <2>1, <3>4, <3>5
  <2>6. main = "mix" => Ahead <= 0
    <3> SUFFICES ASSUME main = "mix" PROVE Ahead <= 0
      OBVIOUS
    <3>1. phase = 0
      BY DEF MainControl
    <3>2. q <= UnitsPerFrame - 1 /\ UnitsPerFrame * 0 = 0
      BY <1>1, <3>1
    <3>3. (UnitsPerFrame - 1) \div UnitsPerFrame = 0
      OBVIOUS
    <3> HIDE DEF q
    <3>4. q \div UnitsPerFrame <= (UnitsPerFrame - 1) \div UnitsPerFrame
      BY <2>1, <3>2, FloorMonotone
    <3> QED
      BY <2>1, <3>3, <3>4
  <2> QED
    BY <2>3, <2>4, <2>5, <2>6
<1> QED
  BY <1>3, <1>4, <1>5

LEMMA SumTypes ==
  ASSUME TypeOK
  PROVE  /\ work \in Seq(Nat) /\ Len(work) \in Nat /\ Total \in Nat
         /\ \A i \in 0..Len(work) : Frames(work)[i] \in Nat
         /\ work = << >> => Total = 0
<1>1. work \in Seq(Nat) /\ Len(work) \in Nat
  <2> DEFINE n == FramesIn(MaxBehind)
  <2>1. n \in Nat /\ work \in Seq(0..n)
    BY FramesInTypes DEF TypeOK
  <2> HIDE DEF n
  <2> QED
    BY <2>1
<1>2. Sums(Frames(work), work)
  BY <1>1, FramesAre
<1>3. \A i \in 0..Len(work) : Frames(work)[i] \in Nat
  BY <1>2 DEF Sums
<1>4. Len(work) \in 0..Len(work)
  BY <1>1
<1>5. work = << >> => Total = 0
  <2>1. work = << >> => Len(work) = 0
    OBVIOUS
  <2> QED
    BY <1>2, <2>1 DEF Sums, Total
<1> QED
  BY <1>1, <1>3, <1>4, <1>5 DEF Total

LEMMA MainKeepsRoom ==
  ASSUME TypeOK, MainControl, RendererControl, Room, WholeFrames, ~FastForward,
         Advance \/ PlayMsg \/ Tick \/ Close \/ MainStep
  PROVE  Room'
<1> USE Bounds, FramesPerTickNat
<1>1. Total \in Nat /\ Ahead \in Int
  BY SumTypes, AheadTypes
<1>2. work' = work => Total' = Total
  BY DEF Total
<1>3. /\ todo \in Nat /\ pending \in Nat /\ behind \in Int /\ audio \in Nat /\ need \in Nat /\ phase \in Nat
      /\ awake \in BOOLEAN /\ message \in BOOLEAN
  BY FramesInTypes DEF TypeOK
<1>4. ~CaughtUp => Total + (todo + InFlight + audio) <= AudioCap + 1 + need + Ahead
  BY DEF Room
<1>5. CASE Advance
  <2>1. /\ work' = work /\ todo' = todo /\ audio' = audio /\ need' = need /\ phase' = phase + 1
        /\ main = "run" /\ main' = "run" /\ awake' = awake /\ pending' = pending
    BY <1>5 DEF Advance, workVars, audioVars, mainVars, rendererVars
  <2>2. behind' \in Int /\ behind' <= behind + 1
    <3>1. behind' = Min({behind + 1, MaxBehind})
      BY <1>5 DEF Advance
    <3>2. Min({behind + 1, MaxBehind}) = IF behind + 1 <= MaxBehind THEN behind + 1 ELSE MaxBehind
      BY <1>3, MinOfTwo
    <3> QED
      BY <1>3, <3>1, <3>2
  <2>3. Total' = Total /\ InFlight = 0 /\ InFlight' = 0 /\ ~CaughtUp
    BY <1>2, <2>1 DEF InFlight, CaughtUp
  <2> DEFINE d == behind'
             c == (phase + 1) - d
             e == Ahead'
  <2>4. e \in Int /\ Ahead <= e
    <3>1. CASE awake
      <4>1. Ahead = (phase - behind) \div UnitsPerFrame /\ e = c \div UnitsPerFrame
        BY <2>1, <3>1 DEF Ahead, Closing
      <4>2. c \in Int /\ phase - behind <= c /\ phase - behind \in Int
        <5>1. d \in Int /\ d <= behind + 1
          BY <2>2
        <5> HIDE DEF d
        <5> QED
          BY <1>3, <5>1
      <4> HIDE DEF c, e
      <4> QED
        BY <4>1, <4>2, Division, FloorMonotone
    <3>2. CASE ~awake
      BY <2>1, <3>2 DEF Ahead, Closing
    <3> QED
      BY <1>3, <3>1, <3>2
  <2>5. Total + (todo + 0 + audio) <= AudioCap + 1 + need + Ahead
    BY <1>4, <2>3
  <2> HIDE DEF e
  <2>6. Total + (todo + 0 + audio) <= AudioCap + 1 + need + e
    BY <1>1, <1>3, <2>4, <2>5
  <2> QED
    BY <2>1, <2>3, <2>6 DEF Room, e
<1>6. CASE PlayMsg
  <2>1. /\ work' = work /\ todo' = todo /\ audio' = audio /\ need' = need /\ phase' = phase
        /\ main = "run" /\ main' = "enqueue" /\ awake' = TRUE /\ pending' = Due
        /\ behind' = (IF awake THEN behind - (Due * UnitsPerFrame) ELSE 0)
    BY <1>6 DEF PlayMsg, GetNumPendingAudioFrames, workVars, audioVars, rendererVars
  <2>2. Total' = Total /\ InFlight = 0 /\ InFlight' = Due /\ ~CaughtUp
    BY <1>2, <2>1 DEF InFlight, CaughtUp
  <2>3. Due \in Nat /\ UnitsPerFrame * Due \in Nat /\ Due * UnitsPerFrame = UnitsPerFrame * Due
    BY DueTypes, FramesInTypes
  <2> DEFINE e == Ahead'
             d == Due
             c == phase - behind
             x == UnitsPerFrame * d
  <2>4. e \in Int /\ Ahead + d <= e
    <3>1. CASE awake
      <4>1. Ahead = c \div UnitsPerFrame /\ c \in Int
        BY <1>3, <2>1, <3>1 DEF Ahead, Closing
      <4>2. phase - (behind - x) = c + x
        <5>1. x \in Int
          BY <2>3
        <5> HIDE DEF x
        <5> QED
          BY <1>3, <5>1
      <4>3. e = (phase - (behind - x)) \div UnitsPerFrame
        <5>1. behind' = behind - x /\ main' \notin Closing
          BY <2>1, <2>3, <3>1 DEF Closing
        <5> QED
          BY <2>1, <5>1 DEF Ahead
      <4>4. (c + x) \div UnitsPerFrame = (c \div UnitsPerFrame) + d
        <5>1. d \in Int
          BY <2>3
        <5> HIDE DEF c, d
        <5> QED
          BY <4>1, <5>1, FloorShift
      <4>5. e = Ahead + d
        BY <4>1, <4>2, <4>3, <4>4
      <4>6. d \in Int
        BY <2>3
      <4> HIDE DEF d, e
      <4> QED
        BY <1>1, <4>5, <4>6
    <3>2. CASE ~awake
      <4>1. Ahead = 0 /\ d = 0 /\ behind' = 0
        BY <2>1, <3>2 DEF Ahead, Closing, Due
      <4>2. e = phase \div UnitsPerFrame
        <5>1. main' \notin Closing /\ phase - 0 = phase
          BY <1>3, <2>1 DEF Closing
        <5> QED
          BY <2>1, <4>1, <5>1 DEF Ahead
      <4>3. phase \div UnitsPerFrame \in Nat
        BY <1>3
      <4> QED
        BY <4>1, <4>2, <4>3
    <3> QED
      BY <1>3, <3>1, <3>2
  <2>5. Total + (todo + 0 + audio) <= AudioCap + 1 + need + Ahead
    BY <1>4, <2>2
  <2>6. d \in Nat
    BY <2>3
  <2> HIDE DEF d, e
  <2>7. Total + (todo + d + audio) <= AudioCap + 1 + need + e
    BY <1>1, <1>3, <2>4, <2>5, <2>6
  <2> QED
    BY <2>1, <2>2, <2>7 DEF Room, d, e
<1>7. CASE Tick
  <2>1. FramesRequested = {FramesPerTick} /\ FramesPerTick > 0
    BY WholeRequest DEF MainControl
  <2>2. /\ work' = work /\ todo' = todo /\ audio' = audio /\ behind' = behind /\ awake' = awake
        /\ main = "run" /\ phase = UnitsPerTick /\ phase' = 0 /\ pending' = pending
        /\ IF awake THEN main' = "mix" /\ need' = FramesPerTick ELSE main' = main /\ need' = need
    BY <1>7, <2>1 DEF Tick, workVars, audioVars, rendererVars
  <2>3. Total' = Total /\ need = 0 /\ InFlight = 0 /\ InFlight' = 0 /\ ~CaughtUp
    BY <1>2, <1>3, <2>2 DEF MainControl, InFlight, CaughtUp
  <2>4. Total + (todo + 0 + audio) <= AudioCap + 1 + 0 + Ahead
    BY <1>4, <2>3
  <2>5. CASE awake
    <3> DEFINE c == 0 - behind
               F == FramesPerTick
               x == UnitsPerFrame * F
               e == c \div UnitsPerFrame
    <3>1. Ahead' = e /\ Ahead = (UnitsPerTick - behind) \div UnitsPerFrame /\ need' = F
      BY <2>2, <2>5 DEF Ahead, Closing
    <3>2. UnitsPerTick - behind = c + x /\ c \in Int /\ F \in Int
      <4>1. UnitsPerTick = x
        BY WholeTick
      <4> HIDE DEF x
      <4> QED
        BY <1>3, <4>1
    <3>3. Ahead = e + F /\ e \in Int
      <4>1. (c + (UnitsPerFrame * F)) \div UnitsPerFrame = (c \div UnitsPerFrame) + F
        <5> HIDE DEF c, F
        <5> QED
          BY <3>2, FloorShift
      <4>2. c \div UnitsPerFrame \in Int
        <5> HIDE DEF c
        <5> QED
          BY <3>2, Division
      <4> QED
        BY <3>1, <3>2, <4>1, <4>2
    <3> HIDE DEF e, F
    <3>4. Total + (todo + 0 + audio) <= AudioCap + 1 + F + e
      BY <1>1, <1>3, <2>4, <3>2, <3>3
    <3> QED
      BY <2>2, <2>3, <3>1, <3>4 DEF Room
  <2>6. CASE ~awake
    <3>1. Ahead = 0 /\ Ahead' = 0 /\ need' = 0
      BY <2>2, <2>3, <2>6 DEF Ahead, Closing
    <3> QED
      BY <2>2, <2>3, <2>4, <3>1 DEF Room
  <2> QED
    BY <1>3, <2>5, <2>6
<1>8. CASE Close
  <2>1. /\ work' = work /\ todo' = todo /\ audio' = audio
        /\ main = "run" /\ main' = "stop_work" /\ need' = need
    BY <1>8 DEF Close, workVars, audioVars, rendererVars
  <2>2. Total' = Total /\ InFlight = 0 /\ InFlight' = 0 /\ ~CaughtUp /\ Ahead' = FramesPerTick
    BY <1>2, <2>1 DEF InFlight, CaughtUp, Ahead, Closing
  <2>3. Ahead <= FramesPerTick
    BY AheadTypes
  <2>4. Total + (todo + 0 + audio) <= AudioCap + 1 + need + Ahead
    BY <1>4, <2>2
  <2>5. Total + (todo + 0 + audio) <= AudioCap + 1 + need + FramesPerTick
    BY <1>1, <1>3, <2>3, <2>4
  <2> QED
    BY <2>1, <2>2, <2>5 DEF Room
<1>9. CASE EnqueueWork
  <2>1. /\ work' = Append(work, pending) /\ todo' = todo /\ audio' = audio /\ behind' = behind
        /\ awake' = awake /\ main = "enqueue" /\ main' = "run" /\ need' = need /\ phase' = phase
    BY <1>9 DEF EnqueueWork, audioVars, rendererVars, clockVars
  <2>2. work \in Seq(Nat) /\ Len(Append(work, pending)) = Len(work) + 1
    BY SumTypes
  <2>3. Total' = Total + pending
    <3>1. Frames(Append(work, pending))[Len(work) + 1] = Frames(work)[Len(work)] + pending
      BY <1>3, <2>2, FramesAppend
    <3>2. Total' = Frames(Append(work, pending))[Len(Append(work, pending))]
      BY <2>1 DEF Total
    <3> QED
      BY <2>2, <3>1, <3>2 DEF Total
  <2>4. InFlight = pending /\ InFlight' = 0 /\ ~CaughtUp /\ Ahead' = Ahead
    BY <2>1 DEF InFlight, CaughtUp, Ahead, Closing
  <2>5. (Total + pending) + (todo + 0 + audio) <= AudioCap + 1 + need + Ahead
    BY <1>1, <1>3, <1>4, <2>4
  <2> QED
    BY <2>1, <2>3, <2>4, <2>5 DEF Room
<1>10. CASE MixerCallBack
  <2> DEFINE n == Min({need, audio})
  <2>1. n = IF need <= audio THEN need ELSE audio
    BY <1>3, MinOfTwo
  <2>2. /\ need' = need - n /\ audio' = audio - n /\ phase' = phase /\ main = "mix" /\ audio > 0
        /\ work' = work /\ todo' = todo /\ message' = message
    BY <1>10 DEF MixerCallBack, workVars, rendererVars
  <2>3. IF n < need THEN UNCHANGED <<main, behind, awake>>
        ELSE main' = "run" /\ behind' = 0 /\ awake' \in {TRUE, FALSE}
    BY <1>10 DEF MixerCallBack
  <2> HIDE DEF n
  <2>4. phase = 0 /\ awake /\ Total' = Total /\ InFlight = 0 /\ InFlight' = 0 /\ Ahead <= 0
    BY <1>2, <2>2, <2>3, AheadTypes DEF MainControl, InFlight
  <2>5. CASE n < need
    <3>1. main' = main /\ Ahead' = Ahead /\ (CaughtUp' <=> CaughtUp)
      BY <2>2, <2>3, <2>5 DEF Ahead, CaughtUp
    <3> DEFINE d == audio - n
               e == need - n
    <3>2. ASSUME ~CaughtUp PROVE Total + (todo + 0 + d) <= AudioCap + 1 + e + Ahead
      BY <1>1, <1>3, <1>4, <2>1, <2>4, <3>2
    <3> HIDE DEF d, e
    <3>3. need' = e /\ audio' = d
      BY <2>2 DEF d, e
    <3> QED
      BY <2>2, <2>4, <3>1, <3>2, <3>3 DEF Room
  <2>6. CASE ~(n < need)
    <3>1. main' = "run" /\ behind' = 0 /\ n = need
      BY <1>3, <2>1, <2>3, <2>6
    <3>2. Ahead' = 0
      <4>1. main' \notin Closing /\ 0 - 0 = 0 /\ 0 \div UnitsPerFrame = 0
        BY <3>1 DEF Closing
      <4> QED
        BY <2>2, <2>4, <3>1, <4>1 DEF Ahead
    <3>3. Total + (todo + audio) <= AudioCap + 1 + need
      <4>1. CASE CaughtUp
        <5>1. Total = 0 /\ audio <= AudioCap
          BY <4>1, SumTypes DEF CaughtUp, TypeOK
        <5>2. todo <= 1
          BY <4>1 DEF CaughtUp, RendererControl
        <5> QED
          BY <1>3, <5>1, <5>2
      <4>2. CASE ~CaughtUp
        BY <1>1, <1>3, <1>4, <2>4, <4>2
      <4> QED
        BY <4>1, <4>2
    <3> DEFINE d == audio - need
    <3>4. Total + (todo + 0 + d) <= AudioCap + 1 + 0 + 0
      BY <1>1, <1>3, <3>3
    <3>5. need' = 0 /\ audio' = d
      BY <1>3, <2>2, <3>1
    <3> HIDE DEF d
    <3> QED
      BY <2>2, <2>4, <3>2, <3>4, <3>5 DEF Room
  <2> QED
    BY <2>5, <2>6
<1>11. CASE StopWork \/ StopAudio \/ Join
  <2>1. /\ work' = work /\ todo' = todo /\ audio' = audio
        /\ main \in {"stop_work", "stop_audio", "join"} /\ main' \in {"stop_audio", "join", "closed"}
        /\ need' = need
    BY <1>11 DEF StopWork, StopAudio, Join, workVars, audioVars, rendererVars, clockVars
  <2>2. Total' = Total /\ InFlight = 0 /\ InFlight' = 0 /\ ~CaughtUp /\ Ahead' = Ahead
    BY <1>2, <2>1 DEF InFlight, CaughtUp, Ahead, Closing
  <2> QED
    BY <1>4, <2>1, <2>2 DEF Room
<1> QED
  BY <1>5, <1>6, <1>7, <1>8, <1>9, <1>10, <1>11 DEF MainStep

LEMMA RendererKeepsRoom ==
  ASSUME TypeOK, MainControl, RendererControl, Room, WholeFrames, RendererStep
  PROVE  Room'
<1> USE Bounds
<1>1. Total \in Nat
  BY SumTypes
<1>2. work' = work => Total' = Total
  BY DEF Total
<1>3. /\ todo \in Nat /\ pending \in Nat /\ audio \in Nat /\ need \in Nat
      /\ awake \in BOOLEAN /\ message \in BOOLEAN /\ audio <= AudioCap
  BY FramesInTypes DEF TypeOK
<1>4. /\ InFlight' = InFlight /\ Ahead' = Ahead /\ need' = need
      /\ main' = main
  BY DEF RendererStep, Render, Pick, RenderAudioFrames, FillAudio, ApplyMessage,
         InFlight, Ahead, mainVars, clockVars
<1>5. InFlight \in Nat /\ Ahead \in Int
  BY <1>3, AheadTypes DEF InFlight
<1>6. CASE Render \/ RenderAudioFrames \/ ApplyMessage
  <2>1. work' = work /\ todo' = todo /\ audio' = audio /\ (message' = message \/ message' = FALSE)
    BY <1>6 DEF Render, RenderAudioFrames, ApplyMessage, workVars, audioVars
  <2>2. Total' = Total
    BY <1>2, <2>1
  <2>3. CaughtUp => CaughtUp'
    BY <1>4, <2>1 DEF CaughtUp
  <2> QED
    BY <1>4, <2>1, <2>2, <2>3 DEF Room
<1>7. CASE Pick
  <2>1. /\ renderer = "pick" /\ audio' = audio
        /\ message' = (work # << >>) /\ work' = (IF work = << >> THEN work ELSE Tail(work))
        /\ todo' = IF work = << >> THEN 1 ELSE Head(work)
    BY <1>7 DEF Pick, audioVars
  <2>2. todo = 0
    BY <1>3, <2>1 DEF RendererControl
  <2>3. CASE work = << >>
    <3>1. work' = << >> /\ todo' = 1 /\ ~message' /\ Total = 0 /\ Total' = 0
      BY <1>2, <2>1, <2>3, SumTypes
    <3>2. CASE main = "mix"
      BY <1>4, <3>1, <3>2 DEF Room, CaughtUp
    <3>3. CASE main # "mix"
      <4>1. InFlight <= Ahead
        BY <3>3, AheadTypes
      <4>2. 0 + (1 + InFlight + audio) <= AudioCap + 1 + need + Ahead
        BY <1>3, <1>5, <4>1
      <4> QED
        BY <1>4, <2>1, <3>1, <4>2 DEF Room
    <3> QED
      BY <3>2, <3>3
  <2>4. CASE work # << >>
    <3>1. work' = Tail(work) /\ todo' = Head(work) /\ ~CaughtUp
      BY <2>1, <2>4 DEF CaughtUp
    <3>2. work \in Seq(Nat) /\ Head(work) \in Nat /\ Len(Tail(work)) = Len(work) - 1 /\ Len(work) \in Nat
          /\ Len(work) > 0 /\ Tail(work) \in Seq(Nat)
      BY <2>4, SumTypes, HeadTailProperties, EmptySeq
    <3> DEFINE t == Frames(Tail(work))[Len(work) - 1]
    <3>3. Total' = t
      BY <3>1, <3>2 DEF Total
    <3>4. Len(work) - 1 \in 0..Len(work) - 1 /\ (Len(work) - 1) + 1 = Len(work)
      BY <3>2
    <3>5. \A i \in 0..Len(work) - 1 : Frames(work)[i + 1] = Head(work) + Frames(Tail(work))[i]
      BY <2>4, <3>2, FramesTail
    <3>6. Frames(work)[(Len(work) - 1) + 1] = Head(work) + t
      BY <3>4, <3>5
    <3>7. Total = Head(work) + t
      BY <3>4, <3>6 DEF Total
    <3>8. t \in Nat
      <4>1. Sums(Frames(Tail(work)), Tail(work))
        BY <3>2, FramesAre
      <4> QED
        BY <3>2, <3>4, <4>1 DEF Sums
    <3> HIDE DEF t
    <3>9. Total + (todo + InFlight + audio) <= AudioCap + 1 + need + Ahead
      BY <3>1 DEF Room
    <3>10. t + (Head(work) + InFlight + audio) <= AudioCap + 1 + need + Ahead
      <4> DEFINE h == Head(work)
      <4>1. h \in Nat /\ Total = h + t
        BY <3>2, <3>7
      <4> HIDE DEF h
      <4>2. t + (h + InFlight + audio) <= AudioCap + 1 + need + Ahead
        BY <1>3, <1>5, <2>2, <3>8, <3>9, <4>1
      <4> QED
        BY <4>2 DEF h
    <3> QED
      BY <1>4, <2>1, <3>1, <3>3, <3>10 DEF Room
  <2> QED
    BY <2>3, <2>4
<1>8. CASE FillAudio
  <2>1. PICK n \in 0..todo : /\ audio' = audio + n
                             /\ todo' = IF audioOpen THEN todo - n ELSE 0
    BY <1>8, FillMoves
  <2>2. work' = work /\ message' = message /\ Total' = Total
    BY <1>2, <1>8 DEF FillAudio, workVars
  <2>3. CASE CaughtUp
    BY <1>4, <2>2, <2>3 DEF Room, CaughtUp
  <2>4. CASE ~CaughtUp
    <3> DEFINE d == IF audioOpen THEN todo - n ELSE 0
    <3>1. d \in Nat /\ d + n <= todo /\ n \in Nat
      BY <1>3
    <3> HIDE DEF d
    <3>2. Total + (todo + InFlight + audio) <= AudioCap + 1 + need + Ahead
      BY <2>4 DEF Room
    <3>3. Total + (d + InFlight + (audio + n)) <= AudioCap + 1 + need + Ahead
      BY <1>1, <1>3, <1>5, <3>1, <3>2
    <3> QED
      BY <1>4, <2>1, <2>2, <3>3 DEF Room, d
  <2> QED
    BY <2>3, <2>4
<1> QED
  BY <1>6, <1>7, <1>8 DEF RendererStep

-----------------------------------------------------------------------------
(* How old the messages of the work queue are.  Once a message is in the   *)
(* queue no frame is rendered ahead of it, so that every tick takes away   *)
(* frames that are not replaced before the message is reached: a queue     *)
(* that still has messages of two ticks ago leaves room in the audio       *)
(* queue.                                                                  *)
Queued(i) == audio + todo + Frames(work)[i]

(* The first a messages are older than the last tick, the first b were     *)
(* there at the last tick.                                                 *)
AgedAt(a, b) ==
  /\ a <= b
  /\ (Len(work) - b) + (IF main = "enqueue" THEN 1 ELSE 0) <= sent
  /\ b - a <= Burst
  /\ a > 0 => Queued(a) + FramesPerTick <= AudioCap + 1 + need
  /\ b > 0 => Queued(b) <= AudioCap + 1 + need

Aged == \E a, b \in 0..Len(work) : AgedAt(a, b)

LEMMA MainKeepsAged ==
  ASSUME TypeOK, MainControl, Room, Aged, WholeFrames, ~FastForward, Advance \/ PlayMsg \/ Tick \/ Close \/ MainStep
  PROVE  Aged'
<1> USE Bounds, FramesPerTickNat
<1>1. PICK a \in 0..Len(work), b \in 0..Len(work) : AgedAt(a, b)
  BY DEF Aged
<1>2. /\ todo \in Nat /\ pending \in Nat /\ audio \in Nat /\ need \in Nat
      /\ sent \in Nat /\ sent <= Burst
      /\ awake \in BOOLEAN /\ work \in Seq(Nat) /\ Len(work) \in Nat /\ Total \in Nat
  BY SumTypes, FramesInTypes DEF TypeOK
<1>3. Frames(work)[a] \in Nat /\ Frames(work)[b] \in Nat /\ a \in Nat /\ b \in Nat
  BY <1>2, SumTypes
<1>4. ASSUME UNCHANGED <<work, audio, todo, need>>,
             (IF main' = "enqueue" THEN 1 ELSE 0) - sent' <= (IF main = "enqueue" THEN 1 ELSE 0) - sent,
             sent' \in Nat
      PROVE  Aged'
  <2>1. Queued(a)' = Queued(a) /\ Queued(b)' = Queued(b)
    BY <1>4 DEF Queued
  <2> DEFINE x == IF main' = "enqueue" THEN 1 ELSE 0
             y == IF main = "enqueue" THEN 1 ELSE 0
             z == sent'
  <2>2. x - z <= y - sent /\ x \in Nat /\ y \in Nat /\ z \in Nat
    BY <1>4
  <2>3. (Len(work) - b) + y <= sent
    BY <1>1 DEF AgedAt
  <2> HIDE DEF x, y, z
  <2>4. (Len(work) - b) + x <= z
    BY <1>2, <1>3, <2>2, <2>3
  <2>5. AgedAt(a, b)'
    BY <1>1, <1>4, <2>1, <2>4 DEF AgedAt, x, z
  <2> QED
    BY <1>4, <2>5 DEF Aged
<1>5. CASE Advance
  <2>1. UNCHANGED <<work, audio, todo, need>> /\ main' = main /\ sent' = sent
    BY <1>5 DEF Advance, workVars, audioVars, mainVars, rendererVars
  <2> QED
    BY <1>2, <1>4, <2>1
<1>6. CASE PlayMsg
  <2>1. UNCHANGED <<work, audio, todo, need>> /\ main = "run" /\ main' = "enqueue" /\ sent' = sent + 1
    BY <1>6 DEF PlayMsg, workVars, audioVars, rendererVars
  <2> QED
    BY <1>2, <1>4, <2>1
<1>7. CASE Tick
  <2>0. FramesRequested = {FramesPerTick} /\ FramesPerTick > 0
    BY WholeRequest DEF MainControl
  <2>1. /\ UNCHANGED <<work, audio, todo, awake>> /\ main = "run" /\ sent' = 0
        /\ IF awake THEN main' = "mix" /\ need' = FramesPerTick ELSE main' = main /\ need' = need
    BY <1>7, <2>0 DEF Tick, workVars, audioVars, rendererVars
  <2>2. CASE ~awake
    <3>1. sent = 0 /\ UNCHANGED <<work, audio, todo, need>> /\ main' = "run" /\ sent' = 0
      BY <2>1, <2>2 DEF MainControl
    <3> QED
      BY <1>4, <2>1, <3>1
  <2>3. CASE awake
    <3>0. PICK N \in Nat : N = Len(work)
      BY <1>2
    <3>1. main' = "mix" /\ need' = FramesPerTick /\ need = 0 /\ sent' = 0
      BY <1>2, <2>1, <2>3 DEF MainControl
    <3>2. Queued(b)' = Queued(b) /\ Queued(N)' = Queued(N) /\ Len(work)' = N
      BY <2>1, <3>0 DEF Queued
    <3>3. b > 0 => Queued(b) <= AudioCap + 1
      BY <1>1, <1>2, <3>1 DEF AgedAt
    <3>4. Queued(N) <= AudioCap + 1 + FramesPerTick
      <4>1. ~CaughtUp /\ InFlight = 0 /\ Ahead <= FramesPerTick /\ Ahead \in Int
        BY <2>1, AheadTypes DEF CaughtUp, InFlight
      <4>2. Total + (todo + 0 + audio) <= AudioCap + 1 + 0 + Ahead
        BY <3>1, <4>1 DEF Room
      <4>3. Queued(N) = audio + todo + Total
        BY <3>0 DEF Queued, Total
      <4> QED
        BY <1>2, <4>1, <4>2, <4>3
    <3>5. Queued(b) \in Nat /\ Queued(N) \in Nat
      <4>1. Frames(work)[N] \in Nat
        BY <1>2, <3>0 DEF Total
      <4> DEFINE x == Frames(work)[b]
                 y == Frames(work)[N]
      <4>2. Queued(b) = audio + todo + x /\ Queued(N) = audio + todo + y /\ x \in Nat /\ y \in Nat
        BY <1>3, <4>1 DEF Queued
      <4> HIDE DEF x, y
      <4> QED
        BY <1>2, <4>2
    <3>6. N - b <= Burst /\ b <= N
      BY <1>1, <1>2, <1>3, <2>1, <3>0 DEF AgedAt
    <3> DEFINE p == Queued(b)
               q == Queued(N)
    <3>7. (b > 0 => p + FramesPerTick <= AudioCap + 1 + FramesPerTick) /\ q <= AudioCap + 1 + FramesPerTick
      BY <3>3, <3>4, <3>5
    <3> HIDE DEF p, q
    <3>8. (N - N) + 0 <= 0
      OBVIOUS
    <3>9. AgedAt(b, N)'
      BY <3>1, <3>2, <3>6, <3>7, <3>8 DEF AgedAt, p, q
    <3>10. b \in 0..Len(work)' /\ N \in 0..Len(work)'
      BY <1>2, <3>0, <3>2
    <3> QED
      BY <3>9, <3>10 DEF Aged
  <2> QED
    BY <1>2, <2>2, <2>3
<1>8. CASE Close
  <2>1. UNCHANGED <<work, audio, todo, need>> /\ main = "run" /\ main' = "stop_work" /\ sent' = sent
    BY <1>8 DEF Close, workVars, audioVars, rendererVars, clockVars
  <2> QED
    BY <1>2, <1>4, <2>1
<1>9. CASE EnqueueWork
  <2>1. /\ work' = Append(work, pending) /\ todo' = todo /\ audio' = audio
        /\ main = "enqueue" /\ main' = "run" /\ need' = need /\ sent' = sent
    BY <1>9 DEF EnqueueWork, audioVars, rendererVars, clockVars
  <2>2. Len(work)' = Len(work) + 1
    BY <1>2, <2>1
  <2>3. \A i \in 0..Len(work) : Frames(Append(work, pending))[i] = Frames(work)[i]
    BY <1>2, FramesAppend
  <2>4. Queued(a)' = Queued(a) /\ Queued(b)' = Queued(b)
    BY <2>1, <2>3 DEF Queued
  <2>5. ((Len(work) + 1) - b) + 0 <= sent
    BY <1>1, <1>2, <1>3, <2>1 DEF AgedAt
  <2>6. AgedAt(a, b)'
    BY <1>1, <2>1, <2>2, <2>4, <2>5 DEF AgedAt
  <2>7. a \in 0..Len(work)' /\ b \in 0..Len(work)'
    BY <1>2, <2>2
  <2> QED
    BY <2>6, <2>7 DEF Aged
<1>10. CASE MixerCallBack
  <2> DEFINE n == Min({need, audio})
  <2>1. n = IF need <= audio THEN need ELSE audio
    BY <1>2, MinOfTwo
  <2>2. /\ need' = need - n /\ audio' = audio - n /\ main = "mix" /\ main' \in {"mix", "run"}
        /\ work' = work /\ todo' = todo /\ sent' = sent
    BY <1>10 DEF MixerCallBack, workVars, rendererVars
  <2> HIDE DEF n
  <2> DEFINE A == Frames(work)[a]
             B == Frames(work)[b]
             d == audio - n
             e == need - n
  <2>3. n \in Nat /\ n <= need /\ n <= audio
    BY <1>2, <2>1
  <2>4. /\ a > 0 => (audio + todo + A) + FramesPerTick <= AudioCap + 1 + need
        /\ b > 0 => audio + todo + B <= AudioCap + 1 + need
        /\ (Len(work) - b) + 0 <= sent /\ a <= b /\ b - a <= Burst
    BY <1>1, <2>2 DEF AgedAt, Queued
  <2>5. /\ a > 0 => (d + todo + A) + FramesPerTick <= AudioCap + 1 + e
        /\ b > 0 => d + todo + B <= AudioCap + 1 + e
    <3> HIDE DEF A, B
    <3>1. A \in Nat /\ B \in Nat
      BY <1>3 DEF A, B
    <3> QED
      BY <1>2, <1>3, <2>3, <2>4, <3>1
  <2>6. AgedAt(a, b)'
    <3>1. Queued(a)' = d + todo + A /\ Queued(b)' = d + todo + B /\ need' = e /\ Len(work)' = Len(work)
      BY <2>2 DEF Queued
    <3> HIDE DEF d, e, A, B
    <3> QED
      BY <2>2, <2>4, <2>5, <3>1 DEF AgedAt
  <2> QED
    BY <2>2, <2>6 DEF Aged
<1>11. CASE StopWork \/ StopAudio \/ Join
  <2>1. /\ UNCHANGED <<work, audio, todo, need>> /\ main # "enqueue" /\ main' # "enqueue" /\ sent' = sent
    BY <1>11 DEF StopWork, StopAudio, Join, workVars, audioVars, rendererVars, clockVars
  <2> QED
    BY <1>2, <1>4, <2>1
<1> QED
  BY <1>5, <1>6, <1>7, <1>8, <1>9, <1>10, <1>11 DEF MainStep

LEMMA RendererKeepsAged ==
  ASSUME TypeOK, RendererControl, Aged, RendererStep
  PROVE  Aged'
<1> USE Bounds, FramesPerTickNat
<1>1. PICK a \in 0..Len(work), b \in 0..Len(work) : AgedAt(a, b)
  BY DEF Aged
<1>2. /\ todo \in Nat /\ audio \in Nat /\ need \in Nat /\ sent \in Nat
      /\ work \in Seq(Nat) /\ Len(work) \in Nat
  BY SumTypes, FramesInTypes DEF TypeOK
<1>3. Frames(work)[a] \in Nat /\ Frames(work)[b] \in Nat /\ a \in Nat /\ b \in Nat
  BY <1>2, SumTypes
<1>4. main' = main /\ sent' = sent /\ need' = need
  BY DEF RendererStep, Render, Pick, RenderAudioFrames, FillAudio, ApplyMessage, mainVars, clockVars
<1>5. CASE Render \/ RenderAudioFrames \/ ApplyMessage
  <2>1. work' = work /\ todo' = todo /\ audio' = audio
    BY <1>5 DEF Render, RenderAudioFrames, ApplyMessage, workVars, audioVars
  <2>2. AgedAt(a, b)'
    BY <1>1, <1>4, <2>1 DEF AgedAt, Queued
  <2> QED
    BY <2>1, <2>2 DEF Aged
<1>6. CASE Pick
  <2>1. /\ renderer = "pick" /\ audio' = audio
        /\ work' = (IF work = << >> THEN work ELSE Tail(work))
        /\ todo' = IF work = << >> THEN 1 ELSE Head(work)
    BY <1>6 DEF Pick, audioVars
  <2>2. todo = 0
    BY <1>2, <2>1 DEF RendererControl
  <2>3. CASE work = << >>
    <3>1. work' = << >> /\ Len(work) = 0 /\ Len(work)' = 0 /\ a = 0 /\ b = 0
      BY <2>1, <2>3
    <3>2. AgedAt(0, 0)'
      BY <1>1, <1>4, <3>1 DEF AgedAt
    <3>3. 0 \in 0..Len(work)'
      BY <3>1
    <3> QED
      BY <3>2, <3>3 DEF Aged
  <2>4. CASE work # << >>
    <3>1. work' = Tail(work) /\ todo' = Head(work)
      BY <2>1, <2>4
    <3>2. Head(work) \in Nat /\ Len(Tail(work)) = Len(work) - 1 /\ Len(work) > 0 /\ Tail(work) \in Seq(Nat)
      BY <1>2, <2>4, HeadTailProperties, EmptySeq
    <3>3. \A i \in 0..Len(work) - 1 : Frames(work)[i + 1] = Head(work) + Frames(Tail(work))[i]
      BY <1>2, <2>4, FramesTail
    <3>4. Sums(Frames(Tail(work)), Tail(work))
      BY <3>2, FramesAre
    <3>5. ASSUME NEW i \in 1..Len(work) PROVE Queued(i - 1)' = Queued(i)
      <4> DEFINE h == Head(work)
                 f == Frames(Tail(work))[i - 1]
      <4>1. i - 1 \in 0..Len(work) - 1 /\ (i - 1) + 1 = i /\ i - 1 \in 0..Len(Tail(work))
        BY <1>2, <3>2
      <4>2. Frames(work)[(i - 1) + 1] = h + f
        BY <3>3, <4>1
      <4>3. Frames(work)[i] = h + f
        BY <4>1, <4>2
      <4>4. h \in Nat /\ f \in Nat
        BY <3>2, <3>4, <4>1 DEF Sums
      <4>5. Queued(i - 1)' = audio + h + f /\ Queued(i) = audio + 0 + Frames(work)[i]
        BY <2>1, <2>2, <3>1 DEF Queued
      <4> HIDE DEF h, f
      <4> QED
        BY <1>2, <4>3, <4>4, <4>5
    <3>6. PICK c \in Nat : c = IF a = 0 THEN 0 ELSE a - 1
      BY <1>3
    <3>7. PICK d \in Nat : d = IF b = 0 THEN 0 ELSE b - 1
      BY <1>3
    <3>8. Len(work)' = Len(work) - 1 /\ c \in 0..Len(work) - 1 /\ d \in 0..Len(work) - 1
      BY <1>2, <1>3, <3>1, <3>2, <3>6, <3>7
    <3>9. c <= d /\ d - c <= Burst
      BY <1>1, <1>2, <1>3, <3>6, <3>7 DEF AgedAt
    <3>10. ((Len(work) - 1) - d) + (IF main = "enqueue" THEN 1 ELSE 0) <= sent
      BY <1>1, <1>2, <1>3, <3>7 DEF AgedAt
    <3>11. c > 0 => Queued(c)' + FramesPerTick <= AudioCap + 1 + need
      <4> SUFFICES ASSUME c > 0 PROVE Queued(c)' + FramesPerTick <= AudioCap + 1 + need
        OBVIOUS
      <4>1. a \in 1..Len(work) /\ c = a - 1
        BY <1>2, <1>3, <3>6
      <4>2. Queued(c)' = Queued(a)
        BY <3>5, <4>1
      <4>3. Queued(a) + FramesPerTick <= AudioCap + 1 + need
        BY <1>1, <4>1 DEF AgedAt
      <4> QED
        BY <4>2, <4>3
    <3>12. d > 0 => Queued(d)' <= AudioCap + 1 + need
      <4> SUFFICES ASSUME d > 0 PROVE Queued(d)' <= AudioCap + 1 + need
        OBVIOUS
      <4>1. b \in 1..Len(work) /\ d = b - 1
        BY <1>2, <1>3, <3>7
      <4>2. Queued(d)' = Queued(b)
        BY <3>5, <4>1
      <4>3. Queued(b) <= AudioCap + 1 + need
        BY <1>1, <4>1 DEF AgedAt
      <4> QED
        BY <4>2, <4>3
    <3>13. AgedAt(c, d)'
      BY <1>4, <3>8, <3>9, <3>10, <3>11, <3>12 DEF AgedAt
    <3> QED
      BY <3>8, <3>13 DEF Aged
  <2> QED
    BY <2>3, <2>4
<1>7. CASE FillAudio
  <2>1. PICK n \in 0..todo : /\ audio' = audio + n
                             /\ todo' = IF audioOpen THEN todo - n ELSE 0
    BY <1>7, FillMoves
  <2>2. work' = work
    BY <1>7 DEF FillAudio, workVars
  <2> DEFINE A == Frames(work)[a]
             B == Frames(work)[b]
             e == IF audioOpen THEN todo - n ELSE 0
  <2>3. e \in Nat /\ n \in Nat /\ e + n <= todo
    BY <1>2
  <2> HIDE DEF e
  <2>4. /\ a > 0 => (audio + todo + A) + FramesPerTick <= AudioCap + 1 + need
        /\ b > 0 => audio + todo + B <= AudioCap + 1 + need
    BY <1>1 DEF AgedAt, Queued
  <2>5. /\ a > 0 => ((audio + n) + e + A) + FramesPerTick <= AudioCap + 1 + need
        /\ b > 0 => (audio + n) + e + B <= AudioCap + 1 + need
    <3> HIDE DEF A, B
    <3>1. A \in Nat /\ B \in Nat
      BY <1>3 DEF A, B
    <3> QED
      BY <1>2, <1>3, <2>3, <2>4, <3>1
  <2>6. Queued(a)' = (audio + n) + e + A /\ Queued(b)' = (audio + n) + e + B
    BY <2>1, <2>2 DEF Queued, e
  <2> HIDE DEF A, B
  <2>7. AgedAt(a, b)'
    BY <1>1, <1>4, <2>2, <2>5, <2>6 DEF AgedAt
  <2> QED
    BY <2>2, <2>7 DEF Aged
<1> QED
  BY <1>5, <1>6, <1>7 DEF RendererStep

-----------------------------------------------------------------------------
(* The invariant of a renderer whose frames the mixer takes every tick.    *)
LagInv == TypeOK /\ MainControl /\ RendererControl /\ Room /\ Aged

LEMMA LagInitially ==
  ASSUME WholeFrames, Init
  PROVE  LagInv
<1>1. TypeOK
  BY TypesInitially
<1>2. MainControl /\ RendererControl
  <2>1. need = 0 /\ main = "run" /\ ~awake /\ sent = 0 /\ credit = 0 /\ todo = 0 /\ renderer = "loop"
    BY DEF Init
  <2> QED
    BY <2>1 DEF MainControl, RendererControl, Closing
<1>3. Total = 0 /\ Len(work) = 0
  BY <1>1, SumTypes DEF Init
<1>4. Room
  BY <1>3, Bounds DEF Init, Room, InFlight, Ahead, Closing
<1>5. Aged
  <2>1. AgedAt(0, 0) /\ 0 \in 0..Len(work)
    BY <1>3, Bounds DEF Init, AgedAt
  <2> QED
    BY <2>1 DEF Aged
<1> QED
  BY <1>1, <1>2, <1>4, <1>5 DEF LagInv

LEMMA LagKept ==
  ASSUME WholeFrames, ~FastForward, LagInv, [Next]_vars
  PROVE  LagInv'
<1>1. CASE Advance \/ PlayMsg \/ Tick \/ Close \/ MainStep
  <2>1. todo' = todo /\ renderer' = renderer /\ message' = message
    BY <1>1 DEF Advance, PlayMsg, Tick, Close, MainStep, EnqueueWork, MixerCallBack, StopWork, StopAudio,
                Join, rendererVars
  <2>2. RendererControl'
    BY <2>1 DEF LagInv, RendererControl
  <2> QED
    BY <1>1, <2>2, MainKeepsTypes, MainKeepsControl, MainKeepsRoom, MainKeepsAged DEF LagInv
<1>2. CASE RendererStep
  <2>1. UNCHANGED <<mainVars, clockVars, awake>>
    BY <1>2 DEF RendererStep, Render, Pick, RenderAudioFrames, FillAudio, ApplyMessage
  <2>2. MainControl'
    BY <2>1 DEF LagInv, MainControl, InFlight, Closing, mainVars, clockVars
  <2> QED
    BY <1>2, <2>2, RendererKeepsTypes, RendererKeepsControl, RendererKeepsRoom, RendererKeepsAged DEF LagInv
<1>3. CASE UNCHANGED vars
  <2>1. UNCHANGED <<work, workOpen, audio, audioOpen, main, pending, need, renderer, todo, message>>
        /\ UNCHANGED <<phase, behind, credit, sent, awake, service>>
    BY <1>3 DEF vars, workVars, audioVars, mainVars, rendererVars, clockVars
  <2>2. TypeOK' /\ MainControl' /\ RendererControl'
    BY <2>1 DEF LagInv, TypeOK, MainControl, RendererControl, InFlight, Closing
  <2>3. Room'
    BY <2>1 DEF LagInv, Room, CaughtUp, Total, InFlight, Ahead, Closing
  <2>4. Aged'
    BY <2>1 DEF LagInv, Aged, AgedAt, Queued
  <2> QED
    BY <2>2, <2>3, <2>4 DEF LagInv
<1> QED
  BY <1>1, <1>2, <1>3 DEF Next

LEMMA LagInvariant ==
  ASSUME WholeFrames, ~FastForward
  PROVE  Spec => []LagInv
<1>1. LagInv /\ [Next]_vars => LagInv'
  BY LagKept
<1>2. Init => LagInv
  BY LagInitially
<1> QED
  BY <1>1, <1>2, PTL DEF Spec

(* What a message would ask for now and what the datum has been moved past *)
(* are together no more than a tick.                                       *)
LEMMA DueAhead ==
  ASSUME TypeOK, MainControl, WholeFrames
  PROVE  Due \in Nat /\ need + (Ahead + Due) <= FramesPerTick
<1> USE Bounds, FramesPerTickNat
<1>1. /\ behind \in Int /\ phase \in Nat /\ phase <= UnitsPerTick /\ awake \in BOOLEAN /\ need \in Nat
      /\ Due \in Nat /\ Ahead \in Int
  BY DueTypes, FramesInTypes, AheadTypes DEF TypeOK
<1>2. need + Ahead <= FramesPerTick
  <2>1. CASE main = "mix"
    BY <1>1, <2>1, AheadTypes DEF MainControl
  <2>2. CASE main # "mix"
    <3>1. need = 0 /\ Ahead <= FramesPerTick
      BY <1>1, <2>2, AheadTypes DEF MainControl
    <3> QED
      BY <1>1, <3>1
  <2> QED
    BY <2>1, <2>2
<1>3. CASE ~(awake /\ behind > 0)
  <2>1. Due = 0
    BY <1>3 DEF Due
  <2> QED
    BY <1>1, <1>2, <2>1
<1>4. CASE awake /\ behind > 0
  <2>1. main \notin Closing
    BY <1>4 DEF MainControl
  <2> DEFINE k == Due
             x == UnitsPerFrame * k
             c == phase - behind
  <2>2. x \in Nat /\ behind <= x /\ k \in Int /\ Ahead = c \div UnitsPerFrame /\ c \in Int
    <3>1. Due = FramesIn(behind) /\ behind \in Nat \ {0}
      BY <1>1, <1>4 DEF Due
    <3> QED
      BY <1>1, <1>4, <2>1, <3>1, Covering DEF Ahead
  <2>3. (c + x) \div UnitsPerFrame = Ahead + k
    <3> HIDE DEF c, k
    <3> QED
      BY <2>2, FloorShift
  <2>4. CASE main = "mix"
    <3>1. behind <= UnitsPerTick /\ phase = 0 /\ need <= FramesPerTick
      BY <2>4 DEF MainControl
    <3>2. x < behind + UnitsPerFrame
      <4>1. Due = FramesIn(behind) /\ behind \in Nat \ {0}
        BY <1>1, <1>4 DEF Due
      <4> QED
        BY <4>1, Covering
    <3>3. c + x \in Int /\ UnitsPerFrame * 0 <= c + x /\ c + x < (UnitsPerFrame * 0) + UnitsPerFrame
      <4>1. UnitsPerFrame * 0 = 0
        OBVIOUS
      <4>2. 0 <= c + x /\ c + x < 0 + UnitsPerFrame
        <5> HIDE DEF x
        <5> QED
          BY <1>1, <2>2, <3>1, <3>2
      <4> QED
        BY <2>2, <4>1, <4>2
    <3>4. (c + x) \div UnitsPerFrame = 0
      <4> DEFINE y == c + x
      <4>1. y \in Int /\ UnitsPerFrame * 0 <= y /\ y < (UnitsPerFrame * 0) + UnitsPerFrame
        BY <3>3
      <4> HIDE DEF y
      <4>2. y \div UnitsPerFrame = 0
        BY <4>1, FloorIs
      <4> QED
        BY <4>2 DEF y
    <3>5. Ahead + k = 0
      BY <2>3, <3>4
    <3> QED
      BY <1>1, <3>1, <3>5
  <2>5. CASE main # "mix"
    <3>1. need = 0
      BY <1>1, <2>5 DEF MainControl
    <3>2. c + x <= (UnitsPerTick + UnitsPerFrame) - 1 /\ c + x \in Int
      <4>1. x < behind + UnitsPerFrame
        <5>1. Due = FramesIn(behind) /\ behind \in Nat \ {0}
          BY <1>1, <1>4 DEF Due
        <5> QED
          BY <5>1, Covering
      <4> HIDE DEF x
      <4> QED
        BY <1>1, <2>2, <4>1
    <3>3. ((UnitsPerTick + UnitsPerFrame) - 1) \div UnitsPerFrame = FramesPerTick
      BY TickCovered
    <3>4. (c + x) \div UnitsPerFrame <= ((UnitsPerTick + UnitsPerFrame) - 1) \div UnitsPerFrame
      <4> DEFINE y == c + x
                 e == (UnitsPerTick + UnitsPerFrame) - 1
      <4>1. y <= e /\ y \in Int /\ e \in Int
        BY <3>2
      <4> HIDE DEF y, e
      <4>2. y \div UnitsPerFrame <= e \div UnitsPerFrame
        BY <4>1, FloorMonotone
      <4> QED
        BY <4>2 DEF y, e
    <3>5. Ahead + Due <= FramesPerTick
      BY <2>3, <3>3, <3>4
    <3> QED
      BY <1>1, <3>1, <3>5
  <2> QED
    BY <2>4, <2>5
<1> QED
  BY <1>3, <1>4

(* The renderer never falls behind the messages by more than it was ahead, *)
(* for any sizes of the queues and any number of messages, as long as the  *)
(* mixer takes its frames every tick and a tick is a whole number of them: *)
(* rounding up to whole frames, and a datum ahead of now, add no frame.    *)
THEOREM LagIsBounded ==
  ASSUME WholeFrames, ~FastForward
  PROVE  Spec => []LagBounded
<1>1. LagInv => LagBounded
  <2> SUFFICES ASSUME LagInv PROVE LagBounded
    OBVIOUS
  <2> USE Bounds, FramesPerTickNat
  <2>1. TypeOK /\ MainControl /\ RendererControl /\ Room
    BY DEF LagInv
  <2>2. /\ Total \in Nat /\ todo \in Nat /\ pending \in Nat /\ audio \in Nat
        /\ need \in Nat /\ audio <= AudioCap /\ awake \in BOOLEAN /\ message \in BOOLEAN
    BY <2>1, SumTypes, FramesInTypes DEF TypeOK
  <2> DEFINE g == IF message THEN todo ELSE 0
  <2>3. Lag = Total + g + InFlight
    BY DEF Lag, Total, InFlight
  <2>4. g \in Nat /\ g <= todo /\ InFlight \in Nat /\ Ahead \in Int /\ Due \in Nat
        /\ need + (Ahead + Due) <= FramesPerTick
    BY <2>1, <2>2, AheadTypes, DueAhead DEF InFlight
  <2>5. Lag + Due + audio <= AudioCap + FramesPerTick + 1
    <3>1. CASE CaughtUp
      <4>1. g = 0 /\ InFlight = 0 /\ Total = 0
        BY <2>1, <2>2, <3>1, SumTypes DEF CaughtUp, InFlight
      <4>2. Due <= FramesPerTick
        <5>1. CASE awake /\ behind > 0
          <6> DEFINE a == (behind + UnitsPerFrame) - 1
                     e == (UnitsPerTick + UnitsPerFrame) - 1
          <6>1. behind \in Nat /\ behind <= UnitsPerTick
            BY <2>1, <3>1, <5>1 DEF CaughtUp, MainControl, TypeOK
          <6>2. a \in Int /\ e \in Int /\ a <= e
            BY <6>1
          <6>3. Due = a \div UnitsPerFrame
            BY <5>1, <6>1 DEF Due, FramesIn
          <6>4. e \div UnitsPerFrame = FramesPerTick
            BY TickCovered
          <6> HIDE DEF a, e
          <6> QED
            BY <6>2, <6>3, <6>4, FloorMonotone
        <5>2. CASE ~(awake /\ behind > 0)
          BY <5>2 DEF Due
        <5> QED
          BY <5>1, <5>2
      <4> HIDE DEF g
      <4> QED
        BY <2>2, <2>3, <2>4, <4>1, <4>2
    <3>2. CASE ~CaughtUp
      <4>1. Total + (todo + InFlight + audio) <= AudioCap + 1 + need + Ahead
        BY <2>1, <3>2 DEF Room
      <4> HIDE DEF g
      <4> QED
        BY <2>2, <2>3, <2>4, <4>1
    <3> QED
      BY <3>1, <3>2
  <2> QED
    BY <2>1, <2>5 DEF LagBounded
<1> QED
  BY <1>1, LagInvariant, PTL

(* The main thread, blocked on a full work queue, and the renderer,        *)
(* blocked on a full audio queue, never wait for each other if the work    *)
(* queue holds the messages of two ticks and the mixer takes its frames    *)
(* every tick, a whole number of them.                                     *)
THEOREM NeverWaitForEachOther ==
  ASSUME WholeFrames, ~FastForward, 2 * Burst <= WorkCap
  PROVE  Spec => []NoMutualWait
<1>1. LagInv => NoMutualWait
  <2> SUFFICES ASSUME LagInv, main = "enqueue", Len(work) = WorkCap,
                      renderer = "fill", audio = AudioCap
               PROVE  FALSE
    BY DEF NoMutualWait
  <2> USE Bounds, FramesPerTickNat
  <2>1. TypeOK /\ need = 0 /\ todo > 0
    BY DEF LagInv, MainControl, RendererControl, TypeOK
  <2>2. todo \in Nat /\ sent \in Nat /\ sent <= Burst /\ \A i \in 0..Len(work) : Frames(work)[i] \in Nat
    BY <2>1, SumTypes, FramesInTypes DEF TypeOK
  <2>3. PICK a \in 0..Len(work), b \in 0..Len(work) : AgedAt(a, b)
    BY DEF LagInv, Aged
  <2> DEFINE A == Frames(work)[a]
  <2>4. A \in Nat /\ a \in Nat /\ b \in Nat
    BY <2>2, <2>3
  <2>5. a > 0 => (AudioCap + todo + A) + FramesPerTick <= AudioCap + 1 + 0
    BY <2>1, <2>3 DEF AgedAt, Queued
  <2> HIDE DEF A
  <2>6. a = 0
    <3>1. FramesPerTick > 0
      BY WholeRequest DEF LagInv, MainControl
    <3> QED
      BY <2>1, <2>2, <2>4, <2>5, <3>1
  <2>7. b <= Burst /\ (WorkCap - b) + 1 <= sent
    BY <2>3, <2>4, <2>6 DEF AgedAt
  <2> QED
    BY <2>2, <2>4, <2>7
<1> QED
  BY <1>1, LagInvariant, PTL
=============================================================================
