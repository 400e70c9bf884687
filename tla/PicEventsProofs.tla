-------------------------- MODULE PicEventsProofs --------------------------
(***************************************************************************)
(* Proofs about PicEvents for any events, delays, queue size, cycles in a  *)
(* tick, overrun of an instruction and number of interrupts.               *)
(***************************************************************************)
EXTENDS PicEvents, SequenceTheorems, InductionLemmas

-----------------------------------------------------------------------------
(* Products of a number of cycles and the units in one.                    *)
LEMMA Times ==
  ASSUME NEW a \in Int, NEW b \in Int, NEW U \in Nat
  PROVE  /\ a * U \in Int
         /\ (a + b) * U = a * U + b * U
         /\ (a - b) * U = a * U - b * U
         /\ a <= b => a * U <= b * U
         /\ U > 0 /\ a < b => a * U + U <= b * U
  OBVIOUS

LEMMA DivMod ==
  ASSUME NEW a \in Int, NEW K \in Nat \ {0}
  PROVE  /\ a % K \in 0..K - 1 /\ a \div K \in Int
         /\ a = K * (a \div K) + (a % K)
  OBVIOUS

LEMMA SmallMultiple ==
  ASSUME NEW x \in Int, NEW K \in Nat \ {0}, -K < K * x, K * x < K
  PROVE  x = 0
  OBVIOUS

LEMMA SameMod ==
  ASSUME NEW a \in Int, NEW K \in Nat \ {0}, NEW q \in Int
  PROVE  (a + K * q) % K = a % K
<1> DEFINE b == a + K * q
           x == (b \div K) - (a \div K) - q
<1>1. b \in Int
  OBVIOUS
<1>2. b = K * (b \div K) + (b % K) /\ b % K \in 0..K - 1 /\ b \div K \in Int
  BY <1>1, DivMod
<1>3. a = K * (a \div K) + (a % K) /\ a % K \in 0..K - 1 /\ a \div K \in Int
  BY DivMod
<1>4. K * x = (a % K) - (b % K)
  BY <1>2, <1>3
<1>5. x \in Int /\ -K < K * x /\ K * x < K
  BY <1>2, <1>3, <1>4
<1>6. x = 0
  BY <1>5, SmallMultiple
<1> QED
  BY <1>4, <1>6, <1>2, <1>3

(* A delay may be added before or after the clock wraps.                   *)
LEMMA ModPlus ==
  ASSUME NEW a \in Int, NEW K \in Nat \ {0}, NEW d \in Int
  PROVE  (a + d) % K = ((a % K) + d) % K
<1>1. a % K \in Int /\ a \div K \in Int /\ a = K * (a \div K) + (a % K)
  BY DivMod
<1> DEFINE b == (a % K) + d
<1>2. a + d = b + K * (a \div K) /\ b \in Int
  BY <1>1
<1> HIDE DEF b
<1>3. (b + K * (a \div K)) % K = b % K
  BY <1>1, <1>2, SameMod
<1> QED
  BY <1>2, <1>3 DEF b

LEMMA UnitsType ==
  /\ CycleMax \in Nat /\ CycleMax > 0 /\ UnitsPerCycle \in Nat /\ UnitsPerCycle > 0
  /\ UnitsPerTick \in Nat /\ UnitsPerTick > 0
  /\ TickModulus * UnitsPerTick \in Nat \ {0}
<1>1. UnitsPerTick \in Nat /\ UnitsPerTick > 0
  BY EventAssumption DEF UnitsPerTick
<1> QED
  BY <1>1, EventAssumption

(* An instant is a point of the clock's cycle.                             *)
LEMMA InstantType ==
  ASSUME NEW index \in Int, PIC_Ticks \in Nat
  PROVE  Instant(index) \in Nat
<1>1. PIC_Ticks * UnitsPerTick \in Int
  BY UnitsType
<1> DEFINE x == index + PIC_Ticks * UnitsPerTick
           K == TickModulus * UnitsPerTick
<1>2. x \in Int /\ K \in Nat \ {0} /\ Instant(index) = x % K
  BY <1>1, UnitsType DEF Instant
<1> HIDE DEF x, K
<1> QED
  BY <1>2, DivMod

(* A conversion to cycles rounds towards zero.                             *)
LEMMA ToCyclesRounds ==
  ASSUME NEW units \in Int
  PROVE  /\ ToCycles(units) \in Int
         /\ units >= 0 => /\ ToCycles(units) \in Nat
                          /\ ToCycles(units) * UnitsPerCycle <= units
                          /\ units < ToCycles(units) * UnitsPerCycle + UnitsPerCycle
         /\ units < 0 => ToCycles(units) <= 0
<1> USE UnitsType
<1>1. CASE units >= 0
  <2>1. units = UnitsPerCycle * (units \div UnitsPerCycle) + (units % UnitsPerCycle)
        /\ units % UnitsPerCycle \in 0..UnitsPerCycle - 1 /\ units \div UnitsPerCycle \in Int
    BY DivMod, SMTT(20)
  <2>2. units \div UnitsPerCycle >= 0
    BY <1>1, <2>1
  <2> QED
    BY <1>1, <2>1, <2>2 DEF ToCycles
<1>2. CASE units < 0
  <2>1. -units \in Int
    OBVIOUS
  <2>2. (-units) = UnitsPerCycle * ((-units) \div UnitsPerCycle) + ((-units) % UnitsPerCycle)
        /\ (-units) % UnitsPerCycle \in 0..UnitsPerCycle - 1
        /\ (-units) \div UnitsPerCycle \in Int
    BY <2>1, DivMod, SMTT(20)
  <2>3. (-units) \div UnitsPerCycle >= 0
    BY <1>2, <2>2
  <2> QED
    BY <1>2, <2>2, <2>3 DEF ToCycles
<1> QED
  BY <1>1, <1>2

-----------------------------------------------------------------------------
(* An entry e put between the first n and the others.                      *)
PutAt(s, e, n) == SubSeq(s, 1, n) \o <<e>> \o SubSeq(s, n + 1, Len(s))

IsPutAt(r, s, e, n) ==
  /\ Len(r) = Len(s) + 1
  /\ \A i \in 1..n : r[i] = s[i]
  /\ r[n + 1] = e
  /\ \A i \in n + 1..Len(s) : r[i + 1] = s[i]

LEMMA InsertAt ==
  ASSUME NEW S, NEW s \in Seq(S), NEW e \in S, NEW n \in 0..Len(s)
  PROVE  PutAt(s, e, n) \in Seq(S) /\ IsPutAt(PutAt(s, e, n), s, e, n)
<1> DEFINE r == PutAt(s, e, n)
           a == SubSeq(s, 1, n)
           z == SubSeq(s, n + 1, Len(s))
<1>1. a \in Seq(S) /\ Len(a) = n /\ \A i \in 1..n : a[i] = s[i]
  BY SubSeqProperties
<1>2. z \in Seq(S) /\ Len(z) = Len(s) - n /\ \A i \in 1..Len(s) - n : z[i] = s[n + i]
  <2>1. n + 1 \in Int /\ Len(s) \in Int
    OBVIOUS
  <2>2. \A i \in n + 1..Len(s) : s[i] \in S
    OBVIOUS
  <2> QED
    BY <2>1, <2>2, SubSeqProperties
<1>3. <<e>> \in Seq(S) /\ Len(<<e>>) = 1 /\ <<e>>[1] = e
  OBVIOUS
<1> DEFINE b == a \o <<e>>
<1> HIDE DEF a, z
<1>4. b \in Seq(S) /\ Len(b) = n + 1 /\ (\A i \in 1..n : b[i] = s[i]) /\ b[n + 1] = e
  <2> DEFINE o == <<e>>
  <2>1. b = a \o o /\ o \in Seq(S) /\ Len(o) = 1 /\ o[1] = e
    BY <1>3
  <2> HIDE DEF b, o
  <2>2. /\ b \in Seq(S) /\ Len(b) = Len(a) + Len(o)
        /\ \A i \in 1..Len(a) + Len(o) : b[i] = IF i <= Len(a) THEN a[i] ELSE o[i - Len(a)]
    BY <1>1, <2>1, ConcatProperties
  <2> QED
    BY <2>1, <2>2, <1>1
<1> HIDE DEF b
<1>5. r = b \o z
  BY DEF a, b, z, PutAt
<1> HIDE DEF r
<1>6. /\ b \o z \in Seq(S) /\ Len(b \o z) = Len(b) + Len(z)
      /\ \A i \in 1..Len(b) + Len(z) :
           (b \o z)[i] = IF i <= Len(b) THEN b[i] ELSE z[i - Len(b)]
  BY <1>4, <1>2, ConcatProperties
<1>7. r \in Seq(S) /\ Len(r) = Len(s) + 1
  BY <1>6, <1>5, <1>4, <1>2
<1>8. \A i \in 1..n + 1 : r[i] = b[i]
  BY <1>6, <1>5, <1>4, <1>2
<1>9. ASSUME NEW i \in n + 1..Len(s) PROVE r[i + 1] = s[i]
  <2>1. i + 1 \in 1..Len(b) + Len(z) /\ ~(i + 1 <= Len(b)) /\ (i + 1) - Len(b) = i - n
        /\ i - n \in 1..Len(s) - n /\ n + (i - n) = i
    BY <1>4, <1>2
  <2>2. r[i + 1] = z[(i + 1) - Len(b)]
    BY <2>1, <1>6, <1>5
  <2>3. z[i - n] = s[n + (i - n)]
    BY <2>1, <1>2
  <2> QED
    BY <2>1, <2>2, <2>3
<1>10. \A i \in 1..n : r[i] = s[i]
  BY <1>8, <1>4
<1>11. r[n + 1] = e
  BY <1>8, <1>4
<1>12. r \in Seq(S) /\ IsPutAt(r, s, e, n)
  BY <1>7, <1>9, <1>10, <1>11 DEF IsPutAt
<1> QED
  BY <1>12 DEF r
(* Taking it out again leaves what was there.                              *)
LEMMA TakeOut ==
  ASSUME NEW S, NEW s \in Seq(S), NEW r \in Seq(S), NEW n \in 0..Len(s),
         NEW e, IsPutAt(r, s, e, n)
  PROVE  SubSeq(r, 1, n) \o SubSeq(r, n + 2, Len(r)) = s
<1> USE DEF IsPutAt
<1> DEFINE a == SubSeq(r, 1, n)
           z == SubSeq(r, n + 2, Len(r))
           t == a \o z
<1>1. a \in Seq(S) /\ Len(a) = n /\ \A i \in 1..n : a[i] = r[i]
  BY SubSeqProperties
<1>2. /\ z \in Seq(S) /\ Len(z) = Len(s) - n
      /\ \A i \in 1..Len(s) - n : z[i] = r[n + 1 + i]
  <2>1. n + 2 \in Int /\ Len(r) \in Int
    OBVIOUS
  <2>2. \A i \in n + 2..Len(r) : r[i] \in S
    OBVIOUS
  <2> QED
    BY <2>1, <2>2, SubSeqProperties
<1> HIDE DEF a, z
<1>3. /\ t \in Seq(S) /\ Len(t) = Len(a) + Len(z)
      /\ \A i \in 1..Len(a) + Len(z) : t[i] = IF i <= Len(a) THEN a[i] ELSE z[i - Len(a)]
  BY <1>1, <1>2, ConcatProperties
<1> HIDE DEF t
<1>4. Len(t) = Len(s)
  BY <1>1, <1>2, <1>3
<1>5. ASSUME NEW i \in 1..Len(s) PROVE t[i] = s[i]
  <2>1. CASE i <= n
    BY <2>1, <1>1, <1>2, <1>3
  <2>2. CASE i > n
    <3>1. i - n \in 1..Len(s) - n /\ n + 1 + (i - n) = i + 1 /\ i \in n + 1..Len(s)
      BY <2>2
    <3>2. t[i] = z[i - n]
      BY <2>2, <1>1, <1>2, <1>3
    <3>3. z[i - n] = r[n + 1 + (i - n)]
      BY <3>1, <1>2
    <3> QED
      BY <3>1, <3>2, <3>3
  <2> QED
    BY <2>1, <2>2
<1>6. t = s
  BY <1>3, <1>4, <1>5, SeqEqual
<1> QED
  BY <1>6 DEF a, z, t

(* Where AddEntry puts an entry: behind those of the queue that are not    *)
(* due later, if the queue is in order.                                    *)
InsertedAt(e, n) ==
  /\ n \in 0..Len(queue)
  /\ Insert(e) \in Seq(Entry) /\ IsPutAt(Insert(e), queue, e, n)
  /\ \A i \in 1..Len(queue) : queue[i].index <= e.index <=> i <= n

LEMMA InsertFinds ==
  ASSUME queue \in Seq(Entry), Sorted, NEW e \in Entry
  PROVE  \E n \in 0..Len(queue) : InsertedAt(e, n)
<1> DEFINE n == IF Behind(e.index) = {} THEN Len(queue)
                ELSE (CHOOSE i \in Behind(e.index) : \A j \in Behind(e.index) : i <= j) - 1
<1>1. ASSUME NEW i \in 1..Len(queue) PROVE queue[i].index \in Int
  <2>1. queue[i] \in Entry
    BY ElementOfSeq
  <2> QED
    BY <2>1 DEF Entry
<1>2. e.index \in Int
  BY DEF Entry
<1>3. n \in 0..Len(queue) /\ \A i \in 1..Len(queue) : queue[i].index <= e.index <=> i <= n
  <2>1. CASE Behind(e.index) = {}
    BY <2>1, <1>1, <1>2 DEF Behind
  <2>2. CASE Behind(e.index) # {}
    <3>1. Behind(e.index) \in SUBSET Nat
      BY DEF Behind
    <3>2. \E i \in Behind(e.index) : \A j \in Behind(e.index) : i <= j
      BY <2>2, <3>1, LeastNat
    <3> DEFINE m == CHOOSE i \in Behind(e.index) : \A j \in Behind(e.index) : i <= j
    <3>3. m \in Behind(e.index) /\ \A j \in Behind(e.index) : m <= j
      BY <3>2
    <3>4. n = m - 1
      BY <2>2
    <3> HIDE DEF m, n
    <3>5. m \in 1..Len(queue) /\ queue[m].index > e.index
      BY <3>3 DEF Behind
    <3>6. ASSUME NEW i \in 1..Len(queue) PROVE queue[i].index <= e.index <=> i <= n
      <4>1. CASE i < m
        <5>1. i \notin Behind(e.index)
          BY <4>1, <3>3, <3>5
        <5> QED
          BY <4>1, <5>1, <3>4, <3>5, <1>1, <1>2 DEF Behind
      <4>2. CASE i >= m
        <5>1. queue[m].index <= queue[i].index
          BY <4>2, <3>5, <1>1 DEF Sorted
        <5> QED
          BY <4>2, <5>1, <3>4, <3>5, <1>1, <1>2
      <4> QED
        BY <4>1, <4>2, <3>5
    <3> QED
      BY <3>4, <3>5, <3>6
  <2> QED
    BY <2>1, <2>2
<1>4. Insert(e) = PutAt(queue, e, n)
  BY DEF Insert, PutAt
<1> HIDE DEF n
<1>5. Insert(e) \in Seq(Entry) /\ IsPutAt(Insert(e), queue, e, n)
  BY <1>3, <1>4, InsertAt
<1>6. InsertedAt(e, n)
  BY <1>3, <1>5 DEF InsertedAt
<1> QED
  BY <1>3, <1>6

(* The walk of a removal along the first m entries.                        *)
IsWalk(f, m, evs) ==
  f = [i \in 0..m |-> IF i = 0 THEN <<>>
                      ELSE IF queue[i].event \in evs THEN f[i - 1]
                      ELSE Append(f[i - 1], queue[i])]

LEMMA WalkExists ==
  ASSUME NEW evs, NEW n \in Nat
  PROVE  \E f : IsWalk(f, n, evs)
<1> DEFINE T == {m \in Nat : \E f : IsWalk(f, m, evs)}
<1>1. 0 \in T
  <2> DEFINE f == [i \in 0..0 |-> <<>>]
  <2>1. IsWalk(f, 0, evs)
    BY DEF IsWalk
  <2> QED
    BY <2>1
<1>2. ASSUME NEW m \in Nat, m \in T PROVE m + 1 \in T
  <2>1. PICK f : IsWalk(f, m, evs)
    BY <1>2
  <2> DEFINE Last == IF queue[m + 1].event \in evs THEN f[m] ELSE Append(f[m], queue[m + 1])
             g == [i \in 0..m + 1 |-> IF i = m + 1 THEN Last ELSE f[i]]
  <2>2. \A i \in 0..m : g[i] = f[i]
    OBVIOUS
  <2>3. ASSUME NEW i \in 0..m + 1
        PROVE  g[i] = IF i = 0 THEN <<>>
                      ELSE IF queue[i].event \in evs THEN g[i - 1]
                      ELSE Append(g[i - 1], queue[i])
    <3>1. CASE i = m + 1
      BY <3>1, <2>2
    <3>2. CASE i # m + 1
      <4>1. i \in 0..m /\ (i # 0 => i - 1 \in 0..m)
        BY <3>2
      <4>2. f[i] = IF i = 0 THEN <<>>
                   ELSE IF queue[i].event \in evs THEN f[i - 1]
                   ELSE Append(f[i - 1], queue[i])
        BY <4>1, <2>1 DEF IsWalk
      <4> HIDE DEF g
      <4> QED
        BY <4>1, <4>2, <2>2
    <3> QED
      BY <3>1, <3>2
  <2>4. IsWalk(g, m + 1, evs)
    BY <2>3 DEF IsWalk
  <2> QED
    BY <2>4
<1> HIDE DEF T
<1>3. Nat \subseteq T
  BY <1>1, <1>2, InductionNat
<1> QED
  BY <1>3 DEF T

(* What is left of a sequence, in the order it was in.                     *)
InOrder(t, s) ==
  /\ \A a \in 1..Len(t) : \E x \in 1..Len(s) : t[a] = s[x]
  /\ \A a, b \in 1..Len(t) : a < b =>
       \E x, y \in 1..Len(s) : x < y /\ t[a] = s[x] /\ t[b] = s[y]

(* A removal leaves entries of the queue, in the order they were in.       *)
LEMMA WithoutKeeps ==
  ASSUME queue \in Seq(Entry), NEW evs
  PROVE  /\ Without(evs) \in Seq(Entry)
         /\ Len(Without(evs)) <= Len(queue)
         /\ InOrder(Without(evs), queue)
<1> DEFINE n == Len(queue)
           left == CHOOSE f : IsWalk(f, n, evs)
           Upto(t, i) ==
             /\ t \in Seq(Entry) /\ Len(t) <= i
             /\ \A a \in 1..Len(t) : \E x \in 1..i : t[a] = queue[x]
             /\ \A a, b \in 1..Len(t) : a < b =>
                  \E x, y \in 1..i : x < y /\ t[a] = queue[x] /\ t[b] = queue[y]
           T == {i \in 0..n : Upto(left[i], i)}
<1>1. n \in Nat
  OBVIOUS
<1>2. Without(evs) = left[n]
  BY DEF Without, IsWalk
<1>3. IsWalk(left, n, evs)
  BY <1>1, WalkExists
<1> HIDE DEF left
<1> HIDE DEF n
<1>4. ASSUME NEW i \in 0..n
      PROVE  left[i] = IF i = 0 THEN <<>>
                       ELSE IF queue[i].event \in evs THEN left[i - 1]
                       ELSE Append(left[i - 1], queue[i])
  BY <1>1, <1>3 DEF IsWalk
<1>5. 0 \in T
  <2>1. Upto(<<>>, 0)
    BY EmptySeq
  <2> HIDE DEF Upto
  <2>2. 0 \in 0..n /\ left[0] = <<>>
    BY <1>1, <1>4
  <2> QED
    BY <2>1, <2>2
<1>6. ASSUME NEW i \in 1..n, i - 1 \in T PROVE i \in T
  <2> DEFINE t == left[i - 1]
  <2>1. Upto(t, i - 1) /\ i - 1 \in Nat /\ queue[i] \in Entry
    BY <1>6, <1>1, ElementOfSeq DEF n
  <2> HIDE DEF Upto
  <2>2. CASE queue[i].event \in evs
    <3>1. left[i] = t
      BY <2>2, <1>4
    <3> HIDE DEF t
    <3>2. Upto(t, i)
      BY <2>1 DEF Upto
    <3> QED
      BY <3>1, <3>2
  <2>3. CASE queue[i].event \notin evs
    <3> DEFINE r == Append(t, queue[i])
    <3>1. left[i] = r
      <4>1. i \in 0..n /\ i # 0
        BY <1>1
      <4> QED
        BY <4>1, <2>3, <1>4, Zenon
    <3> HIDE DEF t
    <3>2. /\ r \in Seq(Entry) /\ Len(r) = Len(t) + 1 /\ r[Len(t) + 1] = queue[i]
          /\ \A a \in 1..Len(t) : r[a] = t[a]
      BY <2>1, AppendProperties DEF Upto
    <3> HIDE DEF r
    <3>3. ASSUME NEW a \in 1..Len(r) PROVE \E x \in 1..i : r[a] = queue[x]
      <4>1. CASE a = Len(t) + 1
        BY <4>1, <3>2
      <4>2. CASE a # Len(t) + 1
        <5>1. a \in 1..Len(t) /\ r[a] = t[a]
          BY <4>2, <3>2, <2>1 DEF Upto
        <5> QED
          BY <5>1, <2>1 DEF Upto
      <4> QED
        BY <4>1, <4>2
    <3>4. ASSUME NEW a \in 1..Len(r), NEW b \in 1..Len(r), a < b
          PROVE  \E x, y \in 1..i : x < y /\ r[a] = queue[x] /\ r[b] = queue[y]
      <4>1. a \in 1..Len(t) /\ r[a] = t[a]
        BY <3>2, <3>4, <2>1 DEF Upto
      <4>2. CASE b = Len(t) + 1
        <5>1. PICK x \in 1..i - 1 : t[a] = queue[x]
          BY <4>1, <2>1 DEF Upto
        <5>2. x \in 1..i /\ i \in 1..i /\ x < i
          OBVIOUS
        <5> QED
          BY <4>1, <4>2, <5>1, <5>2, <3>2
      <4>3. CASE b # Len(t) + 1
        <5>1. b \in 1..Len(t) /\ r[b] = t[b]
          BY <4>3, <3>2, <2>1 DEF Upto
        <5>2. PICK x \in 1..i - 1, y \in 1..i - 1 : x < y /\ t[a] = queue[x] /\ t[b] = queue[y]
          BY <4>1, <5>1, <3>4, <2>1 DEF Upto
        <5> QED
          BY <5>1, <5>2, <4>1
      <4> QED
        BY <4>2, <4>3
    <3>5. Upto(r, i)
      BY <3>2, <3>3, <3>4, <2>1 DEF Upto
    <3> QED
      BY <3>1, <3>5
  <2> QED
    BY <2>2, <2>3
<1> HIDE DEF T, Upto
<1>7. 0..n \subseteq T
  BY <1>1, <1>5, <1>6, InductionUpTo
<1>8. Upto(Without(evs), n)
  BY <1>1, <1>2, <1>7 DEF T
<1> QED
  BY <1>8 DEF InOrder, Upto, n

(* The queue stays in order.                                               *)
LEMMA InsertSorted ==
  ASSUME queue \in Seq(Entry), Sorted, NEW e \in Entry,
         NEW i \in 1..Len(Insert(e)), NEW j \in 1..Len(Insert(e)), i < j
  PROVE  Insert(e)[i].index <= Insert(e)[j].index
<1>1. PICK n \in 0..Len(queue) : InsertedAt(e, n)
  BY InsertFinds
<1> DEFINE r == Insert(e)
<1>2. /\ Len(r) = Len(queue) + 1 /\ r[n + 1] = e
      /\ \A k \in 1..n : r[k] = queue[k]
      /\ \A k \in n + 1..Len(queue) : r[k + 1] = queue[k]
      /\ \A k \in 1..Len(queue) : queue[k].index <= e.index <=> k <= n
  BY <1>1 DEF InsertedAt, IsPutAt
<1>3. ASSUME NEW k \in 1..Len(queue) PROVE queue[k].index \in Int
  <2>1. queue[k] \in Entry
    BY ElementOfSeq
  <2> QED
    BY <2>1 DEF Entry
<1>4. e.index \in Int
  BY DEF Entry
<1> HIDE DEF r
<1>5. i \in 1..Len(r) /\ j \in 1..Len(r)
  BY DEF r
<1>6. ASSUME NEW k \in 1..Len(r), k > n + 1
      PROVE  k - 1 \in n + 1..Len(queue) /\ r[k] = queue[k - 1]
  <2>1. k - 1 \in n + 1..Len(queue) /\ (k - 1) + 1 = k
    BY <1>6, <1>2
  <2> QED
    BY <2>1, <1>2
<1>7. CASE j <= n
  <2>1. i \in 1..n /\ j \in 1..n /\ i \in DOMAIN queue /\ j \in DOMAIN queue
    BY <1>7, <1>5
  <2>2. queue[i].index <= queue[j].index
    BY <2>1 DEF Sorted
  <2> QED
    BY <2>1, <2>2, <1>2 DEF r
<1>8. CASE j = n + 1
  <2>1. i \in 1..n /\ i \in 1..Len(queue)
    BY <1>8, <1>5
  <2> QED
    BY <2>1, <1>8, <1>2 DEF r
<1>9. CASE j > n + 1
  <2>1. j - 1 \in n + 1..Len(queue) /\ r[j] = queue[j - 1]
    BY <1>9, <1>5, <1>6
  <2>2. CASE i <= n
    <3>1. i \in DOMAIN queue /\ j - 1 \in DOMAIN queue /\ i < j - 1
      BY <2>1, <2>2, <1>5
    <3>2. queue[i].index <= queue[j - 1].index
      BY <3>1 DEF Sorted
    <3> QED
      BY <3>2, <2>1, <2>2, <1>2, <1>5 DEF r
  <2>3. CASE i = n + 1
    <3>1. ~(queue[j - 1].index <= e.index) /\ queue[j - 1].index \in Int
      BY <2>1, <1>2, <1>3
    <3>2. r[i] = e
      BY <2>3, <1>2
    <3> QED
      BY <3>1, <3>2, <2>1, <1>4 DEF r
  <2>4. CASE i > n + 1
    <3>1. i - 1 \in n + 1..Len(queue) /\ r[i] = queue[i - 1]
      BY <2>4, <1>5, <1>6
    <3>2. i - 1 \in DOMAIN queue /\ j - 1 \in DOMAIN queue /\ i - 1 < j - 1
      BY <2>1, <3>1
    <3>3. queue[i - 1].index <= queue[j - 1].index
      BY <3>2 DEF Sorted
    <3> QED
      BY <3>1, <3>3, <2>1 DEF r
  <2> QED
    BY <2>2, <2>3, <2>4, <1>5
<1> QED
  BY <1>5, <1>7, <1>8, <1>9

-----------------------------------------------------------------------------
(* The entries are accounted for and in order, and one is being served     *)
(* exactly while a handler runs.                                           *)
Structure ==
  /\ EntriesConserved
  /\ Sorted
  /\ phase = "handler" <=> current # NoEvent

LEMMA TickIndexType ==
  ASSUME TypeOK
  PROVE  PIC_TickIndexND \in Int /\ TickIndex \in Int
<1>1. PIC_TickIndexND \in Int
  BY UnitsType DEF TypeOK, PIC_TickIndexND
<1> QED
  BY <1>1, UnitsType, Times DEF TickIndex

(* What PIC_AddEvent queues.                                               *)
NewEntry(ev, delay) ==
  [event |-> ev, index |-> EventIndex(delay), due |-> Instant(EventIndex(delay))]

LEMMA NewEntryType ==
  ASSUME Structure, NEW ev \in Events, NEW delay \in Delays
  PROVE  /\ EventIndex(delay) \in Int
         /\ NewEntry(ev, delay) \in Entry
         /\ NewEntry(ev, delay).index = EventIndex(delay)
         /\ NewEntry(ev, delay).due = Instant(EventIndex(delay))
<1>1. TypeOK
  BY DEF Structure, EntriesConserved
<1>2. delay \in Nat
  BY EventAssumption
<1>3. EventIndex(delay) \in Int
  <2>1. CASE phase = "handler"
    <3>1. current \in Entry
      BY <1>1, <2>1 DEF TypeOK, Structure
    <3>2. current.index \in Int
      BY <3>1 DEF Entry
    <3> QED
      BY <1>2, <2>1, <3>2 DEF EventIndex
  <2>2. CASE phase # "handler"
    BY <1>1, <1>2, <2>2, TickIndexType DEF EventIndex
  <2> QED
    BY <2>1, <2>2
<1>4. Instant(EventIndex(delay)) \in Nat
  BY <1>1, <1>3, InstantType, EventAssumption DEF TypeOK
<1> QED
  BY <1>3, <1>4 DEF NewEntry, Entry

LEMMA StructureInit == Init => Structure
<1> SUFFICES ASSUME Init PROVE Structure
  OBVIOUS
<1>1. TypeOK
  BY EventAssumption DEF Init, TypeOK, NoEvent
<1> QED
  BY <1>1, EventAssumption DEF Init, Structure, EntriesConserved, Sorted, NoEvent

LEMMA AddEventKeepsStructure ==
  ASSUME Structure, NEW ev \in Events, NEW delay \in Delays, PIC_AddEvent(ev, delay)
  PROVE  Structure'
<1> DEFINE e == NewEntry(ev, delay)
<1>1. CASE free = 0
  BY <1>1 DEF PIC_AddEvent, vars, Structure, EntriesConserved, TypeOK, Sorted
<1>2. CASE free # 0
  <2>1. e \in Entry
    BY NewEntryType
  <2>2. /\ free' = free - 1 /\ AddEntry(e)
        /\ UNCHANGED <<phase, current, boosts, PIC_Ticks>>
    BY <1>2 DEF PIC_AddEvent, NewEntry
  <2> HIDE DEF e
  <2>3. queue' = Insert(e)
    BY <2>2 DEF AddEntry
  <2>4. queue \in Seq(Entry) /\ Sorted /\ TypeOK
    BY DEF Structure, EntriesConserved, TypeOK
  <2>5. queue' \in Seq(Entry) /\ Len(queue') = Len(queue) + 1
    <3>1. PICK n \in 0..Len(queue) : InsertedAt(e, n)
      BY <2>1, <2>4, InsertFinds
    <3> QED
      BY <3>1, <2>3 DEF InsertedAt, IsPutAt
  <2>6. Sorted'
    BY <2>1, <2>3, <2>4, <2>5, InsertSorted DEF Sorted
  <2>7. CPU_CycleLeft' \in Int /\ CPU_Cycles' \in Int
    BY <2>2, <2>4 DEF AddEntry, TypeOK
  <2>8. TypeOK'
    BY <1>2, <2>2, <2>4, <2>5, <2>7, EventAssumption DEF TypeOK
  <2> QED
    BY <2>2, <2>4, <2>5, <2>6, <2>8 DEF Structure, EntriesConserved, TypeOK
<1> QED
  BY <1>1, <1>2

LEMMA RemoveKeepsStructure ==
  ASSUME Structure, NEW evs, Remove(evs)
  PROVE  Structure'
<1>1. TypeOK /\ Sorted /\ queue \in Seq(Entry)
  BY DEF Structure, EntriesConserved, TypeOK
<1>2. /\ queue' \in Seq(Entry) /\ Len(queue') <= Len(queue)
      /\ InOrder(queue', queue)
  BY <1>1, WithoutKeeps DEF Remove
<1>3. Sorted'
  <2> SUFFICES ASSUME NEW i \in DOMAIN queue', NEW j \in DOMAIN queue', i < j
               PROVE  queue'[i].index <= queue'[j].index
    BY DEF Sorted
  <2>1. i \in 1..Len(queue') /\ j \in 1..Len(queue')
    BY <1>2
  <2>2. PICK x \in 1..Len(queue), y \in 1..Len(queue) :
          x < y /\ queue'[i] = queue[x] /\ queue'[j] = queue[y]
    BY <2>1, <1>2 DEF InOrder
  <2> QED
    BY <2>2, <1>1 DEF Sorted
<1>4. TypeOK' /\ free' = free + Len(queue) - Len(queue')
  <2>1. free' = free + Len(queue) - Len(queue')
    BY DEF Remove
  <2>2. free' \in 0..QueueSize
    BY <2>1, <1>1, <1>2, EventAssumption DEF TypeOK, Structure, EntriesConserved
  <2> QED
    BY <2>1, <2>2, <1>1, <1>2 DEF TypeOK, Remove
<1> QED
  BY <1>1, <1>2, <1>3, <1>4 DEF Remove, Structure, EntriesConserved, TypeOK

(* The main loop: an entry leaves the queue for its handler and goes to    *)
(* the free list after it.                                                 *)
LEMMA CallHandlerKeepsStructure == Structure /\ CallHandler => Structure'
<1> SUFFICES ASSUME Structure, CallHandler PROVE Structure'
  OBVIOUS
<1>1. TypeOK /\ Sorted /\ queue \in Seq(Entry) /\ queue # <<>> /\ current = NoEvent
  BY DEF Structure, EntriesConserved, TypeOK, CallHandler, Due
<1>2. /\ current' \in Entry /\ queue' \in Seq(Entry) /\ Len(queue') = Len(queue) - 1
      /\ \A i \in 1..Len(queue') : queue'[i] = queue[i + 1]
  BY <1>1, HeadTailProperties DEF CallHandler
<1>3. current' # NoEvent
  <2>1. "event" \in DOMAIN current'
    BY <1>2 DEF Entry
  <2>2. DOMAIN NoEvent = {}
    BY DEF NoEvent
  <2> QED
    BY <2>1, <2>2
<1>4. Sorted'
  <2> SUFFICES ASSUME NEW i \in DOMAIN queue', NEW j \in DOMAIN queue', i < j
               PROVE  queue'[i].index <= queue'[j].index
    BY DEF Sorted
  <2>1. i \in 1..Len(queue') /\ j \in 1..Len(queue')
    BY <1>2
  <2>2. i + 1 \in DOMAIN queue /\ j + 1 \in DOMAIN queue /\ i + 1 < j + 1
    BY <2>1, <1>1, <1>2
  <2>3. queue[i + 1].index <= queue[j + 1].index
    BY <2>2, <1>1 DEF Sorted
  <2> QED
    BY <2>1, <2>3, <1>2
<1>5. TypeOK'
  BY <1>1, <1>2 DEF TypeOK, CallHandler
<1> QED
  BY <1>1, <1>2, <1>3, <1>4, <1>5 DEF CallHandler, Structure, EntriesConserved, TypeOK, NoEvent

LEMMA HandlerReturnsKeepsStructure == Structure /\ HandlerReturns => Structure'
<1> SUFFICES ASSUME Structure, HandlerReturns PROVE Structure'
  OBVIOUS
<1>1. TypeOK /\ Sorted /\ current # NoEvent
  BY DEF Structure, EntriesConserved, HandlerReturns
<1>2. free + 1 \in 0..QueueSize
  BY <1>1, EventAssumption DEF Structure, EntriesConserved, TypeOK
<1>3. TypeOK'
  BY <1>1, <1>2 DEF TypeOK, HandlerReturns
<1> QED
  BY <1>1, <1>2, <1>3 DEF HandlerReturns, Structure, EntriesConserved, TypeOK, Sorted

(* A new tick lowers all indices alike.                                    *)
LEMMA AddTickKeepsStructure == Structure /\ TIMER_AddTick => Structure'
<1> SUFFICES ASSUME Structure, TIMER_AddTick PROVE Structure'
  OBVIOUS
<1>1. TypeOK /\ Sorted /\ queue \in Seq(Entry)
  BY DEF Structure, EntriesConserved, TypeOK
<1>2. UnitsPerTick \in Nat
  BY UnitsType
<1>3. ASSUME NEW i \in 1..Len(queue)
      PROVE  /\ queue[i].index \in Int /\ queue'[i] \in Entry
             /\ queue'[i].index = queue[i].index - UnitsPerTick
  <2>1. queue[i] \in Entry
    BY <1>1, ElementOfSeq
  <2>2. queue'[i] = [queue[i] EXCEPT !.index = @ - UnitsPerTick]
    <3>1. i \in DOMAIN queue
      BY <1>1
    <3> QED
      BY <3>1, Zenon DEF TIMER_AddTick
  <2> QED
    BY <1>2, <2>1, <2>2 DEF Entry
<1>4. queue' \in Seq(Entry) /\ Len(queue') = Len(queue)
  <2>1. queue' \in [1..Len(queue) -> Entry]
    <3>1. DOMAIN queue' = 1..Len(queue)
      BY <1>1 DEF TIMER_AddTick
    <3>2. queue' = [i \in 1..Len(queue) |-> queue'[i]]
      BY <1>1 DEF TIMER_AddTick
    <3> QED
      BY <3>1, <3>2, <1>3
  <2> QED
    BY <2>1, <1>1
<1>5. Sorted'
  BY <1>1, <1>2, <1>3, <1>4, SMTT(20) DEF Sorted
<1>6. TypeOK'
  BY <1>1, <1>4, EventAssumption DEF TypeOK, TIMER_AddTick
<1> QED
  BY <1>4, <1>5, <1>6 DEF TIMER_AddTick, Structure, EntriesConserved, TypeOK

LEMMA StructureStep == Structure /\ [Next]_vars => Structure'
<1> SUFFICES ASSUME Structure, [Next]_vars PROVE Structure'
  OBVIOUS
<1> USE DEF Structure, EntriesConserved, TypeOK, Sorted
<1>1. ASSUME NEW ev \in Events, NEW delay \in Delays, PIC_AddEvent(ev, delay)
      PROVE  Structure'
  BY <1>1, AddEventKeepsStructure
<1>2. ASSUME NEW ev \in Events, PIC_RemoveSpecificEvents(ev) \/ PIC_RemoveEvents(ev[1])
      PROVE  Structure'
  BY <1>2, RemoveKeepsStructure DEF PIC_RemoveSpecificEvents, PIC_RemoveEvents
<1>3. CASE BeginRunQueue
  BY <1>3 DEF BeginRunQueue
<1>4. CASE CallHandler
  BY <1>4, CallHandlerKeepsStructure
<1>5. CASE HandlerReturns
  BY <1>5, HandlerReturnsKeepsStructure
<1>6. CASE EndRunQueue
  <2>1. CyclesToNext \in Int
    <3>1. CASE queue = <<>>
      BY <3>1 DEF CyclesToNext
    <3>2. CASE queue # <<>>
      <4>1. queue[1].index - TickIndex \in Int
        <5>1. queue[1] \in Entry
          BY <3>2
        <5> QED
          BY <5>1, TickIndexType DEF Entry
      <4>2. ToCycles(queue[1].index - TickIndex) \in Int
        BY <4>1, ToCyclesRounds
      <4> QED
        BY <3>2, <4>2 DEF CyclesToNext
    <3> QED
      BY <3>1, <3>2
  <2> QED
    BY <1>6, <2>1, EventAssumption DEF EndRunQueue
<1>7. CASE LeaveCpu
  BY <1>7 DEF LeaveCpu
<1>8. CASE TIMER_AddTick
  BY <1>8, AddTickKeepsStructure
<1>9. CASE TickHandlersReturn
  BY <1>9 DEF TickHandlersReturn
<1>10. ASSUME NEW n \in 1..CycleMax + Overrun, Execute(n) PROVE Structure'
  BY <1>10, UnitsType, EventAssumption DEF Execute
<1>11. CASE ActivateIRQ
  BY <1>11, EventAssumption DEF ActivateIRQ
<1>12. CASE UNCHANGED vars
  BY <1>12 DEF vars
<1> QED
  BY <1>1, <1>2, <1>3, <1>4, <1>5, <1>6, <1>7, <1>8, <1>9, <1>10, <1>11, <1>12
  DEF Next, Calls, Loop

LEMMA StructureInvariant == Spec => []Structure
  BY StructureInit, StructureStep, PTL DEF Spec

(* No entry of the event queue leaks: each is queued, free or being        *)
(* served, however events are added, removed, dropped and served.          *)
THEOREM EntriesAreConserved == Spec => []EntriesConserved
<1>1. Structure => EntriesConserved
  BY DEF Structure
<1> QED
  BY <1>1, StructureInvariant, PTL

(* The event queue is always in the order of due times.                    *)
THEOREM QueueIsSorted == Spec => []Sorted
<1>1. Structure => Sorted
  BY DEF Structure
<1> QED
  BY <1>1, StructureInvariant, PTL

-----------------------------------------------------------------------------
(* The clock.  What one run of the CPU core may add to the cycles it was   *)
(* given: the end of an instruction, and for each interrupt two cycles and *)
(* the end of another.                                                     *)
Slack == Overrun + boosts * (2 + Overrun)

(* The cycles of a tick are given out a part at a time; in each phase it   *)
(* is known what is left of the tick and of the part.                      *)
Clock ==
  /\ CPU_Cycles >= -Overrun
  /\ phase \in {"service", "handler"} => CPU_Cycles = 0 /\ CPU_CycleLeft > 0
  /\ phase = "host" => CPU_Cycles = 0 /\ CPU_CycleLeft <= 0
  /\ phase = "tick" => CPU_Cycles = 0 /\ CPU_CycleLeft = CycleMax
  /\ phase = "enter" => CPU_Cycles > 0 /\ boosts = 0
  /\ phase \in {"enter", "cpu"} /\ CPU_Cycles # 0 => CPU_CycleLeft >= Overrun - Slack
  /\ PIC_TickIndexND <= CycleMax + Slack

(* Less than a cycle late at cycle t of the tick.                          *)
NotLate(t, index) == (t - 1) * UnitsPerCycle < index

(* An entry in time at cycle t, whose index in tick number ticks stands    *)
(* for the instant it was added for.                                       *)
OnTime(t, ticks, e) ==
  /\ NotLate(t, e.index)
  /\ (e.index + ticks * UnitsPerTick) % (TickModulus * UnitsPerTick) = e.due

(* While the CPU core has cycles, the point where it will stop is in time  *)
(* for every entry, but for the interrupts so far.                         *)
Timing ==
  /\ Clock
  /\ \A i \in DOMAIN queue : OnTime(PIC_TickIndexND - Slack, PIC_Ticks, queue[i])
  /\ phase \in {"enter", "cpu"} /\ CPU_Cycles # 0 =>
       \A i \in DOMAIN queue :
         NotLate(CycleMax - CPU_CycleLeft - (Slack - Overrun), queue[i].index)
  /\ phase = "handler" =>
       /\ current.index <= TickIndex
       /\ OnTime(PIC_TickIndexND - Slack, PIC_Ticks, current)

LEMMA SlackType ==
  ASSUME NEW b \in Nat
  PROVE  /\ Overrun + b * (2 + Overrun) \in Nat
         /\ Overrun + b * (2 + Overrun) >= Overrun
         /\ b = 0 => Overrun + b * (2 + Overrun) = Overrun
         /\ Overrun + (b + 1) * (2 + Overrun) = Overrun + b * (2 + Overrun) + 2 + Overrun
         /\ b <= MaxBoosts =>
              Overrun + b * (2 + Overrun) <= Overrun + MaxBoosts * (2 + Overrun)
<1> DEFINE k == 2 + Overrun
<1>1. k \in Nat /\ Overrun \in Nat /\ MaxBoosts \in Nat
  BY EventAssumption
<1> HIDE DEF k
<1>2. b * k \in Nat /\ (b = 0 => b * k = 0) /\ (b + 1) * k = b * k + k
  BY <1>1
<1>3. b <= MaxBoosts => b * k <= MaxBoosts * k
  BY <1>1, Times
<1>4. MaxBoosts * k \in Nat
  BY <1>1
<1>5. /\ Overrun + b * k \in Nat
      /\ Overrun + b * k >= Overrun
      /\ b = 0 => Overrun + b * k = Overrun
      /\ Overrun + (b + 1) * k = Overrun + b * k + k
      /\ b <= MaxBoosts => Overrun + b * k <= Overrun + MaxBoosts * k
  BY <1>1, <1>2, <1>3, <1>4
<1> QED
  BY <1>5, EventAssumption DEF k

LEMMA NotLateEarlier ==
  ASSUME NEW t \in Int, NEW u \in Int, u <= t, NEW index \in Int, NEW more \in Int,
         index <= more, NotLate(t, index)
  PROVE  NotLate(u, more)
<1>1. (u - 1) * UnitsPerCycle <= (t - 1) * UnitsPerCycle
      /\ (u - 1) * UnitsPerCycle \in Int /\ (t - 1) * UnitsPerCycle \in Int
  <2>1. u - 1 \in Int /\ t - 1 \in Int /\ u - 1 <= t - 1 /\ UnitsPerCycle \in Nat
    BY UnitsType
  <2> QED
    BY <2>1, Times
<1> QED
  BY <1>1 DEF NotLate

LEMMA NotLateNow ==
  ASSUME NEW t \in Int, NEW index \in Int, t * UnitsPerCycle <= index
  PROVE  NotLate(t, index)
<1>1. (t - 1) * UnitsPerCycle = t * UnitsPerCycle - UnitsPerCycle
      /\ t * UnitsPerCycle \in Int /\ UnitsPerCycle \in Nat /\ UnitsPerCycle > 0
  BY UnitsType
<1> QED
  BY <1>1 DEF NotLate

LEMMA OnTimeEarlier ==
  ASSUME NEW t \in Int, NEW u \in Int, u <= t, NEW ticks, NEW e \in Entry,
         OnTime(t, ticks, e)
  PROVE  OnTime(u, ticks, e)
<1>1. e.index \in Int
  BY DEF Entry
<1>2. NotLate(u, e.index)
  BY <1>1, NotLateEarlier DEF OnTime
<1> QED
  BY <1>2 DEF OnTime

(* The shift of a new tick leaves the instant an index stands for.         *)
LEMMA TickShift ==
  ASSUME NEW index \in Int, NEW ticks \in 0..TickModulus - 1
  PROVE  ((index - UnitsPerTick) + ((ticks + 1) % TickModulus) * UnitsPerTick)
            % (TickModulus * UnitsPerTick)
         = (index + ticks * UnitsPerTick) % (TickModulus * UnitsPerTick)
<1> DEFINE U == UnitsPerTick
           M == TickModulus
           K == M * U
<1>1. U \in Nat /\ M \in Nat /\ M > 1 /\ K \in Nat \ {0} /\ ticks \in Nat
  BY UnitsType, EventAssumption
<1>2. CASE ticks + 1 < TickModulus
  <2>1. (ticks + 1) % M = ticks + 1
    BY <1>1, <1>2
  <2> HIDE DEF U, M
  <2>2. (index - U) + (ticks + 1) * U = index + ticks * U
    BY <1>1
  <2> QED
    BY <2>1, <2>2 DEF U, M
<1>3. CASE ticks + 1 = TickModulus
  <2>1. (ticks + 1) % M = 0
    BY <1>1, <1>3
  <2>2. ticks = M - 1
    BY <1>1, <1>3
  <2> HIDE DEF U, M, K
  <2> DEFINE a == (index - U) + 0 * U
             q == 1
  <2>3. a \in Int /\ q \in Int /\ index + ticks * U = a + K * q
    BY <2>2, <1>1 DEF K
  <2> HIDE DEF a, q
  <2>4. (a + K * q) % K = a % K
    BY <2>3, <1>1, SameMod
  <2>5. a % K = (index + ticks * U) % K
    BY <2>3, <2>4
  <2> QED
    BY <2>1, <2>5 DEF a, U, M, K
<1> QED
  BY <1>1, <1>2, <1>3

(* What the proofs about the clock need of types.                          *)
Numbers ==
  /\ PIC_TickIndexND \in Int /\ Slack \in Nat /\ Slack >= Overrun
  /\ PIC_TickIndexND = CycleMax - CPU_CycleLeft - CPU_Cycles
  /\ CPU_CycleLeft \in Int /\ CPU_Cycles \in Int
  /\ CycleMax \in Nat /\ Overrun \in Nat /\ boosts \in Nat

Typed ==
  /\ TypeOK /\ Sorted
  /\ Numbers
  /\ TickIndex = PIC_TickIndexND * UnitsPerCycle /\ TickIndex \in Int
  /\ queue \in Seq(Entry)
  /\ \A i \in DOMAIN queue : queue[i] \in Entry /\ queue[i].index \in Int
  /\ phase = "handler" => current \in Entry /\ current.index \in Int

LEMMA TimingTypes == Structure => Typed
<1> SUFFICES ASSUME Structure PROVE Typed
  OBVIOUS
<1>1. TypeOK /\ Sorted
  BY DEF Structure, EntriesConserved
<1>2. queue \in Seq(Entry) /\ CPU_CycleLeft \in Int /\ CPU_Cycles \in Int
      /\ boosts \in Nat /\ CycleMax \in Nat /\ Overrun \in Nat
  BY <1>1, EventAssumption DEF TypeOK
<1>3. PIC_TickIndexND \in Int /\ TickIndex \in Int
  BY <1>1, TickIndexType
<1>4. Slack \in Nat /\ Slack >= Overrun
  BY <1>2, SlackType DEF Slack
<1>5. ASSUME NEW i \in DOMAIN queue PROVE queue[i] \in Entry /\ queue[i].index \in Int
  <2>1. queue[i] \in Entry
    BY <1>2
  <2> QED
    BY <2>1 DEF Entry
<1>6. phase = "handler" => current \in Entry /\ current.index \in Int
  <2>1. phase = "handler" => current \in Entry
    BY <1>1 DEF Structure, TypeOK
  <2> QED
    BY <2>1 DEF Entry
<1>7. /\ PIC_TickIndexND = CycleMax - CPU_CycleLeft - CPU_Cycles
      /\ TickIndex = PIC_TickIndexND * UnitsPerCycle
  BY DEF PIC_TickIndexND, TickIndex
<1> QED
  BY <1>1, <1>2, <1>3, <1>4, <1>5, <1>6, <1>7 DEF Typed, Numbers

LEMMA TypesAfter == Structure' => Typed'
  BY TimingTypes, PTL

LEMMA TimingInit == Init => Timing
<1> SUFFICES ASSUME Init PROVE Timing
  OBVIOUS
<1>1. Structure
  BY StructureInit
<1>2. Clock
  BY <1>1, TimingTypes, EventAssumption DEF Clock, Init, Typed, Numbers
<1> QED
  BY <1>2 DEF Timing, Init

(* Entries that stay in the queue while the clock does not pass them stay  *)
(* in time.                                                                *)
LEMMA StayOnTime ==
  ASSUME Structure, Structure', Timing, PIC_Ticks' = PIC_Ticks,
         PIC_TickIndexND' - Slack' <= PIC_TickIndexND - Slack,
         \A k \in DOMAIN queue' : \E i \in DOMAIN queue : queue'[k] = queue[i]
  PROVE  \A k \in DOMAIN queue' :
           OnTime(PIC_TickIndexND' - Slack', PIC_Ticks', queue'[k])
<1> DEFINE t == PIC_TickIndexND - Slack
           u == PIC_TickIndexND' - Slack'
<1>1. t \in Int /\ u \in Int /\ u <= t
  <2>1. PIC_TickIndexND \in Int /\ Slack \in Nat
    BY TimingTypes DEF Typed, Numbers
  <2>2. PIC_TickIndexND' \in Int /\ Slack' \in Nat
    BY TypesAfter DEF Typed, Numbers
  <2>3. u <= t
    BY Zenon
  <2>4. t \in Int
    BY <2>1
  <2>5. u \in Int
    BY <2>2
  <2> QED
    BY <2>3, <2>4, <2>5
<1>2. \A i \in DOMAIN queue : queue[i] \in Entry /\ OnTime(t, PIC_Ticks, queue[i])
  BY TimingTypes DEF Timing, Typed, Numbers
<1> HIDE DEF t, u
<1>3. ASSUME NEW k \in DOMAIN queue' PROVE OnTime(u, PIC_Ticks, queue'[k])
  <2>1. PICK i \in DOMAIN queue : queue'[k] = queue[i]
    OBVIOUS
  <2> QED
    BY <2>1, <1>1, <1>2, OnTimeEarlier
<1> QED
  BY <1>3 DEF u

(* The steps that neither move the clock nor touch the queue.              *)
LEMMA BeginRunQueueKeepsTiming ==
  Structure /\ Structure' /\ Timing /\ BeginRunQueue => Timing'
<1> SUFFICES ASSUME Structure, Structure', Timing, BeginRunQueue PROVE Timing'
  OBVIOUS
<1>1. Typed /\ Typed' /\ Numbers /\ Numbers' /\ Slack' = Slack
  BY TimingTypes, TypesAfter DEF Typed, BeginRunQueue, Slack
<1>2. PIC_TickIndexND' = PIC_TickIndexND
  BY <1>1 DEF Typed, Numbers, BeginRunQueue
<1>3. Clock'
  BY <1>1, <1>2 DEF Typed, Numbers, Clock, Timing, BeginRunQueue
<1>4. \A k \in DOMAIN queue' : OnTime(PIC_TickIndexND' - Slack', PIC_Ticks', queue'[k])
  BY <1>1, <1>2 DEF Timing, BeginRunQueue
<1> QED
  BY <1>3, <1>4 DEF Timing, BeginRunQueue

LEMMA LeaveCpuKeepsTiming ==
  Structure /\ Structure' /\ Timing /\ (LeaveCpu \/ TickHandlersReturn) => Timing'
<1> SUFFICES ASSUME Structure, Structure', Timing, LeaveCpu \/ TickHandlersReturn PROVE Timing'
  OBVIOUS
<1>1. /\ phase' = "loop"
      /\ UNCHANGED <<queue, free, current, CPU_CycleLeft, CPU_Cycles, boosts, PIC_Ticks>>
  BY DEF LeaveCpu, TickHandlersReturn
<1>2. PIC_TickIndexND' = PIC_TickIndexND /\ Slack' = Slack
  BY <1>1 DEF PIC_TickIndexND, Slack
<1> QED
  BY <1>1, <1>2 DEF Timing, Clock

LEMMA CallHandlerKeepsTiming ==
  Structure /\ Structure' /\ Timing /\ CallHandler => Timing'
<1> SUFFICES ASSUME Structure, Structure', Timing, CallHandler PROVE Timing'
  OBVIOUS
<1>1. Typed /\ Typed' /\ Numbers /\ Numbers' /\ Slack' = Slack /\ PIC_TickIndexND' = PIC_TickIndexND
  BY TimingTypes, TypesAfter DEF Typed, CallHandler, Slack, PIC_TickIndexND
<1>2. queue \in Seq(Entry) /\ queue # <<>>
  BY <1>1 DEF Typed, Numbers, CallHandler, Due
<1>3. /\ 1 \in DOMAIN queue /\ current' = queue[1]
      /\ Len(queue') = Len(queue) - 1 /\ queue' \in Seq(Entry)
      /\ \A k \in 1..Len(queue') : queue'[k] = queue[k + 1]
  BY <1>2, HeadTailProperties DEF CallHandler
<1>4. ASSUME NEW k \in DOMAIN queue' PROVE \E i \in DOMAIN queue : queue'[k] = queue[i]
  <2>1. k \in 1..Len(queue') /\ k + 1 \in DOMAIN queue
    BY <1>2, <1>3
  <2> QED
    BY <2>1, <1>3
<1>5. \A k \in DOMAIN queue' : OnTime(PIC_TickIndexND' - Slack', PIC_Ticks', queue'[k])
  <2>1. PIC_TickIndexND' - Slack' <= PIC_TickIndexND - Slack
    <3>1. PIC_TickIndexND' - Slack' = PIC_TickIndexND - Slack
      BY <1>1
    <3>2. PIC_TickIndexND - Slack \in Int
      <4>1. PIC_TickIndexND \in Int /\ Slack \in Nat
        BY <1>1 DEF Numbers
      <4> QED
        BY <4>1
    <3>3. \A i \in Int : i <= i
      OBVIOUS
    <3> QED
      BY <3>1, <3>2, <3>3, ZenonT(20)
  <2>2. PIC_Ticks' = PIC_Ticks
    BY DEF CallHandler
  <2> QED
    BY <2>1, <2>2, <1>4, StayOnTime
<1>6. Clock'
  BY <1>1 DEF Typed, Numbers, Clock, Timing, CallHandler
<1>7. /\ current'.index <= TickIndex'
      /\ OnTime(PIC_TickIndexND' - Slack', PIC_Ticks', current')
  <2>1. current'.index <= TickIndex
    BY <1>3 DEF CallHandler, Due
  <2>2. TickIndex' = TickIndex
    BY <1>1 DEF TickIndex
  <2>3. OnTime(PIC_TickIndexND - Slack, PIC_Ticks, queue[1])
    BY <1>3 DEF Timing
  <2> QED
    BY <2>1, <2>2, <2>3, <1>1, <1>3 DEF CallHandler
<1> QED
  BY <1>5, <1>6, <1>7 DEF Timing, CallHandler

LEMMA HandlerReturnsKeepsTiming ==
  Structure /\ Structure' /\ Timing /\ HandlerReturns => Timing'
<1> SUFFICES ASSUME Structure, Structure', Timing, HandlerReturns PROVE Timing'
  OBVIOUS
<1>1. PIC_TickIndexND' = PIC_TickIndexND /\ Slack' = Slack
  BY DEF PIC_TickIndexND, Slack, HandlerReturns
<1> QED
  BY <1>1 DEF Timing, Clock, HandlerReturns

(* A removal leaves what is in time.                                       *)
LEMMA RemoveKeepsTiming ==
  ASSUME Structure, Structure', Timing, NEW evs, Remove(evs)
  PROVE  Timing'
<1>1. Typed /\ Typed' /\ Numbers /\ Numbers' /\ Slack' = Slack /\ PIC_TickIndexND' = PIC_TickIndexND
  BY TimingTypes, TypesAfter DEF Typed, Remove, Slack, PIC_TickIndexND
<1>2. ASSUME NEW k \in DOMAIN queue' PROVE \E i \in DOMAIN queue : queue'[k] = queue[i]
  <2>1. InOrder(queue', queue) /\ k \in 1..Len(queue')
    BY <1>1, WithoutKeeps DEF Typed, Numbers, Remove
  <2>2. PICK i \in 1..Len(queue) : queue'[k] = queue[i]
    BY <2>1 DEF InOrder
  <2> QED
    BY <2>2, <1>1 DEF Typed
<1>3. \A k \in DOMAIN queue' : OnTime(PIC_TickIndexND' - Slack', PIC_Ticks', queue'[k])
  <2>0. PIC_TickIndexND \in Int /\ Slack \in Nat
        /\ PIC_TickIndexND' = PIC_TickIndexND /\ Slack' = Slack
    BY <1>1, Zenon DEF Numbers
  <2>1. PIC_TickIndexND' - Slack' <= PIC_TickIndexND - Slack
    BY <2>0
  <2>2. PIC_Ticks' = PIC_Ticks
    BY DEF Remove
  <2> QED
    BY <2>1, <2>2, <1>2, StayOnTime
<1>4. Clock'
  BY <1>1 DEF Typed, Numbers, Clock, Timing, Remove
<1>5. ASSUME phase' \in {"enter", "cpu"} /\ CPU_Cycles' # 0, NEW k \in DOMAIN queue'
      PROVE  NotLate(CycleMax - CPU_CycleLeft' - (Slack' - Overrun), queue'[k].index)
  <2>1. PICK i \in DOMAIN queue : queue'[k] = queue[i]
    BY <1>2
  <2>2. NotLate(CycleMax - CPU_CycleLeft - (Slack - Overrun), queue[i].index)
    BY <1>5 DEF Timing, Remove
  <2> QED
    BY <2>1, <2>2, <1>1 DEF Remove
<1>6. phase' = "handler" =>
        /\ current'.index <= TickIndex'
        /\ OnTime(PIC_TickIndexND' - Slack', PIC_Ticks', current')
  <2>1. TickIndex' = TickIndex
    BY <1>1 DEF TickIndex
  <2> QED
    BY <2>1, <1>1 DEF Timing, Remove
<1> QED
  BY <1>3, <1>4, <1>5, <1>6 DEF Timing

(* The CPU core runs; the point where it stops stays where it is.          *)
LEMMA ExecuteKeepsTiming ==
  ASSUME Structure, Structure', Timing, NEW n \in 1..CycleMax + Overrun, Execute(n)
  PROVE  Timing'
<1>1. Typed /\ Typed' /\ Numbers /\ Numbers' /\ Slack' = Slack /\ n \in Nat
  BY TimingTypes, TypesAfter DEF Typed, Execute, Slack
<1>2. PIC_TickIndexND' = PIC_TickIndexND + n
  BY <1>1 DEF Typed, Numbers, Execute
<1>3. CPU_Cycles # 0 /\ phase \in {"enter", "cpu"} /\ phase' = "cpu"
      /\ UNCHANGED <<queue, CPU_CycleLeft, PIC_Ticks>>
  BY <1>1 DEF Typed, Numbers, Execute
<1>4. PIC_TickIndexND' - Slack' <= CycleMax - CPU_CycleLeft - (Slack - Overrun)
  BY <1>1, <1>2 DEF Typed, Numbers, Execute
<1>5. Clock'
  BY <1>1, <1>2, <1>4 DEF Typed, Numbers, Clock, Timing, Execute
<1>6. ASSUME NEW k \in DOMAIN queue'
      PROVE  OnTime(PIC_TickIndexND' - Slack', PIC_Ticks', queue'[k])
  <2> DEFINE t == CycleMax - CPU_CycleLeft - (Slack - Overrun)
             u == PIC_TickIndexND' - Slack'
  <2>0. PIC_TickIndexND' \in Int /\ Slack' \in Nat /\ Slack \in Nat
        /\ CycleMax \in Nat /\ CPU_CycleLeft \in Int /\ Overrun \in Nat
    BY <1>1, Zenon DEF Numbers
  <2>1. t \in Int /\ u \in Int
    BY <2>0
  <2>2. k \in DOMAIN queue /\ queue'[k] = queue[k] /\ queue[k].index \in Int
    BY <1>1, <1>3 DEF Typed, Numbers
  <2>3. NotLate(t, queue[k].index)
    BY <1>3, <2>2 DEF Timing
  <2>4. NotLate(u, queue[k].index)
    BY <1>4, <2>1, <2>2, <2>3, NotLateEarlier
  <2> QED
    BY <1>3, <2>2, <2>4 DEF Timing, OnTime
<1> QED
  BY <1>1, <1>3, <1>5, <1>6 DEF Timing

(* An interrupt moves that point by two cycles from where the CPU core is, *)
(* which may be past it by the end of an instruction.                      *)
LEMMA ActivateIRQKeepsTiming ==
  Structure /\ Structure' /\ Timing /\ ActivateIRQ => Timing'
<1> SUFFICES ASSUME Structure, Structure', Timing, ActivateIRQ PROVE Timing'
  OBVIOUS
<1>1. Typed /\ Typed' /\ Numbers /\ Numbers'
  BY TimingTypes, TypesAfter DEF Typed
<1>2. Slack' = Slack + 2 + Overrun
  BY <1>1, SlackType DEF Typed, Numbers, ActivateIRQ, Slack
<1>3. PIC_TickIndexND' = PIC_TickIndexND
  BY <1>1 DEF Typed, Numbers, ActivateIRQ
<1>4. CPU_Cycles # 0 /\ phase = "cpu" /\ phase' = "cpu" /\ UNCHANGED <<queue, PIC_Ticks>>
  BY DEF ActivateIRQ
<1>5. Clock'
  BY <1>1, <1>2, <1>3 DEF Typed, Numbers, Clock, Timing, ActivateIRQ
<1>6. \A k \in DOMAIN queue' : OnTime(PIC_TickIndexND' - Slack', PIC_Ticks', queue'[k])
  <2>1. PIC_TickIndexND' - Slack' <= PIC_TickIndexND - Slack
    BY <1>1, <1>2, <1>3 DEF Typed, Numbers
  <2> QED
    BY <2>1, <1>4, StayOnTime
<1>7. ASSUME NEW k \in DOMAIN queue'
      PROVE  NotLate(CycleMax - CPU_CycleLeft' - (Slack' - Overrun), queue'[k].index)
  <2> DEFINE t == CycleMax - CPU_CycleLeft - (Slack - Overrun)
             u == CycleMax - CPU_CycleLeft' - (Slack' - Overrun)
  <2>1. t \in Int /\ u \in Int /\ u <= t
    BY <1>1, <1>2 DEF Typed, Numbers, ActivateIRQ, Clock, Timing
  <2>2. k \in DOMAIN queue /\ queue'[k] = queue[k] /\ queue[k].index \in Int
    BY <1>1, <1>4 DEF Typed, Numbers
  <2>3. NotLate(t, queue[k].index)
    BY <1>4, <2>2 DEF Timing
  <2> QED
    BY <2>1, <2>2, <2>3, NotLateEarlier
<1> QED
  BY <1>4, <1>5, <1>6, <1>7 DEF Timing

(* The cycles the CPU core is given end at the next event or, to get on,   *)
(* within a cycle of it.                                                   *)
LEMMA EndRunQueueKeepsTiming ==
  Structure /\ Structure' /\ Timing /\ EndRunQueue => Timing'
<1> SUFFICES ASSUME Structure, Structure', Timing, EndRunQueue PROVE Timing'
  OBVIOUS
<1>1. Typed /\ Typed' /\ Numbers /\ Numbers'
  BY TimingTypes, TypesAfter DEF Typed
<1>2. Slack' = Overrun
  BY SlackType DEF EndRunQueue, Slack
<1>3. /\ phase = "service" /\ phase' = "enter" /\ boosts' = 0
      /\ CPU_Cycles = 0 /\ CPU_CycleLeft > 0
      /\ UNCHANGED <<queue, PIC_Ticks>>
  BY DEF EndRunQueue, Timing, Clock
<1>4. CPU_CycleLeft' = CPU_CycleLeft - CPU_Cycles' /\ PIC_TickIndexND' = PIC_TickIndexND
  BY <1>1, <1>3 DEF Typed, Numbers, EndRunQueue
<1>5. ASSUME NEW k \in DOMAIN queue
      PROVE  /\ 1 \in DOMAIN queue /\ queue[1].index <= queue[k].index
             /\ queue[1].index > TickIndex
  <2>0. queue \in Seq(Entry)
    BY <1>1 DEF Typed
  <2>1. queue # <<>> /\ 1 \in DOMAIN queue
    BY <2>0
  <2>2. queue[1].index <= queue[k].index
    <3>1. CASE k = 1
      BY <3>1, <1>1 DEF Typed
    <3>2. CASE k # 1
      <4>1. 1 < k
        BY <3>2, <1>1 DEF Typed
      <4> QED
        BY <4>1, <2>1, <1>1 DEF Typed, Sorted
    <3> QED
      BY <3>1, <3>2
  <2>3. queue[1].index > TickIndex
    BY <2>1, <1>1 DEF Typed, Numbers, EndRunQueue, Due
  <2> QED
    BY <2>1, <2>2, <2>3
<1>6. /\ CPU_Cycles' >= 1 /\ CPU_Cycles' <= CPU_CycleLeft
      /\ queue # <<>> => NotLate(PIC_TickIndexND + CPU_Cycles', queue[1].index)
  <2>1. CASE queue = <<>>
    BY <2>1, <1>1, <1>3 DEF Typed, Numbers, EndRunQueue, CyclesToNext
  <2>2. CASE queue # <<>>
    <3> DEFINE x == queue[1].index - TickIndex
               c == ToCycles(x)
               N == PIC_TickIndexND
    <3>0. queue \in Seq(Entry)
      BY <1>1 DEF Typed
    <3>1. 1 \in DOMAIN queue
      BY <2>2, <3>0
    <3>2. x \in Int /\ x > 0 /\ queue[1].index = N * UnitsPerCycle + x
          /\ N \in Int /\ queue[1].index \in Int
      <4>1. /\ queue[1].index \in Int /\ queue[1].index > TickIndex
            /\ TickIndex = N * UnitsPerCycle /\ TickIndex \in Int
        BY <3>1, <1>1, <1>5 DEF Typed
      <4> QED
        BY <4>1, <1>1 DEF Numbers
    <3>3. c \in Nat /\ c * UnitsPerCycle <= x
      BY <3>2, ToCyclesRounds
    <3>4. /\ CPU_Cycles' = IF (IF c = 0 THEN 1 ELSE c) < CPU_CycleLeft
                           THEN (IF c = 0 THEN 1 ELSE c) ELSE CPU_CycleLeft
      BY <2>2 DEF EndRunQueue, CyclesToNext
    <3> HIDE DEF x, c, N
    <3>5. CPU_CycleLeft \in Int /\ CPU_CycleLeft > 0
      BY <1>1, <1>3 DEF Typed, Numbers
    <3>6. CPU_Cycles' >= 1 /\ CPU_Cycles' <= CPU_CycleLeft /\ CPU_Cycles' \in Int
      BY <3>3, <3>4, <3>5
    <3>7. NotLate(N + CPU_Cycles', queue[1].index)
      <4>1. CASE c = 0
        <5>1. (N + CPU_Cycles') - 1 = N
          BY <4>1, <3>2, <3>4, <3>5, <3>6
        <5>2. N * UnitsPerCycle < queue[1].index
          BY <3>2, UnitsType, Times
        <5>3. ((N + CPU_Cycles') - 1) * UnitsPerCycle = N * UnitsPerCycle
          BY <5>1, Zenon
        <5>4. ((N + CPU_Cycles') - 1) * UnitsPerCycle < queue[1].index
          BY <5>2, <5>3, Zenon
        <5> QED
          BY <5>4, Zenon DEF NotLate
      <4>2. CASE c # 0
        <5>1. N + CPU_Cycles' <= N + c /\ N + CPU_Cycles' \in Int /\ N + c \in Int
          BY <4>2, <3>2, <3>3, <3>4, <3>5
        <5>2. (N + c) * UnitsPerCycle = N * UnitsPerCycle + c * UnitsPerCycle
              /\ N * UnitsPerCycle \in Int /\ c * UnitsPerCycle \in Int
          BY <3>2, <3>3, UnitsType, Times
        <5>3. (N + c) * UnitsPerCycle <= queue[1].index
          BY <5>2, <3>2, <3>3
        <5>4. NotLate(N + c, queue[1].index)
          BY <5>1, <5>3, <3>2, NotLateNow
        <5> QED
          BY <5>1, <5>4, <3>2, NotLateEarlier
      <4> QED
        BY <4>1, <4>2
    <3> QED
      BY <3>6, <3>7 DEF N
  <2> QED
    BY <2>1, <2>2
<1>7. Clock'
  <2>1. /\ PIC_TickIndexND \in Int /\ CycleMax \in Nat /\ CPU_CycleLeft \in Int
        /\ PIC_TickIndexND = CycleMax - CPU_CycleLeft - CPU_Cycles
        /\ CPU_Cycles \in Int /\ CPU_Cycles' \in Int /\ Overrun \in Nat
        /\ CPU_CycleLeft' \in Int /\ PIC_TickIndexND' \in Int /\ Slack' \in Nat
    BY <1>1, Zenon DEF Numbers
  <2>2. CPU_CycleLeft' >= 0
    <3> DEFINE c == CPU_Cycles'
               l == CPU_CycleLeft'
    <3>1. l = CPU_CycleLeft - c /\ c <= CPU_CycleLeft /\ c \in Int
      BY <1>4, <1>6, <2>1, Zenon
    <3> HIDE DEF c, l
    <3>2. l >= 0
      BY <2>1, <3>1
    <3> QED
      BY <3>2 DEF l
  <2>3. CPU_Cycles' >= -Overrun /\ CPU_Cycles' > 0
    BY <2>1, <1>6
  <2>4. PIC_TickIndexND <= CycleMax + Overrun
    BY <2>1, <1>3
  <2>5. Overrun - Overrun = 0
    BY <2>1
  <2> QED
    BY <2>2, <2>3, <2>4, <2>5, <1>2, <1>3, <1>4 DEF Clock
<1>8. ASSUME NEW k \in DOMAIN queue'
      PROVE  /\ NotLate(CycleMax - CPU_CycleLeft' - (Slack' - Overrun), queue'[k].index)
             /\ OnTime(PIC_TickIndexND' - Slack', PIC_Ticks', queue'[k])
  <2> DEFINE t == PIC_TickIndexND + CPU_Cycles'
             u == PIC_TickIndexND' - Slack'
             v == CycleMax - CPU_CycleLeft' - (Slack' - Overrun)
  <2>0. /\ PIC_TickIndexND \in Int /\ CycleMax \in Nat /\ CPU_CycleLeft \in Int
        /\ PIC_TickIndexND = CycleMax - CPU_CycleLeft - CPU_Cycles
        /\ CPU_Cycles \in Int /\ CPU_Cycles' \in Int /\ Overrun \in Nat
        /\ CPU_CycleLeft' \in Int /\ PIC_TickIndexND' \in Int /\ Slack' \in Nat
    BY <1>1, Zenon DEF Numbers
  <2>1. t \in Int /\ u \in Int /\ v \in Int /\ u <= t /\ v <= t
    <3> DEFINE c == CPU_Cycles'
               l == CPU_CycleLeft'
               N == PIC_TickIndexND
    <3>1. c \in Int /\ c >= 1 /\ N \in Int /\ l = CPU_CycleLeft - c /\ CPU_Cycles = 0
      BY <1>3, <1>4, <1>6, <2>0, Zenon
    <3>2. t = N + c /\ u = N - Overrun /\ v = CycleMax - l - (Overrun - Overrun)
      BY <1>2, <1>4, Zenon
    <3> HIDE DEF c, l, t, u, v
    <3> QED
      BY <3>1, <3>2, <2>0
  <2>3. /\ k \in DOMAIN queue /\ queue'[k] = queue[k] /\ queue[k].index \in Int
        /\ queue # <<>> /\ queue[1].index \in Int /\ queue[1].index <= queue[k].index
    BY <1>1, <1>3, <1>5 DEF Typed, Numbers
  <2>4. NotLate(t, queue[1].index)
    BY <2>3, <1>6
  <2> HIDE DEF t, u, v
  <2>5. NotLate(u, queue[k].index)
    BY <2>1, <2>3, <2>4, NotLateEarlier
  <2>6. NotLate(v, queue[k].index)
    BY <2>1, <2>3, <2>4, NotLateEarlier
  <2>7. OnTime(u, PIC_Ticks', queue'[k])
    BY <1>3, <2>3, <2>5 DEF Timing, OnTime
  <2> QED
    BY <2>3, <2>6, <2>7 DEF u, v
<1> QED
  BY <1>3, <1>7, <1>8 DEF Timing

(* The shift of a new tick leaves the time to every event.                 *)
LEMMA AddTickKeepsTiming ==
  Structure /\ Structure' /\ Timing /\ TIMER_AddTick => Timing'
<1> SUFFICES ASSUME Structure, Structure', Timing, TIMER_AddTick PROVE Timing'
  OBVIOUS
<1>1. Typed /\ Typed' /\ Numbers /\ Numbers' /\ Slack' = Slack
  BY TimingTypes, TypesAfter DEF Typed, TIMER_AddTick, Slack
<1>2. phase = "host" /\ CPU_Cycles = 0 /\ CPU_CycleLeft <= 0
  BY DEF TIMER_AddTick, Timing, Clock
<1>3. PIC_TickIndexND' = 0 /\ PIC_TickIndexND >= CycleMax
  BY <1>1, <1>2 DEF Typed, Numbers, TIMER_AddTick
<1>4. Clock'
  BY <1>1, <1>3 DEF Typed, Numbers, Clock, TIMER_AddTick
<1>5. ASSUME NEW k \in DOMAIN queue'
      PROVE  OnTime(PIC_TickIndexND' - Slack', PIC_Ticks', queue'[k])
  <2> DEFINE x == queue[k].index
             U == UnitsPerCycle
             a == PIC_TickIndexND - Slack - 1
             b == CycleMax - Slack - 1
  <2>1. k \in DOMAIN queue
    BY DEF TIMER_AddTick
  <2>2. queue[k] \in Entry /\ x \in Int
    BY <2>1, <1>1 DEF Typed, Numbers
  <2>3. queue'[k] = [queue[k] EXCEPT !.index = @ - UnitsPerTick]
    BY <2>1, Zenon DEF TIMER_AddTick
  <2>4. UnitsPerTick = CycleMax * U /\ UnitsPerTick \in Nat /\ U \in Nat /\ CycleMax \in Nat
    BY UnitsType DEF UnitsPerTick
  <2>5. queue'[k].index = x - UnitsPerTick /\ queue'[k].due = queue[k].due
    BY <2>2, <2>3 DEF Entry
  <2>6. OnTime(PIC_TickIndexND - Slack, PIC_Ticks, queue[k])
    BY <2>1 DEF Timing
  <2>7. a * U < x /\ a \in Int /\ b \in Int /\ b <= a
    BY <2>6, <1>1, <1>3 DEF Typed, Numbers, OnTime, NotLate
  <2> HIDE DEF x, U, a, b
  <2>8. b * U < x /\ b * U \in Int
    <3>1. b * U <= a * U /\ b * U \in Int /\ a * U \in Int
      BY <2>7, <2>4, Times
    <3> QED
      BY <3>1, <2>7, <2>2 DEF x
  <2>9. (0 - Slack - 1) * U < x - UnitsPerTick
    <3>1. 0 - Slack - 1 = b - CycleMax
      BY <1>1 DEF Typed, Numbers, b
    <3>2. (b - CycleMax) * U = b * U - CycleMax * U
      BY <2>4, <2>7, Times
    <3> QED
      BY <3>1, <3>2, <2>4, <2>8, <2>2 DEF x
  <2>10. NotLate(PIC_TickIndexND' - Slack', queue'[k].index)
    BY <2>9, <2>5, <1>1, <1>3 DEF NotLate, U
  <2>11. ((x - UnitsPerTick) + PIC_Ticks' * UnitsPerTick) % (TickModulus * UnitsPerTick)
         = queue[k].due
    <3>1. PIC_Ticks \in 0..TickModulus - 1 /\ PIC_Ticks' = (PIC_Ticks + 1) % TickModulus
      BY <1>1 DEF Typed, Numbers, TypeOK, TIMER_AddTick
    <3>2. (x + PIC_Ticks * UnitsPerTick) % (TickModulus * UnitsPerTick) = queue[k].due
      BY <2>6 DEF OnTime, x
    <3> QED
      BY <3>1, <3>2, <2>2, TickShift DEF x
  <2> QED
    BY <2>5, <2>10, <2>11 DEF OnTime
<1> QED
  BY <1>4, <1>5 DEF Timing, TIMER_AddTick

(* An event that is added is due no earlier than now, or than the event    *)
(* whose handler adds it was.                                              *)
LEMMA NewEntryOnTime ==
  ASSUME Structure, Timing, NEW ev \in Events, NEW delay \in Delays
  PROVE  /\ OnTime(PIC_TickIndexND - Slack, PIC_Ticks, NewEntry(ev, delay))
         /\ phase # "handler" => TickIndex <= NewEntry(ev, delay).index
<1> DEFINE e == NewEntry(ev, delay)
           t == PIC_TickIndexND - Slack
<1>1. Typed /\ Numbers
  BY TimingTypes DEF Typed
<1>2. delay \in Nat
  BY EventAssumption
<1>3. /\ e.index \in Int /\ e.index = EventIndex(delay)
      /\ (e.index + PIC_Ticks * UnitsPerTick) % (TickModulus * UnitsPerTick) = e.due
  BY NewEntryType DEF Instant
<1>4. t \in Int /\ t <= PIC_TickIndexND /\ PIC_TickIndexND \in Int
  BY <1>1 DEF Numbers
<1>5. TickIndex \in Int /\ TickIndex = PIC_TickIndexND * UnitsPerCycle
  BY <1>1 DEF Typed
<1> HIDE DEF e, t
<1>6. CASE phase = "handler"
  <2>1. current.index \in Int /\ NotLate(t, current.index)
    BY <1>1, <1>6 DEF Typed, Timing, OnTime, t
  <2>2. e.index = delay + current.index
    BY <1>3, <1>6 DEF EventIndex
  <2>3. current.index <= e.index
    BY <1>2, <2>1, <2>2
  <2>4. NotLate(t, e.index)
    BY <2>1, <2>3, <1>3, <1>4, NotLateEarlier
  <2> QED
    BY <1>3, <1>6, <2>4 DEF OnTime, e, t
<1>7. CASE phase # "handler"
  <2>1. e.index = delay + TickIndex
    BY <1>3, <1>7 DEF EventIndex
  <2>2. TickIndex <= e.index
    BY <1>2, <1>5, <2>1
  <2>3. NotLate(PIC_TickIndexND, e.index)
    BY <2>2, <1>3, <1>4, <1>5, NotLateNow
  <2>4. NotLate(t, e.index)
    BY <2>3, <1>3, <1>4, NotLateEarlier
  <2> QED
    BY <1>3, <2>2, <2>4 DEF OnTime, e, t
<1> QED
  BY <1>6, <1>7

(* What is queued after an event was added: it and what was there.         *)
LEMMA AddedEntries ==
  ASSUME queue \in Seq(Entry), Sorted, NEW e \in Entry, AddEntry(e), NEW k \in DOMAIN queue'
  PROVE  queue'[k] = e \/ \E i \in DOMAIN queue : queue'[k] = queue[i]
<1>1. PICK n \in 0..Len(queue) : InsertedAt(e, n)
  BY InsertFinds
<1> DEFINE r == queue'
<1>2. r = Insert(e)
  BY DEF AddEntry
<1> HIDE DEF r
<1>3. /\ r \in Seq(Entry) /\ Len(r) = Len(queue) + 1 /\ r[n + 1] = e
      /\ \A i \in 1..n : r[i] = queue[i]
      /\ \A i \in n + 1..Len(queue) : r[i + 1] = queue[i]
  BY <1>1, <1>2 DEF InsertedAt, IsPutAt
<1>4. k \in 1..Len(queue) + 1
  <2>1. k \in DOMAIN r
    BY DEF r
  <2> QED
    BY <2>1, <1>3
<1>5. CASE k <= n
  <2>1. k \in 1..n /\ k \in DOMAIN queue
    BY <1>4, <1>5
  <2> QED
    BY <2>1, <1>3 DEF r
<1>6. CASE k = n + 1
  BY <1>3, <1>6 DEF r
<1>7. CASE k > n + 1
  <2>1. k - 1 \in n + 1..Len(queue) /\ k - 1 \in DOMAIN queue /\ (k - 1) + 1 = k
    BY <1>4, <1>7
  <2>2. r[(k - 1) + 1] = queue[k - 1]
    BY <2>1, <1>3
  <2>3. r[k] = queue[k - 1]
    BY <2>1, <2>2
  <2> QED
    BY <2>1, <2>3 DEF r
<1> QED
  BY <1>4, <1>5, <1>6, <1>7

(* Adding an event stops the CPU core in time for it.                      *)
LEMMA AddEventKeepsTiming ==
  ASSUME Structure, Structure', Timing,
         NEW ev \in Events, NEW delay \in Delays, PIC_AddEvent(ev, delay)
  PROVE  Timing'
<1> DEFINE e == NewEntry(ev, delay)
<1>1. CASE free = 0
  <2>1. UNCHANGED vars
    BY <1>1 DEF PIC_AddEvent
  <2>2. PIC_TickIndexND' = PIC_TickIndexND /\ Slack' = Slack /\ TickIndex' = TickIndex
    BY <2>1 DEF vars, PIC_TickIndexND, Slack, TickIndex
  <2> QED
    BY <2>1, <2>2 DEF vars, Timing, Clock
<1>2. CASE free # 0
  <2>1. e \in Entry /\ e.index \in Int
    BY NewEntryType
  <2>2. /\ OnTime(PIC_TickIndexND - Slack, PIC_Ticks, e)
        /\ phase # "handler" => TickIndex <= e.index
    BY NewEntryOnTime
  <2>3. /\ AddEntry(e) /\ phase \in Callers
        /\ UNCHANGED <<phase, current, boosts, PIC_Ticks>>
    BY <1>2 DEF PIC_AddEvent, NewEntry
  <2> HIDE DEF e
  <2>4. Typed /\ Typed' /\ Numbers /\ Numbers' /\ Slack' = Slack
    BY <2>3, TimingTypes, TypesAfter DEF Typed, Slack
  <2>5. \/ CPU_CycleLeft' = CPU_CycleLeft + CPU_Cycles /\ CPU_Cycles' = 0
        \/ /\ UNCHANGED <<CPU_CycleLeft, CPU_Cycles>>
           /\ ~(ToCycles(queue'[1].index - TickIndex) < CPU_Cycles)
    BY <2>3 DEF AddEntry
  <2>6. PIC_TickIndexND' = PIC_TickIndexND
    <3>1. CPU_CycleLeft \in Int /\ CPU_Cycles \in Int /\ CycleMax \in Nat
      BY <2>4 DEF Numbers
    <3> QED
      BY <3>1, <2>5 DEF PIC_TickIndexND
  <2>7. TickIndex' = TickIndex
    BY <2>6 DEF TickIndex
  <2>8. \A k \in DOMAIN queue' : queue'[k] = e \/ \E i \in DOMAIN queue : queue'[k] = queue[i]
    BY <2>1, <2>3, <2>4, AddedEntries DEF Typed
  <2>9. \A k \in DOMAIN queue' : OnTime(PIC_TickIndexND' - Slack', PIC_Ticks', queue'[k])
    BY <2>2, <2>3, <2>4, <2>6, <2>8 DEF Timing
  <2>10. Clock'
    <3>1. Overrun \in Nat /\ CPU_Cycles \in Int /\ CPU_CycleLeft \in Int
      BY <2>4 DEF Numbers
    <3> QED
      BY <3>1, <2>3, <2>4, <2>5, <2>6 DEF Clock, Timing, Callers
  <2>11. ASSUME phase' \in {"enter", "cpu"} /\ CPU_Cycles' # 0, NEW k \in DOMAIN queue'
         PROVE  NotLate(CycleMax - CPU_CycleLeft' - (Slack' - Overrun), queue'[k].index)
    <3> DEFINE t == CycleMax - CPU_CycleLeft - (Slack - Overrun)
               first == queue'[1].index
               x == first - TickIndex
               N == PIC_TickIndexND
               E == CycleMax - CPU_CycleLeft
    <3>1. /\ phase = "cpu" /\ UNCHANGED <<CPU_CycleLeft, CPU_Cycles>> /\ CPU_Cycles # 0
          /\ ~(ToCycles(x) < CPU_Cycles)
      BY <2>3, <2>5, <2>11 DEF Callers
    <3>2. CASE \E i \in DOMAIN queue : queue'[k] = queue[i]
      BY <3>1, <3>2, <2>4 DEF Timing
    <3>3. CASE queue'[k] = e
      <4>1. /\ TickIndex \in Int /\ TickIndex = N * UnitsPerCycle /\ N \in Int
            /\ TickIndex <= e.index /\ CPU_Cycles \in Int /\ E \in Int /\ N = E - CPU_Cycles
            /\ t \in Int /\ t <= E
        BY <3>1, <2>2, <2>4 DEF Typed, Numbers
      <4>2. NotLate(E, e.index)
        <5>1. CASE CPU_Cycles < 0
          <6>1. NotLate(N, e.index)
            BY <4>1, <2>1, NotLateNow
          <6>2. E <= N
            BY <4>1, <5>1
          <6> QED
            BY <6>1, <6>2, <4>1, <2>1, NotLateEarlier
        <5>2. CASE CPU_Cycles > 0
          <6>1. first \in Int /\ first <= e.index
            <7>1. 1 \in DOMAIN queue' /\ queue'[1].index \in Int
              BY <2>4 DEF Typed
            <7>2. CASE k = 1
              BY <3>3, <7>1, <7>2, <2>1
            <7>3. CASE k # 1
              <8>1. 1 < k
                BY <7>3, <2>4 DEF Typed
              <8> QED
                BY <3>3, <7>1, <8>1, <2>4 DEF Typed, Sorted
            <7> QED
              BY <7>2, <7>3
          <6> HIDE DEF first, N, E
          <6>2. x \in Int
            BY <6>1, <4>1
          <6>3. ToCycles(x) \in Int /\ ToCycles(x) > 0
            BY <6>2, <3>1, <5>2, <4>1, ToCyclesRounds
          <6>4. x >= 0 /\ ToCycles(x) * UnitsPerCycle <= x
            BY <6>2, <6>3, ToCyclesRounds
          <6>5. /\ CPU_Cycles * UnitsPerCycle <= ToCycles(x) * UnitsPerCycle
                /\ CPU_Cycles * UnitsPerCycle \in Int /\ ToCycles(x) * UnitsPerCycle \in Int
            <7>1. CPU_Cycles <= ToCycles(x)
              BY <6>3, <3>1, <4>1
            <7> QED
              BY <7>1, <6>3, <4>1, UnitsType, Times
          <6>6. N + CPU_Cycles = E
            BY <4>1
          <6>7. (N + CPU_Cycles) * UnitsPerCycle = N * UnitsPerCycle + CPU_Cycles * UnitsPerCycle
            BY <4>1, UnitsType, Times
          <6>8. E * UnitsPerCycle <= e.index
            <7>1. CPU_Cycles * UnitsPerCycle <= first - TickIndex
              BY <6>2, <6>4, <6>5
            <7>2. E * UnitsPerCycle = TickIndex + CPU_Cycles * UnitsPerCycle
              BY <6>6, <6>7, <4>1
            <7> QED
              BY <7>1, <7>2, <6>1, <6>5, <4>1, <2>1
          <6> QED
            BY <6>8, <4>1, <2>1, NotLateNow
        <5> QED
          BY <5>1, <5>2, <4>1, <3>1
      <4>3. NotLate(t, e.index)
        BY <4>1, <4>2, <2>1, NotLateEarlier
      <4> QED
        BY <4>3, <3>1, <3>3, <2>4
    <3> QED
      BY <3>2, <3>3, <2>8
  <2>12. phase' = "handler" =>
           /\ current'.index <= TickIndex'
           /\ OnTime(PIC_TickIndexND' - Slack', PIC_Ticks', current')
    BY <2>3, <2>4, <2>6, <2>7 DEF Timing
  <2> QED
    BY <2>9, <2>10, <2>11, <2>12 DEF Timing
<1> QED
  BY <1>1, <1>2

LEMMA TimingStep ==
  Structure /\ Structure' /\ Timing /\ [Next]_vars => Timing'
<1> SUFFICES ASSUME Structure, Structure', Timing, [Next]_vars PROVE Timing'
  OBVIOUS
<1>1. ASSUME NEW ev \in Events, NEW delay \in Delays, PIC_AddEvent(ev, delay)
      PROVE  Timing'
  BY <1>1, AddEventKeepsTiming
<1>2. ASSUME NEW ev \in Events, PIC_RemoveSpecificEvents(ev) \/ PIC_RemoveEvents(ev[1])
      PROVE  Timing'
  BY <1>2, RemoveKeepsTiming DEF PIC_RemoveSpecificEvents, PIC_RemoveEvents
<1>3. CASE BeginRunQueue
  BY <1>3, BeginRunQueueKeepsTiming
<1>4. CASE CallHandler
  BY <1>4, CallHandlerKeepsTiming
<1>5. CASE HandlerReturns
  BY <1>5, HandlerReturnsKeepsTiming
<1>6. CASE EndRunQueue
  BY <1>6, EndRunQueueKeepsTiming
<1>7. CASE LeaveCpu \/ TickHandlersReturn
  BY <1>7, LeaveCpuKeepsTiming
<1>8. CASE TIMER_AddTick
  BY <1>8, AddTickKeepsTiming
<1>9. ASSUME NEW n \in 1..CycleMax + Overrun, Execute(n) PROVE Timing'
  BY <1>9, ExecuteKeepsTiming
<1>10. CASE ActivateIRQ
  BY <1>10, ActivateIRQKeepsTiming
<1>11. CASE UNCHANGED vars
  <2>1. PIC_TickIndexND' = PIC_TickIndexND /\ Slack' = Slack /\ TickIndex' = TickIndex
    BY <1>11 DEF vars, PIC_TickIndexND, Slack, TickIndex
  <2> QED
    BY <1>11, <2>1 DEF vars, Timing, Clock
<1> QED
  BY <1>1, <1>2, <1>3, <1>4, <1>5, <1>6, <1>7, <1>8, <1>9, <1>10, <1>11
  DEF Next, Calls, Loop

LEMMA TimingInvariant == Spec => []Timing
  BY TimingInit, TimingStep, StructureInvariant, PTL DEF Spec

(* The index of a queued event stands for the instant it was added for,    *)
(* however many ticks go by.                                               *)
THEOREM DueTimesAreKept == Spec => []DueTimeKept
<1>1. Timing => DueTimeKept
  BY DEF Timing, OnTime, DueTimeKept, Instant
<1> QED
  BY <1>1, TimingInvariant, PTL

(* What is in time up to the slack is not later than MaxLate.              *)
LEMMA LateBound ==
  ASSUME Structure, Timing, NEW index \in Int, NotLate(PIC_TickIndexND - Slack, index)
  PROVE  TickIndex - index < MaxLate
<1> DEFINE N == PIC_TickIndexND
           U == UnitsPerCycle
           S == Overrun + MaxBoosts * (2 + Overrun)
<1>1. Typed /\ Numbers /\ boosts <= MaxBoosts
  BY TimingTypes DEF Typed, TypeOK
<1>2. Slack <= S /\ Slack \in Nat /\ N \in Int
  BY <1>1, SlackType DEF Numbers, Slack
<1>3. S \in Nat /\ U \in Nat
  BY EventAssumption
<1>4. MaxLate = U + S * U
  BY <1>3, EventAssumption DEF MaxLate
<1>5. TickIndex = N * U /\ TickIndex \in Int
  BY <1>1 DEF Typed
<1>6. (N - Slack - 1) * U < index
  BY DEF NotLate
<1> HIDE DEF N, U, S
<1> DEFINE a == N - Slack - 1
           b == N - (S + 1)
<1>7. a \in Int /\ b \in Int /\ b <= a /\ S + 1 \in Int
  BY <1>2, <1>3
<1>8. b * U <= a * U /\ a * U \in Int /\ b * U \in Int
  BY <1>3, <1>7, Times
<1>9. b * U = N * U - (S + 1) * U /\ (S + 1) * U = S * U + U /\ S * U \in Int /\ N * U \in Int
  BY <1>2, <1>3, <1>7, Times
<1>10. b * U < index
  BY <1>6, <1>8
<1> QED
  BY <1>3, <1>4, <1>5, <1>8, <1>9, <1>10

(* No event waits, or is served, more than MaxLate after it is due.        *)
THEOREM EventsAreNeverLate == Spec => []NeverLate
<1>1. Structure /\ Timing => NeverLate
  <2> SUFFICES ASSUME Structure, Timing PROVE NeverLate
    OBVIOUS
  <2>1. Typed
    BY TimingTypes
  <2>2. ASSUME NEW i \in DOMAIN queue PROVE TickIndex - queue[i].index < MaxLate
    BY <2>1, LateBound DEF Typed, Timing, OnTime
  <2>3. ASSUME current # NoEvent PROVE TickIndex - current.index \in 0..MaxLate - 1
    <3>1. phase = "handler" /\ current.index \in Int /\ TickIndex \in Int
      BY <2>1, <2>3 DEF Structure, Typed
    <3>2. current.index <= TickIndex /\ TickIndex - current.index < MaxLate
      BY <3>1, LateBound DEF Timing, OnTime
    <3>3. MaxLate \in Int
      BY EventAssumption DEF MaxLate
    <3> QED
      BY <3>1, <3>2, <3>3
  <2> QED
    BY <2>2, <2>3 DEF NeverLate
<1> QED
  BY <1>1, StructureInvariant, TimingInvariant, PTL

-----------------------------------------------------------------------------
(* Only PIC_AddEvent makes the queue longer.                               *)
LEMMA OnlyAddEventGrows ==
  ASSUME Structure, [Next]_vars, Len(queue') > Len(queue)
  PROVE  \E ev \in Events, delay \in Delays :
           AddEntry(NewEntry(ev, delay)) /\ UNCHANGED <<phase, current, PIC_Ticks>>
<1>1. queue \in Seq(Entry) /\ Len(queue) \in Nat
  BY DEF Structure, EntriesConserved, TypeOK
<1>2. queue' # queue
  BY <1>1
<1>3. ~\E evs : Remove(evs)
  <2> SUFFICES ASSUME NEW evs, Remove(evs) PROVE FALSE
    OBVIOUS
  <2>1. Len(queue') <= Len(queue) /\ queue' \in Seq(Entry)
    BY <1>1, WithoutKeeps DEF Remove
  <2> QED
    BY <1>1, <2>1
<1>4. ~TIMER_AddTick
  <2> SUFFICES ASSUME TIMER_AddTick PROVE FALSE
    OBVIOUS
  <2>1. DOMAIN queue' = 1..Len(queue)
    BY <1>1 DEF TIMER_AddTick
  <2>2. queue' \in Seq(Entry)
    BY AddTickKeepsStructure DEF Structure, EntriesConserved, TypeOK
  <2> QED
    BY <1>1, <2>1, <2>2
<1>5. ~CallHandler
  <2> SUFFICES ASSUME CallHandler PROVE FALSE
    OBVIOUS
  <2>1. queue # <<>> /\ queue' = Tail(queue)
    BY DEF CallHandler, Due
  <2>2. Len(queue') = Len(queue) - 1
    BY <1>1, <2>1, HeadTailProperties
  <2> QED
    BY <1>1, <2>2
<1>6. PICK ev \in Events, delay \in Delays : PIC_AddEvent(ev, delay)
  BY <1>2, <1>3, <1>4, <1>5
  DEF Next, Calls, Loop, vars, PIC_RemoveSpecificEvents, PIC_RemoveEvents,
      BeginRunQueue, HandlerReturns, EndRunQueue, LeaveCpu, TickHandlersReturn,
      Execute, ActivateIRQ
<1>7. free # 0
  BY <1>2, <1>6 DEF PIC_AddEvent, vars
<1> QED
  BY <1>6, <1>7 DEF PIC_AddEvent, NewEntry

(* What AddEntry does to the queue, as the properties put it.              *)
LEMMA AddEntryPuts ==
  ASSUME Structure, NEW e \in Entry, AddEntry(e)
  PROVE  \E j \in DOMAIN queue' :
           /\ queue'[j] = e
           /\ SubSeq(queue', 1, j - 1) \o SubSeq(queue', j + 1, Len(queue')) = queue
           /\ \A i \in DOMAIN queue : queue[i].index <= e.index <=> i < j
<1>1. queue \in Seq(Entry) /\ Sorted
  BY DEF Structure, EntriesConserved, TypeOK
<1>2. PICK n \in 0..Len(queue) : InsertedAt(e, n)
  BY <1>1, InsertFinds
<1> DEFINE r == queue'
           j == n + 1
<1>3. r = Insert(e)
  BY DEF AddEntry
<1> HIDE DEF r
<1>4. r \in Seq(Entry) /\ IsPutAt(r, queue, e, n)
      /\ \A i \in 1..Len(queue) : queue[i].index <= e.index <=> i <= n
  BY <1>2, <1>3 DEF InsertedAt
<1>5. SubSeq(r, 1, n) \o SubSeq(r, n + 2, Len(r)) = queue
  BY <1>1, <1>4, TakeOut
<1>6. j \in DOMAIN r /\ r[j] = e
  BY <1>1, <1>4 DEF IsPutAt
<1>7. j - 1 = n /\ j + 1 = n + 2
  OBVIOUS
<1>8. SubSeq(r, 1, j - 1) \o SubSeq(r, j + 1, Len(r)) = queue
  BY <1>5, <1>7
<1>9. \A i \in DOMAIN queue : queue[i].index <= e.index <=> i < j
  BY <1>1, <1>4
<1> HIDE DEF j
<1> QED
  BY <1>6, <1>8, <1>9 DEF r

(* An event added for the same time as others is served after them.        *)
THEOREM ServedInOrderOfAdding == Spec => FirstComeFirstServed
<1> DEFINE A == Len(queue') > Len(queue) =>
                  \E j \in DOMAIN queue' :
                    /\ SubSeq(queue', 1, j - 1) \o SubSeq(queue', j + 1, Len(queue')) = queue
                    /\ \A i \in DOMAIN queue : queue[i].index <= queue'[j].index <=> i < j
<1>1. Structure /\ [Next]_vars => A
  <2> SUFFICES ASSUME Structure, [Next]_vars, Len(queue') > Len(queue)
               PROVE  \E j \in DOMAIN queue' :
                        /\ SubSeq(queue', 1, j - 1) \o SubSeq(queue', j + 1, Len(queue')) = queue
                        /\ \A i \in DOMAIN queue : queue[i].index <= queue'[j].index <=> i < j
    OBVIOUS
  <2>1. PICK ev \in Events, delay \in Delays : AddEntry(NewEntry(ev, delay))
    BY OnlyAddEventGrows
  <2> DEFINE e == NewEntry(ev, delay)
  <2>2. e \in Entry
    BY NewEntryType
  <2> HIDE DEF e
  <2>3. PICK j \in DOMAIN queue' :
           /\ queue'[j] = e
           /\ SubSeq(queue', 1, j - 1) \o SubSeq(queue', j + 1, Len(queue')) = queue
           /\ \A i \in DOMAIN queue : queue[i].index <= e.index <=> i < j
    BY <2>1, <2>2, AddEntryPuts DEF e
  <2>4. \A i \in DOMAIN queue : queue[i].index <= queue'[j].index <=> i < j
    BY <2>3, Zenon
  <2> QED
    BY <2>3, <2>4, Zenon
<1> HIDE DEF A
<1>2. Spec => [][A]_vars
  BY <1>1, StructureInvariant, PTL DEF Spec
<1> QED
  BY <1>2 DEF A, FirstComeFirstServed

(* A handler's event is due exactly its delay after the event it handles.  *)
THEOREM PeriodicEventsDoNotDrift == Spec => NoDrift
<1> DEFINE Puts(j, delay) ==
             /\ SubSeq(queue', 1, j - 1) \o SubSeq(queue', j + 1, Len(queue')) = queue
             /\ queue'[j].due = (current.due + delay) % (TickModulus * UnitsPerTick)
           A == phase = "handler" /\ Len(queue') > Len(queue) =>
                  \E j \in DOMAIN queue', delay \in Delays : Puts(j, delay)
<1>1. Structure /\ Timing /\ [Next]_vars => A
  <2> SUFFICES ASSUME Structure, Timing, [Next]_vars, phase = "handler",
                      Len(queue') > Len(queue)
               PROVE  \E j \in DOMAIN queue', delay \in Delays : Puts(j, delay)
    OBVIOUS
  <2>1. PICK ev \in Events, delay \in Delays : AddEntry(NewEntry(ev, delay))
    BY OnlyAddEventGrows
  <2> DEFINE e == NewEntry(ev, delay)
             K == TickModulus * UnitsPerTick
             a == current.index + PIC_Ticks * UnitsPerTick
  <2>2. e \in Entry /\ e.due = Instant(EventIndex(delay))
    BY NewEntryType
  <2>3. /\ current.index \in Int /\ PIC_Ticks \in Nat /\ delay \in Nat
        /\ UnitsPerTick \in Nat /\ K \in Nat \ {0}
    BY TimingTypes, UnitsType, EventAssumption DEF Typed, TypeOK
  <2>4. a \in Int /\ current.due = a % K
    <3>1. PIC_Ticks * UnitsPerTick \in Int
      BY <2>3
    <3> QED
      BY <2>3, <3>1 DEF Timing, OnTime
  <2>5. e.due = (a + delay) % K
    <3>1. EventIndex(delay) = delay + current.index
      BY DEF EventIndex
    <3>2. (delay + current.index) + PIC_Ticks * UnitsPerTick = a + delay
      BY <2>3
    <3>3. Instant(EventIndex(delay))
            = ((delay + current.index) + PIC_Ticks * UnitsPerTick) % K
      BY <3>1, Zenon DEF Instant
    <3> QED
      BY <2>2, <3>2, <3>3, Zenon
  <2> HIDE DEF a, K
  <2>6. e.due = (current.due + delay) % K
    <3>1. a \in Int /\ K \in Nat \ {0} /\ delay \in Int
      BY <2>3, <2>4
    <3>2. (a + delay) % K = ((a % K) + delay) % K
      BY <3>1, ModPlus, Zenon
    <3> QED
      BY <2>4, <2>5, <3>2, Zenon
  <2>7. PICK j \in DOMAIN queue' :
           /\ queue'[j] = e
           /\ SubSeq(queue', 1, j - 1) \o SubSeq(queue', j + 1, Len(queue')) = queue
    <3> HIDE DEF e
    <3> QED
      BY <2>1, <2>2, AddEntryPuts DEF e
  <2> HIDE DEF e
  <2>8. Puts(j, delay)
    BY <2>6, <2>7, Zenon DEF K
  <2> HIDE DEF Puts
  <2> QED
    BY <2>8
<1> HIDE DEF A
<1>2. Spec => [][A]_vars
  BY <1>1, StructureInvariant, TimingInvariant, PTL DEF Spec
<1> QED
  BY <1>2 DEF A, NoDrift

(* The clock does not go back within a tick, and ends it no later than the *)
(* slack after the last cycle.                                             *)
THEOREM ClockIsSteady == Spec => ClockSteady
<1> DEFINE A == IF PIC_Ticks' = PIC_Ticks
                THEN TickIndex' >= TickIndex
                ELSE TickIndex - UnitsPerTick \in 0..MaxLate - UnitsPerCycle
<1>1. Structure /\ Structure' /\ Timing /\ [Next]_vars => A
  <2> SUFFICES ASSUME Structure, Structure', Timing, [Next]_vars PROVE A
    OBVIOUS
  <2>1. Typed /\ Typed' /\ Numbers /\ Numbers'
    BY TimingTypes, TypesAfter DEF Typed
  <2>2. CASE TIMER_AddTick
    <3> DEFINE N == PIC_TickIndexND
               U == UnitsPerCycle
               S == Overrun + MaxBoosts * (2 + Overrun)
               d == N - CycleMax
    <3>1. PIC_Ticks' # PIC_Ticks
      <4>1. PIC_Ticks \in 0..TickModulus - 1 /\ PIC_Ticks' = (PIC_Ticks + 1) % TickModulus
            /\ TickModulus \in Nat /\ TickModulus > 1
        BY <2>1, <2>2, EventAssumption, SMTT(20) DEF Typed, TypeOK, TIMER_AddTick
      <4>2. CASE PIC_Ticks + 1 < TickModulus
        <5>1. (PIC_Ticks + 1) % TickModulus = PIC_Ticks + 1
          BY <4>1, <4>2
        <5> QED
          BY <4>1, <5>1
      <4>3. CASE PIC_Ticks + 1 = TickModulus
        <5>1. (PIC_Ticks + 1) % TickModulus = 0
          BY <4>1, <4>3
        <5> QED
          BY <4>1, <4>3, <5>1
      <4> QED
        BY <4>1, <4>2, <4>3
    <3>2. CPU_Cycles = 0 /\ CPU_CycleLeft <= 0 /\ N <= CycleMax + Slack
      BY <2>2 DEF TIMER_AddTick, Timing, Clock
    <3>3. Slack <= S
      BY <2>1, SlackType DEF Typed, TypeOK, Numbers, Slack
    <3>4. S \in Nat /\ U \in Nat /\ CycleMax \in Nat
      BY EventAssumption
    <3>5. MaxLate = U + S * U
      BY <3>4, EventAssumption DEF MaxLate
    <3>6. d \in Int /\ 0 <= d /\ d <= S /\ N \in Int
      BY <2>1, <3>2, <3>3, <3>4 DEF Numbers
    <3>7. TickIndex = N * U /\ UnitsPerTick = CycleMax * U
      BY <2>1 DEF Typed, UnitsPerTick
    <3> HIDE DEF N, U, S
    <3>8. d * U = N * U - CycleMax * U /\ d * U \in Int /\ S * U \in Int
      BY <3>4, <3>6, Times
    <3> HIDE DEF d
    <3>9. 0 * U <= d * U /\ d * U <= S * U /\ 0 * U = 0
      BY <3>4, <3>6, Times
    <3>10. TickIndex - UnitsPerTick \in 0..MaxLate - U
      BY <3>4, <3>5, <3>7, <3>8, <3>9
    <3> QED
      BY <3>1, <3>10 DEF U
  <2>3. CASE ~TIMER_AddTick
    <3> DEFINE N == PIC_TickIndexND
               M == PIC_TickIndexND'
    <3>1. PIC_Ticks' = PIC_Ticks
      BY <2>3 DEF Next, Calls, Loop, vars, PIC_AddEvent, PIC_RemoveSpecificEvents,
           PIC_RemoveEvents, Remove, BeginRunQueue, CallHandler, HandlerReturns,
           EndRunQueue, LeaveCpu, TickHandlersReturn, Execute, ActivateIRQ
    <3>2. M >= N /\ M \in Int /\ N \in Int
      <4>1. /\ CPU_CycleLeft \in Int /\ CPU_Cycles \in Int /\ CycleMax \in Nat
            /\ CPU_CycleLeft' \in Int /\ CPU_Cycles' \in Int
        BY <2>1, Zenon DEF Numbers
      <4>2. \/ \E n \in Nat : CPU_Cycles' = CPU_Cycles - n /\ CPU_CycleLeft' = CPU_CycleLeft
            \/ CPU_CycleLeft' = CPU_CycleLeft + CPU_Cycles /\ CPU_Cycles' = 0
            \/ UNCHANGED <<CPU_CycleLeft, CPU_Cycles>>
            \/ /\ CPU_CycleLeft' = CPU_CycleLeft + CPU_Cycles - 2
               /\ CPU_Cycles' = 2
            \/ CPU_CycleLeft' = CPU_CycleLeft - CPU_Cycles' /\ CPU_Cycles = 0
        <5>1. ASSUME NEW n \in 1..CycleMax + Overrun, Execute(n)
              PROVE  \E m \in Nat : CPU_Cycles' = CPU_Cycles - m /\ CPU_CycleLeft' = CPU_CycleLeft
          BY <5>1 DEF Execute
        <5>2. EndRunQueue => CPU_CycleLeft' = CPU_CycleLeft - CPU_Cycles' /\ CPU_Cycles = 0
          BY DEF EndRunQueue, Timing, Clock
        <5> QED
          BY <5>1, <5>2, <2>3 DEF Next, Calls, Loop, vars, PIC_AddEvent, AddEntry,
             PIC_RemoveSpecificEvents, PIC_RemoveEvents, Remove, BeginRunQueue, CallHandler,
             HandlerReturns, LeaveCpu, TickHandlersReturn, ActivateIRQ
      <4> DEFINE l == CPU_CycleLeft'
                 c == CPU_Cycles'
      <4>3. N = CycleMax - CPU_CycleLeft - CPU_Cycles /\ M = CycleMax - l - c
        BY DEF PIC_TickIndexND
      <4>4. /\ l \in Int /\ c \in Int
            /\ \/ \E n \in Nat : c = CPU_Cycles - n /\ l = CPU_CycleLeft
               \/ l = CPU_CycleLeft + CPU_Cycles /\ c = 0
               \/ l = CPU_CycleLeft /\ c = CPU_Cycles
               \/ l = CPU_CycleLeft + CPU_Cycles - 2 /\ c = 2
               \/ l = CPU_CycleLeft - c /\ CPU_Cycles = 0
        BY <4>1, <4>2, Zenon
      <4> HIDE DEF l, c, N, M
      <4> QED
        BY <4>1, <4>3, <4>4
    <3> HIDE DEF N, M
    <3>3. N * UnitsPerCycle <= M * UnitsPerCycle
      BY <3>2, UnitsType, Times
    <3>4. TickIndex = N * UnitsPerCycle /\ TickIndex' = M * UnitsPerCycle
      BY DEF TickIndex, N, M
    <3>5. N * UnitsPerCycle \in Int /\ M * UnitsPerCycle \in Int
      BY <3>2, UnitsType, Times
    <3>6. M * UnitsPerCycle >= N * UnitsPerCycle
      BY <3>3, <3>5
    <3> QED
      BY <3>1, <3>4, <3>6, Zenon
  <2> QED
    BY <2>2, <2>3
<1> HIDE DEF A
<1>2. Spec => [][A]_vars
  BY <1>1, StructureInvariant, TimingInvariant, PTL DEF Spec
<1> QED
  BY <1>2 DEF A, ClockSteady
=============================================================================
