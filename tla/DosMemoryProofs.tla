-------------------------- MODULE DosMemoryProofs --------------------------
(***************************************************************************)
(* Proofs about the DOS memory allocator.  The MCBs in use are the members *)
(* of a set H that memory is tiled by: every MCB's block ends where the    *)
(* next one begins.  The walks along the chains visit exactly the members  *)
(* of H in their part of memory, and every call adds an MCB to H, takes    *)
(* one out, or changes types and owners.                                   *)
(***************************************************************************)
EXTENDS DosMemory, InductionLemmas, SequenceTheorems

Owners == Procs \cup {MCB_FREE, MCB_DOS, LoadfixPsp}
Block == {b \in [type : {"M", "Z", "none"}, psp : Owners \cup {"none"}, size : 0..Top] :
            b.type = "none" <=> b.psp = "none"}
Memory == [0..Top -> Block]

(* A chain ends with memory; the low one also before the UMBs that are not *)
(* linked to it.                                                           *)
Ends(n, lk) == n = Top + 1 \/ (~lk /\ n = umb_start_seg)

Tiled(m, H, lk) ==
  /\ m \in Memory
  /\ H \subseteq 0..Top
  /\ firstMCB \in H /\ (UmbActive => umb_start_seg \in H)
  /\ \A h \in H : m[h].type \in {"M", "Z"}
  /\ \A h \in H : NextMcb(m, h) \in H \cup {Top + 1}
  /\ \A h, k \in H : h < k => NextMcb(m, h) <= k
  /\ \A h \in H : m[h].type = "Z" <=> Ends(NextMcb(m, h), lk)
  /\ UmbActive => m[umb_start_seg].psp = MCB_DOS

LEMMA Layout ==
  /\ Top \in Nat /\ LowEnd \in Nat /\ umb_start_seg \in Nat /\ umb_start_seg = LowEnd + 1
  /\ 6 <= LowEnd /\ MainMcb = 6 /\ firstMCB = 0 /\ LowEnd <= Top
  /\ UmbActive => /\ umb_start_seg <= Top /\ UmbEnd = Top
                  /\ FirstUmb \in Nat /\ FirstUmb = umb_start_seg + CoverSize + 1 /\ FirstUmb <= Top
                  /\ FirstUmb + UmbSize = Top
  /\ ~UmbActive => umb_start_seg = Top + 1
  BY ConstantsAssumption DEF Top, LowEnd, MainMcb, umb_start_seg, UmbEnd, FirstUmb, firstMCB

(* What is known of a block of a tiling.                                   *)
LEMMA BlockOf ==
  ASSUME NEW m, NEW H, NEW lk, Tiled(m, H, lk), NEW h \in H
  PROVE  /\ h \in 0..Top /\ h \in DOMAIN m /\ m[h] \in Block /\ m[h].size \in 0..Top
         /\ NextMcb(m, h) = h + m[h].size + 1
         /\ NextMcb(m, h) \in Nat /\ h < NextMcb(m, h) /\ NextMcb(m, h) <= Top + 1
<1>1. h \in 0..Top /\ h \in DOMAIN m /\ m[h] \in Block
  BY DEF Tiled, Memory
<1>2. m[h].size \in 0..Top
  BY <1>1 DEF Block
<1>3. NextMcb(m, h) = h + m[h].size + 1
  BY DEF NextMcb
<1>4. NextMcb(m, h) \in H \cup {Top + 1} /\ H \subseteq 0..Top
  BY DEF Tiled
<1> QED
  BY <1>1, <1>2, <1>3, <1>4, Layout

-----------------------------------------------------------------------------
(* The walks along a chain.                                                *)

(* The walks along H that start at s.                                      *)
Walks(m, H, s) ==
  {w \in Seq(H) : /\ Len(w) > 0 /\ w[1] = s
                  /\ \A j \in 1..Len(w) - 1 : m[w[j]].type # "Z" /\ w[j + 1] = NextMcb(m, w[j])}

LEMMA AlongWalks ==
  ASSUME NEW m, NEW H, NEW lk, Tiled(m, H, lk), NEW s \in H, NEW w \in Walks(m, H, s)
  PROVE  /\ Along(m, w) \in Walks(m, H, s)
         /\ m[w[Len(w)]].type = "Z" => Along(m, w) = w
         /\ m[w[Len(w)]].type # "Z" => Len(Along(m, w)) = Len(w) + 1
<1> DEFINE l == Len(w)
           e == w[l]
           n == NextMcb(m, e)
<1>1. w \in Seq(H) /\ l \in Nat /\ l > 0 /\ w[1] = s
      /\ \A j \in 1..l - 1 : m[w[j]].type # "Z" /\ w[j + 1] = NextMcb(m, w[j])
  BY DEF Walks
<1>2. e \in H
  BY <1>1, ElementOfSeq
<1>3. e \in DOMAIN m
  BY <1>2, BlockOf
<1>4. Along(m, w) = IF m[e].type = "Z" THEN w ELSE Append(w, n)
  BY <1>3 DEF Along
<1>5. ASSUME m[e].type # "Z"
      PROVE  Append(w, n) \in Walks(m, H, s) /\ Len(Append(w, n)) = l + 1
  <2>1. n \in H
    BY <1>2, <1>5 DEF Tiled, Ends
  <2> DEFINE v == Append(w, n)
  <2>2. v \in Seq(H) /\ Len(v) = l + 1 /\ v[l + 1] = n /\ \A j \in 1..l : v[j] = w[j]
    BY <1>1, <2>1, AppendProperties
  <2> HIDE DEF v
  <2>3. v[1] = s
    BY <1>1, <2>2
  <2>4. ASSUME NEW j \in 1..Len(v) - 1
        PROVE  m[v[j]].type # "Z" /\ v[j + 1] = NextMcb(m, v[j])
    <3>1. CASE j = l
      BY <1>1, <1>5, <2>2, <3>1
    <3>2. CASE j # l
      <4>1. j \in 1..l - 1 /\ j \in 1..l /\ j + 1 \in 1..l
        BY <1>1, <2>2, <3>2
      <4> QED
        BY <1>1, <2>2, <4>1
    <3> QED
      BY <3>1, <3>2
  <2>5. v \in Walks(m, H, s)
    BY <1>1, <2>2, <2>3, <2>4 DEF Walks
  <2> QED
    BY <2>2, <2>5 DEF v
<1> QED
  BY <1>4, <1>5

(* A walk moves on by a paragraph at least.                                *)
LEMMA WalkMoves ==
  ASSUME NEW m, NEW H, NEW lk, Tiled(m, H, lk), NEW s \in H, NEW w \in Walks(m, H, s)
  PROVE  \A j \in 1..Len(w) : w[j] \in H /\ w[j] \in Nat /\ w[j] >= s + (j - 1)
<1> DEFINE l == Len(w)
           T == {j \in 1..l : w[j] >= s + (j - 1)}
<1>1. /\ w \in Seq(H) /\ l \in Nat /\ l > 0 /\ w[1] = s
      /\ \A j \in 1..l - 1 : m[w[j]].type # "Z" /\ w[j + 1] = NextMcb(m, w[j])
  BY DEF Walks
<1>2. \A j \in 1..l : w[j] \in H
  BY <1>1, ElementOfSeq
<1>3. \A j \in 1..l : w[j] \in Nat /\ w[j] \in H /\ NextMcb(m, w[j]) \in Nat /\ w[j] < NextMcb(m, w[j])
  BY <1>2, BlockOf
<1>4. s \in Nat
  BY BlockOf
<1>5. 1 \in T
  BY <1>1, <1>4
<1>6. ASSUME NEW j \in 2..l, j - 1 \in T PROVE j \in T
  <2> DEFINE i == j - 1
  <2>1. i \in 1..l - 1 /\ i \in 1..l /\ i + 1 = j /\ w[i] >= s + (i - 1)
    BY <1>1, <1>6
  <2>2. w[i + 1] = NextMcb(m, w[i]) /\ w[i] \in Nat /\ w[i] < NextMcb(m, w[i]) /\ NextMcb(m, w[i]) \in Nat
    BY <1>1, <1>3, <2>1
  <2> HIDE DEF i
  <2>3. w[j] >= s + (j - 1)
    BY <1>4, <2>1, <2>2
  <2> QED
    BY <1>1, <2>3
<1> HIDE DEF T
<1>7. 1..l \subseteq T
  BY <1>1, <1>5, <1>6, InductionFromOne
<1> QED
  BY <1>3, <1>7 DEF T

(* The chain is a walk that has come to its end.                           *)
IsChainWalk(f, m, s) ==
  f = [i \in 1..Top + 1 |-> IF i = 1 THEN <<s>> ELSE Along(m, f[i - 1])]

LEMMA ChainIsWalk ==
  ASSUME NEW m, NEW H, NEW lk, Tiled(m, H, lk), NEW s \in H
  PROVE  Chain(m, s) \in Walks(m, H, s) /\ m[ChainEnd(m, s)].type = "Z"
<1> DEFINE X == Walks(m, H, s)
           F == [w \in X |-> Along(m, w)]
           N == Top + 1
           walk == CHOOSE f : IsChainWalk(f, m, s)
<1>1. N \in Nat /\ N > 0
  BY Layout
<1>2. F \in [X -> X]
  BY AlongWalks
<1>3. <<s>> \in X
  BY DEF Walks
<1> HIDE DEF X
<1>4. PICK g \in [1..N -> X] : IsIteration(g, F, <<s>>, N)
  <2> HIDE DEF F, N
  <2> QED
    BY <1>1, <1>2, <1>3, Iterates
<1>5. IsChainWalk(g, m, s)
  <2>1. ASSUME NEW i \in 1..N, i # 1 PROVE F[g[i - 1]] = Along(m, g[i - 1])
    <3>1. i - 1 \in 1..N
      BY <2>1, <1>1
    <3>2. g[i - 1] \in X
      BY <3>1
    <3> QED
      BY <3>2
  <2>2. [i \in 1..N |-> IF i = 1 THEN <<s>> ELSE F[g[i - 1]]]
          = [i \in 1..N |-> IF i = 1 THEN <<s>> ELSE Along(m, g[i - 1])]
    <3> HIDE DEF F
    <3> QED
      BY <2>1
  <2> QED
    BY <1>4, <2>2, Zenon DEF IsChainWalk, IsIteration
<1>6. IsChainWalk(walk, m, s)
  BY <1>5
<1>7. Chain(m, s) = walk[N]
  BY DEF Chain, IsChainWalk
<1> HIDE DEF walk
<1>8. \A i \in 1..N : walk[i] = IF i = 1 THEN <<s>> ELSE Along(m, walk[i - 1])
  BY <1>6 DEF IsChainWalk
<1> DEFINE T == {i \in 1..N : /\ walk[i] \in X
                              /\ m[walk[i][Len(walk[i])]].type = "Z" \/ Len(walk[i]) = i}
<1>9. 1 \in T
  <2>1. walk[1] = <<s>>
    BY <1>1, <1>8
  <2> QED
    BY <1>1, <1>3, <2>1
<1>10. ASSUME NEW i \in 2..N, i - 1 \in T PROVE i \in T
  <2> DEFINE v == walk[i - 1]
  <2>1. i \in 1..N /\ i # 1 /\ v \in X /\ (m[v[Len(v)]].type = "Z" \/ Len(v) = i - 1)
    BY <1>1, <1>10
  <2>2. walk[i] = Along(m, v)
    BY <1>8, <2>1
  <2> HIDE DEF v
  <2>3. /\ Along(m, v) \in X
        /\ m[v[Len(v)]].type = "Z" => Along(m, v) = v
        /\ m[v[Len(v)]].type # "Z" => Len(Along(m, v)) = Len(v) + 1
    BY <2>1, AlongWalks DEF X
  <2> QED
    BY <2>1, <2>2, <2>3
<1>11. 1..N \subseteq T
  <2> HIDE DEF T, N
  <2> QED
    BY <1>1, <1>9, <1>10, InductionFromOne
<1> DEFINE w == Chain(m, s)
<1>12. w \in X /\ (m[w[Len(w)]].type = "Z" \/ Len(w) = N)
  BY <1>1, <1>7, <1>11
<1>13. ChainEnd(m, s) = w[Len(w)]
  BY DEF ChainEnd
<1> HIDE DEF w, T
<1>14. ASSUME Len(w) = N PROVE m[w[N]].type = "Z"
  <2>1. N \in 1..Len(w)
    BY <1>1, <1>14
  <2>2. w[N] \in H /\ w[N] \in Nat /\ w[N] >= s + (N - 1) /\ s \in Nat
    BY <1>12, <2>1, WalkMoves, BlockOf DEF X
  <2>3. w[N] < NextMcb(m, w[N]) /\ NextMcb(m, w[N]) <= Top + 1 /\ NextMcb(m, w[N]) \in Nat
    BY <2>2, BlockOf
  <2>4. NextMcb(m, w[N]) = Top + 1
    BY <2>2, <2>3, Layout
  <2> QED
    BY <2>2, <2>4 DEF Tiled, Ends
<1> QED
  BY <1>12, <1>13, <1>14 DEF w, X

(* The MCBs of the chain from s.                                           *)
InChain(h, s, lk) == s <= h /\ (lk \/ umb_start_seg <= s \/ h < umb_start_seg)

(* A walk stays in its part of memory.                                     *)
LEMMA WalkStays ==
  ASSUME NEW m, NEW H, NEW lk, Tiled(m, H, lk), NEW s \in H, NEW w \in Walks(m, H, s)
  PROVE  \A j \in 1..Len(w) : w[j] \in H /\ InChain(w[j], s, lk)
<1> DEFINE l == Len(w)
           T == {j \in 1..l : InChain(w[j], s, lk)}
<1>1. /\ w \in Seq(H) /\ l \in Nat /\ l > 0 /\ w[1] = s
      /\ \A j \in 1..l - 1 : m[w[j]].type # "Z" /\ w[j + 1] = NextMcb(m, w[j])
  BY DEF Walks
<1>2. \A j \in 1..l : w[j] \in H /\ w[j] \in Nat /\ w[j] >= s + (j - 1)
  BY WalkMoves
<1>3. s \in 0..Top
  BY BlockOf
<1>4. 1 \in T
  BY <1>1, <1>3, Layout DEF InChain
<1>5. ASSUME NEW j \in 2..l, j - 1 \in T PROVE j \in T
  <2> DEFINE i == j - 1
             h == w[i]
             n == NextMcb(m, h)
  <2>1. i \in 1..l - 1 /\ i \in 1..l /\ j \in 1..l /\ i + 1 = j /\ InChain(h, s, lk)
    BY <1>1, <1>5
  <2>2. w[j] = n /\ h \in H /\ m[h].type # "Z" /\ w[j] \in H
    BY <1>1, <1>2, <2>1
  <2>3. h \in 0..Top /\ n \in Nat /\ h < n /\ n <= Top + 1
    BY <2>2, BlockOf
  <2>4. ~Ends(n, lk)
    BY <2>2 DEF Tiled
  <2>5. CASE lk \/ umb_start_seg <= s
    BY <1>3, <2>1, <2>2, <2>3, <2>5, Layout DEF InChain
  <2>6. CASE ~(lk \/ umb_start_seg <= s)
    <3>1. h < umb_start_seg /\ n # umb_start_seg
      BY <2>1, <2>4, <2>6 DEF InChain, Ends
    <3>2. CASE UmbActive
      <4>1. n <= umb_start_seg
        BY <2>2, <3>1, <3>2 DEF Tiled
      <4> QED
        BY <1>3, <2>1, <2>2, <2>3, <3>1, <4>1, Layout DEF InChain
    <3>3. CASE ~UmbActive
      <4>1. n < Top + 1 /\ umb_start_seg = Top + 1
        BY <2>3, <2>4, <3>3, Layout DEF Ends
      <4> QED
        BY <1>3, <2>1, <2>2, <2>3, <4>1, Layout DEF InChain
    <3> QED
      BY <3>2, <3>3, ConstantsAssumption
  <2> QED
    BY <2>5, <2>6
<1> HIDE DEF T
<1>6. 1..l \subseteq T
  BY <1>1, <1>4, <1>5, InductionFromOne
<1> QED
  BY <1>2, <1>6 DEF T

(* A chain's last MCB ends its part of memory.                             *)
LEMMA EndOfPart ==
  ASSUME NEW m, NEW H, NEW lk, Tiled(m, H, lk), NEW s \in H, NEW e \in H,
         InChain(e, s, lk), m[e].type = "Z"
  PROVE  NextMcb(m, e) = IF lk \/ umb_start_seg <= s THEN Top + 1 ELSE umb_start_seg
<1> DEFINE n == NextMcb(m, e)
<1>1. s \in 0..Top /\ e \in 0..Top /\ n \in Nat /\ e < n /\ n <= Top + 1
  BY BlockOf
<1>2. n = Top + 1 \/ (~lk /\ n = umb_start_seg)
  BY DEF Tiled, Ends
<1>3. CASE lk \/ umb_start_seg <= s
  <2>1. s <= e
    BY DEF InChain
  <2> QED
    BY <1>1, <1>2, <1>3, <2>1, Layout
<1>4. CASE ~(lk \/ umb_start_seg <= s)
  <2>1. e < umb_start_seg
    BY <1>4 DEF InChain
  <2>2. CASE UmbActive
    <3>1. n <= umb_start_seg
      BY <2>1, <2>2 DEF Tiled
    <3> HIDE DEF n
    <3>2. n = umb_start_seg
      BY <1>1, <1>2, <2>2, <3>1, Layout
    <3> QED
      BY <1>4, <3>2 DEF n
  <2>3. CASE ~UmbActive
    BY <1>2, <1>4, <2>3, Layout
  <2> QED
    BY <2>2, <2>3, ConstantsAssumption
<1> QED
  BY <1>3, <1>4

(* A walk that has come to its end has visited its part of memory.         *)
LEMMA WalkVisits ==
  ASSUME NEW m, NEW H, NEW lk, Tiled(m, H, lk), NEW s \in H, NEW w \in Walks(m, H, s),
         m[w[Len(w)]].type = "Z", NEW h \in H, InChain(h, s, lk)
  PROVE  \E j \in 1..Len(w) : w[j] = h
<1> SUFFICES ASSUME \A j \in 1..Len(w) : w[j] # h PROVE FALSE
  OBVIOUS
<1> DEFINE l == Len(w)
           T == {j \in 1..l : w[j] < h}
<1>1. /\ w \in Seq(H) /\ l \in Nat /\ l > 0 /\ w[1] = s
      /\ \A j \in 1..l - 1 : m[w[j]].type # "Z" /\ w[j + 1] = NextMcb(m, w[j])
  BY DEF Walks
<1>2. \A j \in 1..l : w[j] \in H /\ InChain(w[j], s, lk) /\ w[j] \in Nat
  BY WalkStays, WalkMoves
<1>3. s \in 0..Top /\ h \in 0..Top /\ s <= h
  BY BlockOf DEF InChain
<1>4. 1 \in T
  BY <1>1, <1>2, <1>3
<1>5. ASSUME NEW j \in 2..l, j - 1 \in T PROVE j \in T
  <2> DEFINE i == j - 1
  <2>1. i \in 1..l - 1 /\ i \in 1..l /\ j \in 1..l /\ i + 1 = j /\ w[i] < h
    BY <1>1, <1>5
  <2>2. w[j] = NextMcb(m, w[i]) /\ w[i] \in H /\ w[j] \in Nat /\ w[j] # h
    BY <1>1, <1>2, <2>1
  <2>3. NextMcb(m, w[i]) <= h
    BY <2>1, <2>2 DEF Tiled
  <2> QED
    BY <1>3, <2>1, <2>2, <2>3
<1> HIDE DEF T
<1>6. 1..l \subseteq T
  BY <1>1, <1>4, <1>5, InductionFromOne
<1> DEFINE e == w[l]
           n == NextMcb(m, e)
<1>7. e \in H /\ InChain(e, s, lk) /\ e < h /\ e \in Nat /\ m[e].type = "Z"
  BY <1>1, <1>2, <1>6 DEF T
<1>8. n <= h
  BY <1>7 DEF Tiled
<1>9. n = IF lk \/ umb_start_seg <= s THEN Top + 1 ELSE umb_start_seg
  BY <1>7, EndOfPart
<1> HIDE DEF n, e
<1> QED
  BY <1>3, <1>8, <1>9, Layout DEF InChain

(* The MCBs that a walk visits are those of the tiling in its part of      *)
(* memory, and it ends where that part does.                               *)
LEMMA ChainOf ==
  ASSUME NEW m, NEW H, NEW lk, Tiled(m, H, lk), NEW s \in H
  PROVE  /\ McbsFrom(m, s) = {h \in H : InChain(h, s, lk)}
         /\ ChainEnd(m, s) \in H /\ InChain(ChainEnd(m, s), s, lk)
         /\ m[ChainEnd(m, s)].type = "Z"
         /\ Chain(m, s) \in Seq(H)
<1> DEFINE w == Chain(m, s)
<1>1. w \in Walks(m, H, s) /\ ChainEnd(m, s) = w[Len(w)] /\ m[w[Len(w)]].type = "Z"
  BY ChainIsWalk DEF ChainEnd
<1>2. McbsFrom(m, s) = {w[i] : i \in DOMAIN w}
  BY DEF McbsFrom
<1> HIDE DEF w
<1>3. w \in Seq(H) /\ Len(w) \in Nat /\ Len(w) > 0 /\ DOMAIN w = 1..Len(w)
  BY <1>1 DEF Walks
<1>4. \A j \in 1..Len(w) : w[j] \in H /\ InChain(w[j], s, lk)
  BY <1>1, WalkStays
<1>5. \A h \in H : InChain(h, s, lk) => \E j \in 1..Len(w) : w[j] = h
  BY <1>1, WalkVisits
<1>6. McbsFrom(m, s) = {h \in H : InChain(h, s, lk)}
  BY <1>2, <1>3, <1>4, <1>5
<1>7. Len(w) \in 1..Len(w)
  BY <1>3
<1> QED
  BY <1>1, <1>3, <1>4, <1>6, <1>7 DEF w

(* Both chains together visit all.                                         *)
McbsOf(m) == McbsFrom(m, firstMCB) \cup (IF UmbActive THEN McbsFrom(m, umb_start_seg) ELSE {})

LEMMA McbsAre ==
  ASSUME NEW m, NEW H, NEW lk, Tiled(m, H, lk)
  PROVE  McbsOf(m) = H
<1>1. firstMCB \in H /\ (UmbActive => umb_start_seg \in H) /\ H \subseteq 0..Top
  BY DEF Tiled
<1>2. McbsFrom(m, firstMCB) = {h \in H : InChain(h, firstMCB, lk)}
  BY <1>1, ChainOf
<1>3. UmbActive => McbsFrom(m, umb_start_seg) = {h \in H : InChain(h, umb_start_seg, lk)}
  BY <1>1, ChainOf
<1>4. ASSUME NEW h \in H
      PROVE  InChain(h, firstMCB, lk) \/ (UmbActive /\ InChain(h, umb_start_seg, lk))
  <2>1. h \in 0..Top
    BY <1>1
  <2> QED
    BY <2>1, Layout, ConstantsAssumption DEF InChain
<1>5. McbsFrom(m, firstMCB) \subseteq H /\ (UmbActive => McbsFrom(m, umb_start_seg) \subseteq H)
  BY <1>2, <1>3
<1> QED
  BY <1>2, <1>3, <1>4, <1>5 DEF McbsOf

-----------------------------------------------------------------------------
(* What the calls do to a tiling.                                          *)
LEMMA McbType ==
  ASSUME NEW t \in {"M", "Z"}, NEW o \in Owners, NEW k \in 0..Top
  PROVE  /\ Mcb(t, o, k) \in Block
         /\ Mcb(t, o, k).type = t /\ Mcb(t, o, k).psp = o /\ Mcb(t, o, k).size = k
<1>1. o # "none"
  BY ConstantsAssumption DEF Owners, MCB_FREE, MCB_DOS, LoadfixPsp
<1> QED
  BY <1>1 DEF Mcb, Block

(* Types and sizes make a tiling; owners do not matter but for the block   *)
(* before the UMBs.                                                        *)
LEMMA SameTiling ==
  ASSUME NEW m, NEW H, NEW lk, Tiled(m, H, lk), NEW m1 \in Memory,
         \A h \in H : m1[h].type = m[h].type /\ m1[h].size = m[h].size,
         UmbActive => m1[umb_start_seg].psp = MCB_DOS
  PROVE  Tiled(m1, H, lk)
<1>1. \A h \in H : NextMcb(m1, h) = NextMcb(m, h)
  BY DEF NextMcb
<1> QED
  BY <1>1 DEF Tiled

(* A block is split after its first k paragraphs.                          *)
SplitAt(m, s, k, o1, o2) ==
  [m EXCEPT ![s] = Mcb("M", o1, k), ![s + k + 1] = Mcb(m[s].type, o2, m[s].size - k - 1)]

IsSplit(m, H, lk, s, k, o1, o2, m1, n) ==
  /\ n \notin H /\ n \in 0..Top
  /\ Tiled(m1, H \cup {n}, lk)
  /\ m1[s] = Mcb("M", o1, k)
  /\ m1[n] = Mcb(m[s].type, o2, m[s].size - k - 1)
  /\ \A h \in H : h # s => m1[h] = m[h]

LEMMA SplitTiles ==
  ASSUME NEW m, NEW H, NEW lk, Tiled(m, H, lk), NEW s \in H, NEW k \in Nat, k < m[s].size,
         NEW o1 \in Owners, NEW o2 \in Owners, UmbActive => s # umb_start_seg
  PROVE  IsSplit(m, H, lk, s, k, o1, o2, SplitAt(m, s, k, o1, o2), s + k + 1)
<1> DEFINE m1 == SplitAt(m, s, k, o1, o2)
           n == s + k + 1
           x == NextMcb(m, s)
           r == m[s].size - k - 1
           a == Mcb("M", o1, k)
           b == Mcb(m[s].type, o2, r)
           G == H \cup {n}
<1>1. /\ s \in 0..Top /\ m[s].size \in 0..Top /\ x = s + m[s].size + 1
      /\ x \in Nat /\ x <= Top + 1 /\ Top \in Nat /\ m \in Memory /\ DOMAIN m = 0..Top
  BY BlockOf, Layout DEF Tiled, Memory
<1>2. n \in 0..Top /\ s < n /\ n < x /\ r \in 0..Top /\ k \in 0..Top /\ (n + r) + 1 = x
  BY <1>1
<1>3. /\ \A h \in H : h \in 0..Top /\ m[h].type \in {"M", "Z"} /\ NextMcb(m, h) \in H \cup {Top + 1}
      /\ \A h \in H : NextMcb(m, h) \in Nat /\ h < NextMcb(m, h)
      /\ \A h, g \in H : h < g => NextMcb(m, h) <= g
  BY BlockOf DEF Tiled
<1>4. n \notin H
  BY <1>1, <1>2, <1>3
<1>5. /\ a \in Block /\ a.type = "M" /\ a.size = k
      /\ b \in Block /\ b.type = m[s].type /\ b.size = r
  BY <1>2, <1>3, McbType
<1>6. m1 = [m EXCEPT ![s] = a, ![n] = b]
  BY DEF SplitAt
<1> HIDE DEF a, b, m1
<1>7. /\ m1 \in Memory /\ m1[s] = a /\ m1[n] = b
      /\ \A h \in 0..Top : h # s /\ h # n => m1[h] = m[h]
  BY <1>1, <1>2, <1>5, <1>6 DEF Memory
<1>8. \A h \in H : h # s => m1[h] = m[h]
  BY <1>3, <1>4, <1>7
<1>9. /\ NextMcb(m1, s) = n /\ NextMcb(m1, n) = x
      /\ \A h \in H : h # s => NextMcb(m1, h) = NextMcb(m, h)
  BY <1>2, <1>5, <1>7, <1>8 DEF NextMcb
<1> HIDE DEF n, x, r
<1>10. ASSUME NEW h \in G PROVE m1[h].type \in {"M", "Z"} /\ NextMcb(m1, h) \in G \cup {Top + 1}
  <2>1. CASE h = s
    BY <1>5, <1>7, <1>9, <2>1
  <2>2. CASE h = n
    BY <1>3, <1>5, <1>7, <1>9, <2>2 DEF x
  <2>3. CASE h # s /\ h # n
    BY <1>3, <1>8, <1>9, <2>3
  <2> QED
    BY <2>1, <2>2, <2>3
<1>11. ASSUME NEW h \in G, NEW g \in G, h < g PROVE NextMcb(m1, h) <= g
  <2>1. CASE h = s /\ g = n
    BY <1>2, <1>9, <2>1
  <2>2. CASE h = s /\ g # n
    <3>1. g \in H /\ x <= g
      BY <1>3, <1>11, <2>2 DEF x
    <3> QED
      BY <1>1, <1>2, <1>3, <1>9, <2>2, <3>1
  <2>3. CASE h = n
    <3>1. g \in H /\ s < g
      BY <1>1, <1>2, <1>3, <1>11, <2>3
    <3>2. x <= g
      BY <1>3, <3>1 DEF x
    <3> QED
      BY <1>9, <2>3, <3>2
  <2>4. CASE h # s /\ h # n /\ g # n
    BY <1>3, <1>9, <1>11, <2>4
  <2>5. CASE h # s /\ h # n /\ g = n
    <3>1. h \in H /\ h \in 0..Top /\ NextMcb(m, h) \in Nat /\ h < n
      BY <1>3, <1>11, <2>5
    <3>2. h < s
      <4>1. s < h => x <= h
        BY <1>3, <3>1 DEF x
      <4> QED
        BY <1>1, <1>2, <2>5, <3>1, <4>1
    <3>3. NextMcb(m, h) <= s
      BY <1>3, <3>1, <3>2
    <3> QED
      BY <1>1, <1>2, <1>9, <2>5, <3>1, <3>3
  <2> QED
    BY <2>1, <2>2, <2>3, <2>4, <2>5
<1>12. ASSUME NEW h \in G PROVE m1[h].type = "Z" <=> Ends(NextMcb(m1, h), lk)
  <2>1. CASE h = s
    <3>1. UmbActive => n # umb_start_seg
      BY <1>4 DEF Tiled
    <3>2. ~Ends(n, lk)
      BY <1>1, <1>2, <3>1, Layout DEF Ends
    <3> QED
      BY <1>5, <1>7, <1>9, <2>1, <3>2
  <2>2. CASE h = n
    <3>1. m[s].type = "Z" <=> Ends(x, lk)
      BY DEF Tiled, x
    <3> QED
      BY <1>5, <1>7, <1>9, <2>2, <3>1
  <2>3. CASE h # s /\ h # n
    BY <1>8, <1>9, <2>3 DEF Tiled
  <2> QED
    BY <2>1, <2>2, <2>3
<1>13. UmbActive => m1[umb_start_seg].psp = MCB_DOS
  BY <1>8 DEF Tiled
<1>14. G \subseteq 0..Top /\ firstMCB \in G /\ (UmbActive => umb_start_seg \in G)
  BY <1>2 DEF Tiled
<1>15. Tiled(m1, G, lk)
  BY <1>7, <1>10, <1>11, <1>12, <1>13, <1>14 DEF Tiled
<1> QED
  BY <1>2, <1>4, <1>7, <1>8, <1>15 DEF m1, n, a, b, r, IsSplit

(* A block takes in the free one behind it.                                *)
Join(m, s, o) ==
  [m EXCEPT ![s] = Mcb(m[NextMcb(m, s)].type, o, m[s].size + m[NextMcb(m, s)].size + 1)]

IsJoin(m, H, lk, s, o, m1, n) ==
  /\ n \in H /\ s < n
  /\ Tiled(m1, H \ {n}, lk)
  /\ m1[s] = Mcb(m[n].type, o, m[s].size + m[n].size + 1)
  /\ m[s].size + m[n].size + 1 \in 0..Top
  /\ NextMcb(m1, s) = NextMcb(m, n)
  /\ \A h \in 0..Top : h # s => m1[h] = m[h]

LEMMA JoinTiles ==
  ASSUME NEW m, NEW H, NEW lk, Tiled(m, H, lk), NEW s \in H, m[s].type # "Z",
         Free(m, NextMcb(m, s)), NEW o \in Owners, UmbActive => s # umb_start_seg
  PROVE  IsJoin(m, H, lk, s, o, Join(m, s, o), NextMcb(m, s))
<1> DEFINE m1 == Join(m, s, o)
           n == NextMcb(m, s)
           x == NextMcb(m, n)
           r == m[s].size + m[n].size + 1
           a == Mcb(m[n].type, o, r)
           G == H \ {n}
<1>1. n \in H
  BY DEF Tiled, Ends
<1>2. /\ s \in 0..Top /\ n \in 0..Top /\ m[s].size \in 0..Top /\ m[n].size \in 0..Top
      /\ n = s + m[s].size + 1 /\ x = n + m[n].size + 1 /\ x <= Top + 1 /\ x \in Nat
      /\ Top \in Nat /\ m \in Memory /\ DOMAIN m = 0..Top
  BY <1>1, BlockOf, Layout DEF Tiled, Memory
<1>3. s < n /\ n < x /\ r \in 0..Top /\ (s + r) + 1 = x
  <2> DEFINE y == m[s].size
             z == m[n].size
  <2>1. y \in Nat /\ z \in Nat /\ s \in Nat /\ n = s + y + 1 /\ x = n + z + 1 /\ r = y + z + 1
        /\ x <= Top + 1
    BY <1>2
  <2> HIDE DEF y, z, n, x, r
  <2> QED
    BY <2>1, Layout
<1>4. /\ \A h \in H : h \in 0..Top /\ m[h].type \in {"M", "Z"} /\ NextMcb(m, h) \in H \cup {Top + 1}
      /\ \A h \in H : NextMcb(m, h) \in Nat /\ h < NextMcb(m, h)
      /\ \A h, g \in H : h < g => NextMcb(m, h) <= g
  BY BlockOf DEF Tiled
<1>5. a \in Block /\ a.type = m[n].type /\ a.size = r
  BY <1>1, <1>3, <1>4, McbType
<1>6. m1 = [m EXCEPT ![s] = a]
  BY DEF Join
<1> HIDE DEF a, m1
<1>7. m1 \in Memory /\ m1[s] = a /\ \A h \in 0..Top : h # s => m1[h] = m[h]
  BY <1>2, <1>5, <1>6 DEF Memory
<1>8. NextMcb(m1, s) = x /\ \A h \in H : h # s => NextMcb(m1, h) = NextMcb(m, h)
  BY <1>3, <1>4, <1>5, <1>7 DEF NextMcb
<1>9. UmbActive => n # umb_start_seg
  BY DEF Tiled, Free, MCB_FREE, MCB_DOS
<1>10. m[n].type \in {"M", "Z"} /\ x \in H \cup {Top + 1} /\ (m[n].type = "Z" <=> Ends(x, lk))
  BY <1>1 DEF Tiled
<1>11. \A g \in H : n < g => x <= g
  BY <1>1, <1>4
<1>12. \A g \in H : s < g => n <= g
  BY <1>4
<1> HIDE DEF n, x, r
<1>13. ASSUME NEW h \in G PROVE m1[h].type \in {"M", "Z"} /\ NextMcb(m1, h) \in G \cup {Top + 1}
  <2>1. CASE h = s
    BY <1>2, <1>3, <1>5, <1>7, <1>8, <1>10, <2>1, SMTT(20)
  <2>2. CASE h # s
    <3>1. NextMcb(m, h) # n
      <4>1. h \in H /\ h # n /\ h \in 0..Top /\ NextMcb(m, h) \in Nat /\ h < NextMcb(m, h)
        BY <1>4
      <4>2. CASE h < s
        <5>1. NextMcb(m, h) <= s
          BY <1>4, <4>1, <4>2
        <5> QED
          BY <1>2, <1>3, <4>1, <5>1
      <4>3. CASE s < h
        <5>1. n <= h
          BY <1>12, <4>1, <4>3
        <5> QED
          BY <1>2, <4>1, <5>1
      <4> QED
        BY <1>2, <2>2, <4>1, <4>2, <4>3
    <3> QED
      BY <1>4, <1>7, <1>8, <2>2, <3>1
  <2> QED
    BY <2>1, <2>2
<1>14. ASSUME NEW h \in G, NEW g \in G, h < g PROVE NextMcb(m1, h) <= g
  <2>1. CASE h = s
    <3>1. n <= g /\ g \in 0..Top /\ g # n
      BY <1>4, <1>12, <1>14, <2>1
    <3>2. n < g
      BY <1>2, <3>1
    <3> QED
      BY <1>8, <1>11, <2>1, <3>2
  <2>2. CASE h # s
    BY <1>4, <1>8, <1>14, <2>2
  <2> QED
    BY <2>1, <2>2
<1>15. ASSUME NEW h \in G PROVE m1[h].type = "Z" <=> Ends(NextMcb(m1, h), lk)
  <2>1. CASE h = s
    BY <1>5, <1>7, <1>8, <1>10, <2>1
  <2>2. CASE h # s
    <3>1. h \in H /\ m1[h] = m[h] /\ NextMcb(m1, h) = NextMcb(m, h)
      BY <1>4, <1>7, <1>8, <2>2
    <3> QED
      BY <3>1 DEF Tiled
  <2> QED
    BY <2>1, <2>2
<1>16. UmbActive => m1[umb_start_seg].psp = MCB_DOS
  BY <1>7 DEF Tiled
<1>17. G \subseteq 0..Top /\ firstMCB \in G /\ (UmbActive => umb_start_seg \in G)
  <2>1. n # firstMCB
    BY <1>2, <1>3, Layout
  <2> QED
    BY <1>9, <2>1 DEF Tiled
<1>18. Tiled(m1, G, lk)
  BY <1>7, <1>13, <1>14, <1>15, <1>16, <1>17 DEF Tiled
<1> QED
  BY <1>1, <1>3, <1>7, <1>8, <1>18 DEF m1, n, a, r, x, IsJoin

-----------------------------------------------------------------------------
(* DOS_CompressMemory.                                                     *)

(* The blocks that have an owner are the same.                             *)
SameOwned(m, H, m1, H1) ==
  /\ \A h \in H : ~Free(m, h) => h \in H1 /\ m1[h] = m[h]
  /\ \A h \in H1 : ~Free(m1, h) => h \in H /\ m1[h] = m[h]

(* Up to the paragraph p no free block has a free one behind it.           *)
Joined(m, H, p) ==
  \A h \in H : h < p /\ m[h].type # "Z" => ~(Free(m, h) /\ Free(m, NextMcb(m, h)))

(* The states of the loop.                                                 *)
Pass(c, m, H, lk, H1) ==
  /\ c \in [mem : Memory, at : 0..Top]
  /\ Tiled(c.mem, H1, lk) /\ c.at \in H1
  /\ SameOwned(m, H, c.mem, H1)
  /\ Joined(c.mem, H1, c.at)

(* The loop is over, or the end of the MCB at hand has reached p.          *)
Reached(c, p) == c.mem[c.at].type = "Z" \/ NextMcb(c.mem, c.at) >= p

LEMMA CompressTurn ==
  ASSUME NEW c, NEW m, NEW H, NEW lk, NEW H1, Pass(c, m, H, lk, H1)
  PROVE  /\ \E H2 : Pass(Compress(c), m, H, lk, H2)
         /\ \A p \in Nat : Reached(c, p) => Reached(Compress(c), p + 1)
<1> DEFINE k == c.mem
           s == c.at
           n == NextMcb(k, s)
<1>1. /\ c \in [mem : Memory, at : 0..Top] /\ Tiled(k, H1, lk) /\ s \in H1
      /\ SameOwned(m, H, k, H1) /\ Joined(k, H1, s) /\ DOMAIN k = 0..Top
  BY DEF Pass, Memory
<1>2. s \in 0..Top /\ s \in DOMAIN k /\ n \in Nat /\ s < n
  BY <1>1, BlockOf
<1>3. CASE k[s].type = "Z"
  <2>1. Compress(c) = c
    BY <1>3 DEF Compress
  <2>2. \A p : Reached(c, p)
    BY <1>3 DEF Reached
  <2> QED
    BY <2>1, <2>2
<1>4. CASE k[s].type # "Z"
  <2>1. n \in H1 /\ n \in 0..Top /\ n \in DOMAIN k
    <3>1. n \in H1
      BY <1>1, <1>4 DEF Tiled, Ends
    <3> QED
      BY <1>1, <3>1 DEF Tiled
  <2>2. CASE Free(k, s) /\ Free(k, n)
    <3> DEFINE b == Mcb(k[n].type, MCB_FREE, k[s].size + k[n].size + 1)
               d == Compress(c)
               k1 == Join(k, s, MCB_FREE)
               H2 == H1 \ {n}
    <3>1. d = [c EXCEPT !.mem[s] = b]
      BY <1>2, <1>4, <2>1, <2>2 DEF Compress
    <3>2. k1 = [k EXCEPT ![s] = b]
      BY DEF Join
    <3>3. d.mem = k1 /\ d.at = s /\ d = [c EXCEPT !.mem = k1]
      BY <1>1, <3>1, <3>2
    <3>4. UmbActive => s # umb_start_seg
      BY <1>1, <2>2 DEF Tiled, Free, MCB_FREE, MCB_DOS
    <3>5. /\ Tiled(k1, H2, lk) /\ k1[s] = b /\ NextMcb(k1, s) = NextMcb(k, n)
          /\ k[s].size + k[n].size + 1 \in 0..Top
          /\ \A h \in 0..Top : h # s => k1[h] = k[h]
      <4>1. MCB_FREE \in Owners
        BY DEF Owners
      <4> HIDE DEF k, s, b, k1
      <4>2. IsJoin(k, H1, lk, s, MCB_FREE, Join(k, s, MCB_FREE), NextMcb(k, s))
        BY <1>1, <1>4, <2>2, <3>4, <4>1, JoinTiles
      <4> QED
        BY <4>2, Zenon DEF b, k1, IsJoin
    <3>6. b.psp = MCB_FREE
      BY DEF Mcb
    <3> HIDE DEF b, d, k1
    <3>7. \A h \in 0..Top : Free(k1, h) <=> Free(k, h)
      BY <2>2, <3>5, <3>6 DEF Free
    <3>8. SameOwned(m, H, k1, H2)
      <4>1. H1 \subseteq 0..Top
        BY <1>1 DEF Tiled
      <4>2. ASSUME NEW h \in H, ~Free(m, h) PROVE h \in H2 /\ k1[h] = m[h]
        <5>1. h \in H1 /\ k[h] = m[h]
          BY <1>1, <4>2 DEF SameOwned
        <5>2. h # s /\ h # n
          BY <2>2, <4>2, <5>1 DEF Free
        <5> QED
          BY <3>5, <4>1, <5>1, <5>2
      <4>3. ASSUME NEW h \in H2, ~Free(k1, h) PROVE h \in H /\ k1[h] = m[h]
        <5>1. h \in H1 /\ h \in 0..Top /\ ~Free(k, h)
          BY <3>7, <4>1, <4>3
        <5>2. h \in H /\ k[h] = m[h] /\ h # s
          BY <1>1, <2>2, <5>1 DEF SameOwned
        <5> QED
          BY <3>5, <5>1, <5>2
      <4> QED
        BY <4>2, <4>3 DEF SameOwned
    <3>9. Joined(k1, H2, s)
      <4> SUFFICES ASSUME NEW h \in H2, h < s, k1[h].type # "Z", Free(k1, h), Free(k1, NextMcb(k1, h))
                   PROVE  FALSE
        BY DEF Joined
      <4>1. h \in H1 /\ h \in 0..Top /\ h # s /\ k1[h] = k[h] /\ NextMcb(k1, h) = NextMcb(k, h)
        <5>1. h \in H1 /\ h \in 0..Top /\ h # s
          BY <1>1, <1>2 DEF Tiled
        <5> QED
          BY <3>5, <5>1 DEF NextMcb
      <4>2. NextMcb(k, h) <= s /\ NextMcb(k, h) \in Nat
        BY <1>1, <4>1, BlockOf DEF Tiled
      <4>3. Free(k, h) /\ Free(k, NextMcb(k, h))
        BY <1>2, <3>7, <4>1, <4>2, Layout
      <4> QED
        BY <1>1, <4>1, <4>3 DEF Joined
    <3>10. k1 \in Memory /\ s \in H2
      BY <1>1, <1>2, <3>5 DEF Tiled
    <3>11. Pass(d, m, H, lk, H2)
      <4>1. d \in [mem : Memory, at : 0..Top]
        BY <1>1, <3>3, <3>10
      <4> QED
        BY <3>3, <3>5, <3>8, <3>9, <3>10, <4>1 DEF Pass
    <3>12. ASSUME NEW p \in Nat, Reached(c, p) PROVE Reached(d, p + 1)
      <4>1. n >= p
        BY <1>4, <3>12 DEF Reached
      <4>2. NextMcb(k, n) \in Nat /\ n < NextMcb(k, n)
        BY <1>1, <2>1, BlockOf
      <4>3. NextMcb(d.mem, d.at) = NextMcb(k, n)
        BY <3>3, <3>5
      <4> HIDE DEF n
      <4>4. NextMcb(k, n) >= p + 1
        BY <1>2, <4>1, <4>2
      <4> QED
        BY <4>3, <4>4 DEF Reached
    <3> QED
      BY <3>11, <3>12 DEF d
  <2>3. CASE ~(Free(k, s) /\ Free(k, n))
    <3> DEFINE d == Compress(c)
    <3>1. d = [c EXCEPT !.at = n]
      BY <1>2, <1>4, <2>1, <2>3 DEF Compress
    <3>2. d.mem = k /\ d.at = n /\ d \in [mem : Memory, at : 0..Top]
      BY <1>1, <2>1, <3>1
    <3> HIDE DEF d
    <3>3. Joined(k, H1, n)
      <4> SUFFICES ASSUME NEW h \in H1, h < n, k[h].type # "Z", Free(k, h), Free(k, NextMcb(k, h))
                   PROVE  FALSE
        BY DEF Joined
      <4>1. h \in 0..Top /\ h # s
        BY <1>1, <2>3 DEF Tiled
      <4>2. CASE h < s
        BY <1>1, <4>2 DEF Joined
      <4>3. CASE s < h
        <5>1. n <= h
          BY <1>1, <4>3 DEF Tiled
        <5> QED
          BY <1>2, <4>1, <5>1
      <4> QED
        BY <1>2, <4>1, <4>2, <4>3
    <3>4. Pass(d, m, H, lk, H1)
      BY <1>1, <2>1, <3>2, <3>3 DEF Pass
    <3>5. ASSUME NEW p \in Nat, Reached(c, p) PROVE Reached(d, p + 1)
      <4>1. n >= p
        BY <1>4, <3>5 DEF Reached
      <4>2. NextMcb(k, n) \in Nat /\ n < NextMcb(k, n)
        BY <1>1, <2>1, BlockOf
      <4>3. NextMcb(d.mem, d.at) = NextMcb(k, n)
        BY <3>2
      <4> HIDE DEF n
      <4>4. NextMcb(k, n) >= p + 1
        BY <1>2, <4>1, <4>2
      <4> QED
        BY <4>3, <4>4 DEF Reached
    <3> QED
      BY <3>4, <3>5 DEF d
  <2> QED
    BY <2>2, <2>3
<1> QED
  BY <1>3, <1>4

IsCompression(f, m) ==
  f = [i \in 1..Top + 2 |-> IF i = 1 THEN [mem |-> m, at |-> firstMCB] ELSE Compress(f[i - 1])]

(* Compressing takes MCBs out of the tiling, changes no block that has an  *)
(* owner, and leaves no two free neighbours in the low chain.              *)
LEMMA CompressTiles ==
  ASSUME NEW m, NEW H, NEW lk, Tiled(m, H, lk)
  PROVE  \E H1 : /\ Tiled(DOS_CompressMemory(m), H1, lk)
                 /\ SameOwned(m, H, DOS_CompressMemory(m), H1)
                 /\ \A h \in H1 : InChain(h, firstMCB, lk) /\ DOS_CompressMemory(m)[h].type # "Z" =>
                      ~(/\ Free(DOS_CompressMemory(m), h)
                        /\ Free(DOS_CompressMemory(m), NextMcb(DOS_CompressMemory(m), h)))
<1> DEFINE X == {c \in [mem : Memory, at : 0..Top] : \E H1 : Pass(c, m, H, lk, H1)}
           F == [c \in X |-> Compress(c)]
           N == Top + 2
           x == [mem |-> m, at |-> firstMCB]
           turn == CHOOSE f : IsCompression(f, m)
<1>1. N \in Nat /\ N > 1
  BY Layout
<1>2. x \in X
  <2>1. x \in [mem : Memory, at : 0..Top] /\ x.mem = m /\ x.at = firstMCB /\ firstMCB \in H
    BY Layout DEF Tiled
  <2>2. SameOwned(m, H, m, H)
    BY DEF SameOwned
  <2>3. Joined(m, H, firstMCB)
    <3>1. \A h \in H : ~(h < firstMCB)
      BY Layout DEF Tiled
    <3> QED
      BY <3>1 DEF Joined
  <2> HIDE DEF x
  <2>4. Pass(x, m, H, lk, H)
    BY <2>1, <2>2, <2>3 DEF Pass
  <2> QED
    BY <2>1, <2>4
<1>3. ASSUME NEW c \in X PROVE Compress(c) \in X
  <2>1. PICK H1 : Pass(c, m, H, lk, H1)
    OBVIOUS
  <2>2. PICK H2 : Pass(Compress(c), m, H, lk, H2)
    BY <2>1, CompressTurn
  <2> QED
    BY <2>2 DEF Pass
<1>4. F \in [X -> X]
  BY <1>3
<1>5. PICK g \in [1..N -> X] : IsIteration(g, F, x, N)
  <2> HIDE DEF F, N, X, x
  <2> QED
    BY <1>1, <1>2, <1>4, Iterates
<1> HIDE DEF X
<1>6. IsCompression(g, m)
  <2>1. ASSUME NEW i \in 1..N, i # 1 PROVE F[g[i - 1]] = Compress(g[i - 1])
    <3>1. i - 1 \in 1..N
      BY <2>1, <1>1
    <3>2. g[i - 1] \in X
      BY <3>1
    <3> QED
      BY <3>2
  <2>2. [i \in 1..N |-> IF i = 1 THEN x ELSE F[g[i - 1]]]
          = [i \in 1..N |-> IF i = 1 THEN x ELSE Compress(g[i - 1])]
    <3> HIDE DEF F, x
    <3> QED
      BY <2>1
  <2> QED
    BY <1>5, <2>2, Zenon DEF IsCompression, IsIteration
<1>7. IsCompression(turn, m)
  BY <1>6
<1>8. DOS_CompressMemory(m) = turn[N].mem
  BY DEF DOS_CompressMemory, IsCompression
<1> HIDE DEF turn
<1>9. \A i \in 1..N : turn[i] = IF i = 1 THEN x ELSE Compress(turn[i - 1])
  BY <1>7 DEF IsCompression
<1> HIDE DEF x
<1> DEFINE T == {i \in 1..N : turn[i] \in X /\ Reached(turn[i], i)}
<1>10. 1 \in T
  <2>1. turn[1] = x
    BY <1>1, <1>9
  <2>2. x.mem = m /\ x.at = firstMCB /\ firstMCB \in H
    BY DEF x, Tiled
  <2>3. NextMcb(m, firstMCB) \in Nat /\ firstMCB < NextMcb(m, firstMCB)
    BY <2>2, BlockOf
  <2>4. NextMcb(m, firstMCB) >= 1
    BY <2>3, Layout
  <2> QED
    BY <1>1, <1>2, <2>1, <2>2, <2>4 DEF Reached
<1>11. ASSUME NEW i \in 2..N, i - 1 \in T PROVE i \in T
  <2> DEFINE c == turn[i - 1]
             p == i - 1
  <2>1. i \in 1..N /\ i # 1 /\ c \in X /\ Reached(c, p) /\ p \in Nat /\ p + 1 = i
    BY <1>1, <1>11
  <2>2. turn[i] = Compress(c)
    BY <1>9, <2>1
  <2> HIDE DEF c, p
  <2>3. PICK H1 : Pass(c, m, H, lk, H1)
    BY <2>1 DEF X
  <2>4. Compress(c) \in X /\ Reached(Compress(c), p + 1)
    BY <1>3, <2>1, <2>3, CompressTurn
  <2> QED
    BY <2>1, <2>2, <2>4
<1>12. 1..N \subseteq T
  <2> HIDE DEF T, N
  <2> QED
    BY <1>1, <1>10, <1>11, InductionFromOne
<1> DEFINE c == turn[N]
           k == DOS_CompressMemory(m)
<1>13. c \in X /\ Reached(c, N)
  BY <1>1, <1>12
<1> HIDE DEF c, T
<1>14. PICK H1 : Pass(c, m, H, lk, H1)
  BY <1>13 DEF X
<1>15. k = c.mem
  BY <1>8 DEF c
<1> HIDE DEF k
<1>16. Tiled(k, H1, lk) /\ c.at \in H1 /\ SameOwned(m, H, k, H1) /\ Joined(k, H1, c.at)
  BY <1>14, <1>15 DEF Pass
<1>17. c.at \in 0..Top /\ NextMcb(k, c.at) \in Nat /\ NextMcb(k, c.at) <= Top + 1
  BY <1>16, BlockOf
<1>18. k[c.at].type = "Z"
  BY <1>13, <1>15, <1>17, Layout DEF Reached
<1>19. ASSUME NEW h \in H1, InChain(h, firstMCB, lk), k[h].type # "Z" PROVE h < c.at
  <2>1. h \in 0..Top /\ h # c.at
    BY <1>16, <1>18, <1>19 DEF Tiled
  <2>2. CASE c.at < h
    <3>1. NextMcb(k, c.at) <= h
      BY <1>16, <2>2 DEF Tiled
    <3>2. NextMcb(k, c.at) = Top + 1 \/ (~lk /\ NextMcb(k, c.at) = umb_start_seg)
      BY <1>16, <1>18 DEF Tiled, Ends
    <3> QED
      BY <1>17, <1>19, <2>1, <3>1, <3>2, Layout DEF InChain
  <2> QED
    BY <1>17, <2>1, <2>2
<1>20. \A h \in H1 : InChain(h, firstMCB, lk) /\ k[h].type # "Z" =>
          ~(Free(k, h) /\ Free(k, NextMcb(k, h)))
  BY <1>16, <1>19 DEF Joined
<1> QED
  BY <1>16, <1>20 DEF k

-----------------------------------------------------------------------------
(* What programs hold.                                                     *)
Owned(m, H, hd) ==
  /\ hd \subseteq [seg : 1..Top + 1, size : 0..Top]
  /\ \A b \in hd : /\ b.seg - 1 \in H /\ m[b.seg - 1].psp \in Procs
                   /\ m[b.seg - 1].size >= b.size
  /\ \A b, c \in hd : b.seg = c.seg => b = c
  /\ \A h \in H : m[h].psp \in Procs => \E b \in hd : b.seg - 1 = h

LEMMA ProcsAreOwners ==
  Procs \subseteq Owners /\ MCB_FREE \in Owners /\ MCB_FREE \notin Procs /\ MCB_DOS \notin Procs
  /\ MCB_FREE # MCB_DOS
  BY ConstantsAssumption DEF Owners, MCB_FREE, MCB_DOS

LEMMA OwnedStays ==
  ASSUME NEW m, NEW H, NEW hd, Owned(m, H, hd), NEW m1, NEW H1, SameOwned(m, H, m1, H1)
  PROVE  Owned(m1, H1, hd)
<1>1. \A b \in hd : b.seg - 1 \in H1 /\ m1[b.seg - 1] = m[b.seg - 1]
  BY ProcsAreOwners DEF Owned, SameOwned, Free
<1>2. ASSUME NEW h \in H1, m1[h].psp \in Procs PROVE \E b \in hd : b.seg - 1 = h
  <2>1. h \in H /\ m1[h] = m[h]
    BY <1>2, ProcsAreOwners DEF SameOwned, Free
  <2> QED
    BY <1>2, <2>1 DEF Owned
<1> QED
  BY <1>1, <1>2 DEF Owned

(* Owners and sizes are all that matters.                                  *)
LEMMA OwnedAlike ==
  ASSUME NEW m, NEW H, NEW hd, Owned(m, H, hd), NEW m1,
         \A h \in H : m1[h].psp = m[h].psp /\ m1[h].size = m[h].size
  PROVE  Owned(m1, H, hd)
  BY DEF Owned

(* The blocks but the one of s that have an owner are the same.            *)
OthersSame(m, H, m1, H1, s) ==
  /\ \A h \in H : ~Free(m, h) /\ h # s => h \in H1 /\ m1[h] = m[h]
  /\ \A h \in H1 : ~Free(m1, h) /\ h # s => h \in H /\ m1[h] = m[h]

(* One block is given to a program, or changes its size.                   *)
LEMMA OwnedWith ==
  ASSUME NEW m, NEW H, NEW hd, Owned(m, H, hd), NEW m1, NEW H1, NEW s, OthersSame(m, H, m1, H1, s),
         s \in H1, m1[s].psp \in Procs, NEW hd1, hd1 \subseteq [seg : 1..Top + 1, size : 0..Top],
         \A c \in hd : c.seg - 1 # s => c \in hd1,
         \A c \in hd1 : c.seg - 1 # s => c \in hd,
         NEW b \in hd1, b.seg - 1 = s, b.size <= m1[s].size,
         \A c \in hd1 : c.seg - 1 = s => c = b
  PROVE  Owned(m1, H1, hd1)
<1>1. ASSUME NEW c \in hd1
      PROVE  c.seg - 1 \in H1 /\ m1[c.seg - 1].psp \in Procs /\ m1[c.seg - 1].size >= c.size
  <2>1. CASE c.seg - 1 = s
    <3>1. c = b
      BY <2>1
    <3>2. b.size \in 0..Top /\ m1[s].size >= b.size
      OBVIOUS
    <3> QED
      BY <2>1, <3>1, <3>2
  <2>2. CASE c.seg - 1 # s
    <3>1. c \in hd
      BY <2>2
    <3>2. c.seg - 1 \in H /\ m[c.seg - 1].psp \in Procs /\ m[c.seg - 1].size >= c.size
      BY <3>1 DEF Owned
    <3>3. c.seg - 1 \in H1 /\ m1[c.seg - 1] = m[c.seg - 1]
      BY <2>2, <3>2, ProcsAreOwners DEF OthersSame, Free
    <3> QED
      BY <3>2, <3>3
  <2> QED
    BY <2>1, <2>2
<1>2. ASSUME NEW c \in hd1, NEW d \in hd1, c.seg = d.seg PROVE c = d
  <2>1. CASE c.seg - 1 = s
    BY <1>2, <2>1
  <2>2. CASE c.seg - 1 # s
    <3>1. c \in hd /\ d \in hd
      BY <1>2, <2>2
    <3> QED
      BY <1>2, <3>1 DEF Owned
  <2> QED
    BY <2>1, <2>2
<1>3. ASSUME NEW h \in H1, m1[h].psp \in Procs PROVE \E c \in hd1 : c.seg - 1 = h
  <2>1. CASE h = s
    BY <2>1
  <2>2. CASE h # s
    <3>1. h \in H /\ m1[h] = m[h]
      BY <1>3, <2>2, ProcsAreOwners DEF OthersSame, Free
    <3>2. PICK c \in hd : c.seg - 1 = h
      BY <1>3, <3>1 DEF Owned
    <3> QED
      BY <2>2, <3>2
  <2> QED
    BY <2>1, <2>2
<1> QED
  BY <1>1, <1>2, <1>3 DEF Owned

-----------------------------------------------------------------------------
(* The invariant.                                                          *)
Rest ==
  /\ linked \in BOOLEAN /\ (linked => UmbActive)
  /\ allocation_strategy \in [fit : {"first", "best", "last"}, chains : {"low", "high", "high_first"}]
  /\ psp \in Procs
  /\ reported \in None..Top

Inv == Rest /\ FailureIsFinal /\ \E H : Tiled(mem, H, linked) /\ Owned(mem, H, held)

(* What a call must leave behind.                                          *)
Kept == \E H : Tiled(mem', H, linked') /\ Owned(mem', H, held')

LEMMA FreeKeeps ==
  ASSUME NEW H, Tiled(mem, H, linked), Owned(mem, H, held), NEW b \in held, DOS_FreeMemory(b)
  PROVE  Kept
<1> DEFINE s == b.seg - 1
           m1 == [mem EXCEPT ![s].psp = MCB_FREE]
<1>1. mem' = m1 /\ held' = held \ {b} /\ linked' = linked
  BY DEF DOS_FreeMemory
<1>2. s \in H /\ mem[s].psp \in Procs
  BY DEF Owned
<1>3. s \in 0..Top /\ mem[s] \in Block /\ mem \in Memory /\ mem[s].type \in {"M", "Z"}
  BY <1>2, BlockOf DEF Tiled
<1> HIDE DEF s
<1>4. [mem[s] EXCEPT !.psp = MCB_FREE] \in Block
  BY <1>3, ProcsAreOwners, ConstantsAssumption DEF Block, MCB_FREE
<1>5. /\ m1 \in Memory /\ m1[s] = [mem[s] EXCEPT !.psp = MCB_FREE]
      /\ \A h \in 0..Top : h # s => m1[h] = mem[h]
  BY <1>3, <1>4 DEF Memory
<1>6. m1[s].type = mem[s].type /\ m1[s].size = mem[s].size /\ m1[s].psp = MCB_FREE
  BY <1>3, <1>5 DEF Block
<1> HIDE DEF m1
<1>7. H \subseteq 0..Top /\ (UmbActive => umb_start_seg \in H /\ mem[umb_start_seg].psp = MCB_DOS)
  BY DEF Tiled
<1>8. UmbActive => m1[umb_start_seg].psp = MCB_DOS
  BY <1>2, <1>5, <1>7, ProcsAreOwners
<1>9. Tiled(m1, H, linked)
  <2>1. \A h \in H : m1[h].type = mem[h].type /\ m1[h].size = mem[h].size
    BY <1>5, <1>6, <1>7
  <2> QED
    BY <1>5, <1>8, <2>1, SameTiling
<1>10. Owned(m1, H, held \ {b})
  <2>1. \A c \in held : c \in [seg : 1..Top + 1, size : 0..Top] /\ b \in [seg : 1..Top + 1, size : 0..Top]
    BY DEF Owned
  <2>2. ASSUME NEW c \in held \ {b}
        PROVE  c.seg - 1 \in H /\ m1[c.seg - 1] = mem[c.seg - 1]
    <3>1. c.seg # b.seg /\ c.seg \in Int /\ b.seg \in Int
      BY <2>1, Layout DEF Owned
    <3>2. c.seg - 1 # s
      BY <3>1 DEF s
    <3>3. c.seg - 1 \in H
      BY DEF Owned
    <3> QED
      BY <1>5, <1>7, <3>2, <3>3
  <2>3. ASSUME NEW h \in H, m1[h].psp \in Procs PROVE \E c \in held \ {b} : c.seg - 1 = h
    <3>1. h # s
      BY <1>6, <2>3, ProcsAreOwners
    <3>2. mem[h].psp \in Procs
      BY <1>5, <1>7, <2>3, <3>1
    <3>3. PICK c \in held : c.seg - 1 = h
      BY <3>2 DEF Owned
    <3> QED
      BY <3>1, <3>3 DEF s
  <2> QED
    BY <2>2, <2>3 DEF Owned
<1> QED
  BY <1>1, <1>9, <1>10 DEF Kept

LEMMA StrategyAndPspKeep ==
  ASSUME NEW H, Tiled(mem, H, linked), Owned(mem, H, held),
         UNCHANGED <<mem, linked, held>>
  PROVE  Kept
  BY DEF Kept

(* Only one block ends where another one begins.                           *)
LEMMA OneBefore ==
  ASSUME NEW m, NEW H, NEW lk, Tiled(m, H, lk), NEW g \in H, NEW h \in H,
         NextMcb(m, g) = NextMcb(m, h)
  PROVE  g = h
<1>1. /\ g \in 0..Top /\ NextMcb(m, g) \in Nat /\ g < NextMcb(m, g)
      /\ h \in 0..Top /\ NextMcb(m, h) \in Nat /\ h < NextMcb(m, h)
  BY BlockOf
<1>2. CASE g < h
  <2>1. NextMcb(m, g) <= h
    BY <1>2 DEF Tiled
  <2> QED
    BY <1>1, <2>1
<1>3. CASE h < g
  <2>1. NextMcb(m, h) <= g
    BY <1>3 DEF Tiled
  <2> QED
    BY <1>1, <2>1
<1> QED
  BY <1>1, <1>2, <1>3

(* The end marks are set for the other state of the link, and nothing else *)
(* changes.                                                                *)
LEMMA EndMarks ==
  ASSUME NEW m, NEW H, NEW lk, Tiled(m, H, lk), NEW m1 \in Memory, NEW lk1 \in BOOLEAN,
         \A h \in H : /\ m1[h].psp = m[h].psp /\ m1[h].size = m[h].size
                      /\ m1[h].type = IF Ends(NextMcb(m, h), lk1) THEN "Z" ELSE "M"
  PROVE  Tiled(m1, H, lk1)
<1>1. \A h \in H : NextMcb(m1, h) = NextMcb(m, h)
  BY DEF NextMcb
<1>2. \A h \in H : m1[h].type \in {"M", "Z"} /\ (m1[h].type = "Z" <=> Ends(NextMcb(m1, h), lk1))
  BY <1>1
<1> QED
  BY <1>1, <1>2 DEF Tiled

LEMMA LinkKeeps ==
  ASSUME NEW H, Tiled(mem, H, linked), Owned(mem, H, held), linked \in BOOLEAN,
         NEW link \in BOOLEAN, DOS_LinkUMBsToMemChain(link)
  PROVE  Kept
<1>1. UmbActive /\ link # linked /\ linked' = link /\ held' = held
      /\ mem' = IF link THEN Linked(mem) ELSE Unlinked(mem)
  BY DEF DOS_LinkUMBsToMemChain
<1>2. /\ mem \in Memory /\ H \subseteq 0..Top /\ firstMCB \in H
      /\ \A h \in H : mem[h] \in Block /\ mem[h].type \in {"M", "Z"}
      /\ \A h \in H : mem[h].type = "Z" <=> Ends(NextMcb(mem, h), linked)
  BY BlockOf DEF Tiled
<1>3. umb_start_seg # Top + 1 /\ ~(umb_start_seg <= firstMCB)
  BY <1>1, Layout
<1>4. CASE link
  <2> DEFINE e == ChainEnd(mem, firstMCB)
             m1 == [mem EXCEPT ![e].type = "M"]
  <2>1. e \in H /\ InChain(e, firstMCB, linked) /\ mem[e].type = "Z" /\ ~linked
    BY <1>1, <1>2, <1>4, ChainOf
  <2>2. mem' = m1
    BY <1>1, <1>4 DEF Linked
  <2> HIDE DEF e
  <2>3. NextMcb(mem, e) = umb_start_seg
    BY <1>2, <1>3, <2>1, EndOfPart
  <2>4. e \in 0..Top /\ mem[e] \in Block /\ [mem[e] EXCEPT !.type = "M"] \in Block
    BY <1>2, <2>1 DEF Block
  <2>5. m1 \in Memory /\ m1[e] = [mem[e] EXCEPT !.type = "M"] /\ \A h \in 0..Top : h # e => m1[h] = mem[h]
    BY <1>2, <2>4 DEF Memory
  <2>6. m1[e].type = "M" /\ m1[e].psp = mem[e].psp /\ m1[e].size = mem[e].size
    BY <2>4, <2>5 DEF Block
  <2> HIDE DEF m1
  <2>7. ASSUME NEW h \in H
        PROVE  /\ m1[h].psp = mem[h].psp /\ m1[h].size = mem[h].size
               /\ m1[h].type = IF Ends(NextMcb(mem, h), TRUE) THEN "Z" ELSE "M"
    <3>1. CASE h = e
      BY <1>3, <2>3, <2>6, <3>1 DEF Ends
    <3>2. CASE h # e
      <4>1. NextMcb(mem, h) # umb_start_seg
        BY <2>1, <2>3, <3>2, OneBefore
      <4>2. m1[h] = mem[h]
        BY <1>2, <2>5, <3>2
      <4>3. mem[h].type = "Z" <=> NextMcb(mem, h) = Top + 1
        BY <1>2, <4>1 DEF Ends
      <4> QED
        BY <1>2, <4>2, <4>3 DEF Ends
    <3> QED
      BY <3>1, <3>2
  <2>8. Tiled(m1, H, TRUE)
    BY <2>5, <2>7, EndMarks
  <2>9. Owned(m1, H, held)
    BY <2>7, OwnedAlike
  <2>10. link = TRUE
    BY <1>4
  <2> QED
    BY <1>1, <2>2, <2>8, <2>9, <2>10 DEF Kept
<1>5. CASE ~link
  <2> DEFINE G == McbsFrom(mem, firstMCB)
             m1 == [s \in DOMAIN mem |->
                      IF s \in G /\ mem[s].type = "M" /\ NextMcb(mem, s) = umb_start_seg
                      THEN [mem[s] EXCEPT !.type = "Z"] ELSE mem[s]]
  <2>1. linked = TRUE
    BY <1>1, <1>5
  <2>2. mem' = m1
    BY <1>1, <1>5 DEF Unlinked
  <2>3. G = H
    <3>1. G = {h \in H : InChain(h, firstMCB, linked)}
      BY <1>2, ChainOf
    <3>2. \A h \in H : InChain(h, firstMCB, linked)
      BY <1>2, <2>1, Layout DEF InChain
    <3> QED
      BY <3>1, <3>2
  <2> HIDE DEF G
  <2>4. \A h \in 0..Top : mem[h] \in Block
    BY <1>2 DEF Memory
  <2>5. ASSUME NEW h \in H PROVE [mem[h] EXCEPT !.type = "Z"] \in Block
    BY <1>2 DEF Block
  <2>6. m1 \in Memory
    BY <1>2, <2>3, <2>4, <2>5 DEF Memory
  <2>7. ASSUME NEW h \in H
        PROVE  /\ m1[h].psp = mem[h].psp /\ m1[h].size = mem[h].size
               /\ m1[h].type = IF Ends(NextMcb(mem, h), FALSE) THEN "Z" ELSE "M"
    <3>1. h \in DOMAIN mem /\ mem[h] \in Block /\ mem[h].type \in {"M", "Z"}
          /\ (mem[h].type = "Z" <=> NextMcb(mem, h) = Top + 1)
      BY <1>2, <2>1 DEF Memory, Ends
    <3>2. CASE NextMcb(mem, h) = umb_start_seg
      <4>1. m1[h] = [mem[h] EXCEPT !.type = "Z"]
        BY <1>3, <2>3, <3>1, <3>2
      <4>2. m1[h].psp = mem[h].psp /\ m1[h].size = mem[h].size /\ m1[h].type = "Z"
        BY <3>1, <4>1 DEF Block
      <4> QED
        BY <3>2, <4>2 DEF Ends
    <3>3. CASE NextMcb(mem, h) # umb_start_seg
      <4>1. m1[h] = mem[h]
        BY <3>1, <3>3
      <4> QED
        BY <3>1, <3>3, <4>1 DEF Ends
    <3> QED
      BY <3>2, <3>3
  <2> HIDE DEF m1
  <2>8. Tiled(m1, H, FALSE)
    BY <2>6, <2>7, EndMarks
  <2>9. Owned(m1, H, held)
    BY <2>7, OwnedAlike
  <2>10. link = FALSE
    BY <1>5
  <2> QED
    BY <1>1, <2>2, <2>8, <2>9, <2>10 DEF Kept
<1> QED
  BY <1>4, <1>5

(* What a walk releases.                                                   *)
LEMMA ReleasedTiles ==
  ASSUME NEW m, NEW H, NEW lk, Tiled(m, H, lk), NEW s \in H, NEW owner \in Procs \cup {LoadfixPsp}
  PROVE  /\ Tiled(Released(m, s, owner), H, lk)
         /\ \A h \in H : /\ Released(m, s, owner)[h].size = m[h].size
                         /\ Released(m, s, owner)[h].psp =
                              IF m[h].psp = owner /\ InChain(h, s, lk) THEN MCB_FREE ELSE m[h].psp
<1> DEFINE G == McbsFrom(m, s)
           m1 == [h \in DOMAIN m |-> IF m[h].psp = owner /\ h \in G
                                     THEN [m[h] EXCEPT !.psp = MCB_FREE] ELSE m[h]]
<1>1. Released(m, s, owner) = m1
  BY DEF Released
<1>2. G = {h \in H : InChain(h, s, lk)}
  BY ChainOf
<1> HIDE DEF G
<1>3. /\ m \in Memory /\ H \subseteq 0..Top /\ DOMAIN m = 0..Top
      /\ \A h \in H : m[h] \in Block /\ m[h].type \in {"M", "Z"}
      /\ UmbActive => umb_start_seg \in H /\ m[umb_start_seg].psp = MCB_DOS
      /\ \A h \in 0..Top : m[h] \in Block
  BY BlockOf DEF Tiled, Memory
<1>4. owner # MCB_DOS /\ MCB_FREE # "none" /\ MCB_FREE \in Owners
  BY ProcsAreOwners DEF MCB_DOS, LoadfixPsp, MCB_FREE
<1>5. ASSUME NEW h \in H PROVE [m[h] EXCEPT !.psp = MCB_FREE] \in Block
  BY <1>3, <1>4 DEF Block
<1>6. m1 \in Memory
  BY <1>2, <1>3, <1>5 DEF Memory
<1>7. ASSUME NEW h \in H
      PROVE  /\ m1[h].type = m[h].type /\ m1[h].size = m[h].size
             /\ m1[h].psp = IF m[h].psp = owner /\ InChain(h, s, lk) THEN MCB_FREE ELSE m[h].psp
  <2>1. h \in DOMAIN m /\ m[h] \in Block
    BY <1>3
  <2>2. CASE m[h].psp = owner /\ InChain(h, s, lk)
    <3>1. m1[h] = [m[h] EXCEPT !.psp = MCB_FREE]
      BY <1>2, <2>1, <2>2
    <3>2. m1[h].type = m[h].type /\ m1[h].size = m[h].size /\ m1[h].psp = MCB_FREE
      BY <2>1, <3>1 DEF Block
    <3> QED
      BY <2>2, <3>2
  <2>3. CASE ~(m[h].psp = owner /\ InChain(h, s, lk))
    <3>1. m1[h] = m[h]
      BY <1>2, <2>1, <2>3
    <3> HIDE DEF m1
    <3> QED
      BY <2>3, <3>1, Zenon
  <2> QED
    BY <2>2, <2>3
<1> HIDE DEF m1
<1>8. UmbActive => m1[umb_start_seg].psp = MCB_DOS
  BY <1>3, <1>4, <1>7
<1>9. Tiled(m1, H, lk)
  BY <1>6, <1>7, <1>8, SameTiling
<1> QED
  BY <1>1, <1>7, <1>9

LEMMA FreeProcessKeeps ==
  ASSUME NEW H, Tiled(mem, H, linked), Owned(mem, H, held),
         NEW owner \in Procs \cup {LoadfixPsp}, DOS_FreeProcessMemory(owner)
  PROVE  Kept
<1> DEFINE low == Released(mem, firstMCB, owner)
           all == IF UmbActive THEN Released(low, umb_start_seg, owner) ELSE low
           hd == {b \in held : mem[b.seg - 1].psp # owner}
<1>1. mem' = DOS_CompressMemory(all) /\ held' = hd /\ linked' = linked
  BY DEF DOS_FreeProcessMemory
<1>2. firstMCB \in H /\ (UmbActive => umb_start_seg \in H) /\ H \subseteq 0..Top
  BY DEF Tiled
<1>3. /\ Tiled(low, H, linked)
      /\ \A h \in H : /\ low[h].size = mem[h].size
                      /\ low[h].psp = IF mem[h].psp = owner /\ InChain(h, firstMCB, linked)
                                      THEN MCB_FREE ELSE mem[h].psp
  BY <1>2, ReleasedTiles
<1> HIDE DEF low
<1>4. /\ Tiled(all, H, linked)
      /\ \A h \in H : /\ all[h].size = mem[h].size
                      /\ all[h].psp = IF mem[h].psp = owner THEN MCB_FREE ELSE mem[h].psp
  <2>1. CASE UmbActive
    <3> DEFINE k == Released(low, umb_start_seg, owner)
    <3>1. /\ Tiled(k, H, linked)
          /\ \A h \in H : /\ k[h].size = low[h].size
                          /\ k[h].psp = IF low[h].psp = owner /\ InChain(h, umb_start_seg, linked)
                                        THEN MCB_FREE ELSE low[h].psp
      BY <1>2, <1>3, <2>1, ReleasedTiles
    <3>2. all = k
      BY <2>1
    <3> HIDE DEF k, all
    <3>3. ASSUME NEW h \in H PROVE InChain(h, firstMCB, linked) \/ InChain(h, umb_start_seg, linked)
      <4>1. h \in 0..Top
        BY <1>2
      <4> QED
        BY <4>1, Layout DEF InChain
    <3> QED
      BY <1>3, <3>1, <3>2, <3>3
  <2>2. CASE ~UmbActive
    <3>1. ASSUME NEW h \in H PROVE InChain(h, firstMCB, linked)
      <4>1. h \in 0..Top
        BY <1>2
      <4> QED
        BY <2>2, <4>1, Layout DEF InChain
    <3>2. all = low
      BY <2>2
    <3> HIDE DEF all
    <3> QED
      BY <1>3, <3>1, <3>2
  <2> QED
    BY <2>1, <2>2
<1> HIDE DEF all
<1>5. Owned(all, H, hd)
  <2>1. ASSUME NEW b \in hd
        PROVE  b \in held /\ b.seg - 1 \in H /\ all[b.seg - 1].psp \in Procs /\ all[b.seg - 1].size >= b.size
    BY <1>4 DEF Owned
  <2>2. ASSUME NEW h \in H, all[h].psp \in Procs PROVE \E b \in hd : b.seg - 1 = h
    <3>1. mem[h].psp # owner /\ mem[h].psp \in Procs
      BY <1>4, <2>2, ProcsAreOwners
    <3>2. PICK b \in held : b.seg - 1 = h
      BY <3>1 DEF Owned
    <3>3. b \in hd
      BY <3>1, <3>2
    <3> QED
      BY <3>2, <3>3
  <2> QED
    BY <2>1, <2>2 DEF Owned
<1> HIDE DEF hd
<1>6. PICK H1 : Tiled(DOS_CompressMemory(all), H1, linked)
                /\ SameOwned(all, H, DOS_CompressMemory(all), H1)
  BY <1>4, CompressTiles
<1>7. Owned(DOS_CompressMemory(all), H1, hd)
  BY <1>5, <1>6, OwnedStays
<1> QED
  BY <1>1, <1>6, <1>7 DEF Kept

-----------------------------------------------------------------------------
(* DOS_AllocateMemory: where it looks, and what it takes.                  *)
LEMMA SearchedIn ==
  ASSUME NEW m, NEW H, NEW lk, Tiled(m, H, lk)
  PROVE  Searched(m) \in Seq(H)
<1>1. firstMCB \in H /\ (UmbActive => umb_start_seg \in H)
  BY DEF Tiled
<1>2. Chain(m, firstMCB) \in Seq(H) /\ (UmbActive => Chain(m, umb_start_seg) \in Seq(H))
  BY <1>1, ChainOf
<1>3. << >> \in Seq(H)
  OBVIOUS
<1>4. CASE ~UmbActive \/ allocation_strategy.chains = "low"
  BY <1>2, <1>4 DEF Searched
<1>5. CASE ~(~UmbActive \/ allocation_strategy.chains = "low")
  <2> DEFINE low == IF allocation_strategy.chains = "high_first" THEN Chain(m, firstMCB) ELSE << >>
             high == Chain(m, umb_start_seg)
  <2>1. low \in Seq(H) /\ high \in Seq(H)
    BY <1>2, <1>3, <1>5
  <2>2. Searched(m) = high \o low
    BY <1>5 DEF Searched
  <2> HIDE DEF low, high
  <2>3. high \o low \in Seq(H)
    BY <2>1
  <2> QED
    BY <2>2, <2>3
<1> QED
  BY <1>4, <1>5

(* A block of the chain that fits is found, whatever the strategy.         *)
LEMMA ChosenFits ==
  ASSUME NEW m, NEW H, NEW lk, Tiled(m, H, lk), NEW chain \in Seq(H),
         NEW fits \in SUBSET DOMAIN chain, fits # {},
         allocation_strategy.fit \in {"first", "best", "last"}
  PROVE  Chosen(m, chain, fits) \in fits
<1> DEFINE size(i) == m[chain[i]].size
<1>1. DOMAIN chain = 1..Len(chain) /\ Len(chain) \in Nat /\ fits \in SUBSET Nat
  BY Layout
<1>2. \A i \in fits : size(i) \in Nat
  <2> SUFFICES ASSUME NEW i \in fits PROVE size(i) \in Nat
    OBVIOUS
  <2>1. chain[i] \in H
    BY <1>1
  <2>2. size(i) \in 0..Top
    BY <2>1, BlockOf
  <2> QED
    BY <2>2, Layout
<1> HIDE DEF size
<1>3. CASE allocation_strategy.fit = "first"
  <2>1. \E i \in fits : \A j \in fits : i <= j
    BY <1>1, LeastNat
  <2>2. Chosen(m, chain, fits) = CHOOSE i \in fits : \A j \in fits : i <= j
    BY <1>3 DEF Chosen
  <2> QED
    BY <2>1, <2>2
<1>4. CASE allocation_strategy.fit = "best"
  <2> DEFINE sizes == {size(i) : i \in fits}
  <2>1. PICK a \in sizes : \A k \in sizes : a <= k
    <3>1. sizes \in SUBSET Nat /\ sizes # {}
      BY <1>2
    <3> HIDE DEF sizes
    <3> QED
      BY <3>1, LeastNat
  <2> DEFINE smallest == {i \in fits : size(i) = a}
  <2>2. PICK i \in smallest : \A j \in smallest : i <= j
    <3>1. smallest \in SUBSET Nat /\ smallest # {}
      BY <1>1, <2>1
    <3> HIDE DEF smallest
    <3> QED
      BY <3>1, LeastNat
  <2>3. i \in fits /\ \A j \in fits : size(i) < size(j) \/ (size(i) = size(j) /\ i <= j)
    <3>1. i \in fits /\ size(i) = a
      BY <2>2
    <3> SUFFICES ASSUME NEW j \in fits PROVE size(i) < size(j) \/ (size(i) = size(j) /\ i <= j)
      BY <3>1
    <3>2. a <= size(j) /\ a \in Nat /\ size(j) \in Nat
      BY <1>2, <2>1, <3>1
    <3>3. size(j) = a => i <= j
      BY <2>2
    <3> QED
      BY <3>1, <3>2, <3>3
  <2>4. Chosen(m, chain, fits) = CHOOSE k \in fits : \A j \in fits :
          size(k) < size(j) \/ (size(k) = size(j) /\ k <= j)
    BY <1>4 DEF Chosen, size
  <2> HIDE DEF sizes, smallest
  <2> QED
    BY <2>3, <2>4
<1>5. CASE allocation_strategy.fit = "last"
  <2> DEFINE back == {Len(chain) - i : i \in fits}
  <2>1. PICK a \in back : \A k \in back : a <= k
    <3>1. back \in SUBSET Nat /\ back # {}
      BY <1>1
    <3> HIDE DEF back
    <3> QED
      BY <3>1, LeastNat
  <2>2. PICK i \in fits : a = Len(chain) - i
    BY <2>1
  <2>3. \A j \in fits : i >= j
    <3> SUFFICES ASSUME NEW j \in fits PROVE i >= j
      OBVIOUS
    <3>1. a <= Len(chain) - j
      BY <2>1
    <3>2. i \in Nat /\ j \in Nat
      BY <1>1
    <3> QED
      BY <1>1, <2>2, <3>1, <3>2
  <2>4. Chosen(m, chain, fits) = CHOOSE k \in fits : \A j \in fits : k >= j
    BY <1>5 DEF Chosen
  <2> QED
    BY <2>3, <2>4
<1> QED
  BY <1>3, <1>4, <1>5

(* The size that a failed allocation reports is that of one of the blocks. *)
LEMMA LargestOf ==
  ASSUME NEW m, NEW H, NEW lk, Tiled(m, H, lk), NEW chain \in Seq(H),
         NEW free \in SUBSET DOMAIN chain, free # {}
  PROVE  \E n \in {m[chain[i]].size : i \in free} : \A i \in free : m[chain[i]].size <= n
<1> DEFINE size(i) == m[chain[i]].size
           less == {Top - size(i) : i \in free}
<1>1. \A i \in free : size(i) \in 0..Top
  <2> SUFFICES ASSUME NEW i \in free PROVE size(i) \in 0..Top
    OBVIOUS
  <2>1. chain[i] \in H
    OBVIOUS
  <2> QED
    BY <2>1, BlockOf
<1> HIDE DEF size
<1>2. less \in SUBSET Nat /\ less # {}
  BY <1>1, Layout
<1>3. PICK a \in less : \A k \in less : a <= k
  <2> HIDE DEF less
  <2> QED
    BY <1>2, LeastNat
<1>4. PICK i \in free : a = Top - size(i)
  BY <1>3
<1>5. \A j \in free : size(j) <= size(i)
  <2> SUFFICES ASSUME NEW j \in free PROVE size(j) <= size(i)
    OBVIOUS
  <2>1. a <= Top - size(j)
    BY <1>3
  <2>2. size(i) \in 0..Top /\ size(j) \in 0..Top
    BY <1>1
  <2> QED
    BY <1>4, <2>1, <2>2, Layout
<1> QED
  BY <1>5 DEF size

(* The block of s gets another owner.                                      *)
Passed(m, s, o) == [m EXCEPT ![s].psp = o]

IsPassed(m, H, lk, s, o, m1) ==
  /\ Tiled(m1, H, lk) /\ m1[s].psp = o /\ m1[s].size = m[s].size
  /\ \A h \in H : h # s => m1[h] = m[h]

LEMMA OwnerChanges ==
  ASSUME NEW m, NEW H, NEW lk, Tiled(m, H, lk), NEW s \in H, UmbActive => s # umb_start_seg,
         NEW o \in Owners
  PROVE  IsPassed(m, H, lk, s, o, Passed(m, s, o))
<1> DEFINE m1 == [m EXCEPT ![s].psp = o]
<1>1. s \in 0..Top /\ m[s] \in Block /\ m \in Memory /\ m[s].type \in {"M", "Z"}
  BY BlockOf DEF Tiled
<1>2. o # "none"
  BY ConstantsAssumption DEF Owners, MCB_FREE, MCB_DOS, LoadfixPsp
<1>3. [m[s] EXCEPT !.psp = o] \in Block
  BY <1>1, <1>2 DEF Block
<1>4. /\ m1 \in Memory /\ m1[s] = [m[s] EXCEPT !.psp = o]
      /\ \A h \in 0..Top : h # s => m1[h] = m[h]
  BY <1>1, <1>3 DEF Memory
<1>5. m1[s].type = m[s].type /\ m1[s].size = m[s].size /\ m1[s].psp = o
  BY <1>1, <1>4 DEF Block
<1>6. H \subseteq 0..Top /\ (UmbActive => umb_start_seg \in H /\ m[umb_start_seg].psp = MCB_DOS)
  BY DEF Tiled
<1>7. UmbActive => m1[umb_start_seg].psp = MCB_DOS
  BY <1>4, <1>6
<1>8. \A h \in H : m1[h].type = m[h].type /\ m1[h].size = m[h].size
  BY <1>4, <1>5, <1>6
<1>9. Tiled(m1, H, lk)
  <2> HIDE DEF m1
  <2> QED
    BY <1>4, <1>7, <1>8, SameTiling
<1>10. Passed(m, s, o) = m1
  BY DEF Passed
<1> HIDE DEF m1
<1> QED
  BY <1>4, <1>5, <1>6, <1>9, <1>10 DEF IsPassed

(* In m1 a process has the block of s, of size k, and what else is owned   *)
(* is as it was in m.                                                      *)
Gives(m, H, lk, m1, H1, s, k) ==
  /\ Tiled(m1, H1, lk) /\ OthersSame(m, H, m1, H1, s)
  /\ s \in H1 /\ m1[s].psp \in Procs /\ m1[s].size = k

LEMMA SplitHeadGives ==
  ASSUME NEW m, NEW H, NEW lk, Tiled(m, H, lk), NEW s \in H, UmbActive => s # umb_start_seg,
         NEW k \in Nat, k <= m[s].size, psp \in Procs
  PROVE  \E H1 : Gives(m, H, lk, SplitHead(m, s, k), H1, s, k)
<1> DEFINE m1 == SplitHead(m, s, k)
<1>1. psp \in Owners /\ MCB_FREE \in Owners /\ m[s].size \in 0..Top /\ s \in 0..Top /\ Top \in Nat
  BY ProcsAreOwners, BlockOf, Layout
<1>2. CASE m[s].size = k
  <2>1. m1 = Passed(m, s, psp)
    BY <1>2 DEF SplitHead, Passed
  <2> HIDE DEF m1
  <2>2. IsPassed(m, H, lk, s, psp, m1)
    BY <1>1, <2>1, OwnerChanges
  <2>3. Gives(m, H, lk, m1, H, s, k)
    BY <1>2, <2>2 DEF Gives, OthersSame, IsPassed
  <2> QED
    BY <2>3 DEF m1
<1>3. CASE m[s].size # k
  <2> DEFINE n == s + k + 1
  <2>1. m1 = SplitAt(m, s, k, psp, MCB_FREE)
    BY <1>3 DEF SplitHead, SplitAt
  <2>2. k < m[s].size
    BY <1>1, <1>3
  <2> HIDE DEF m1
  <2>3. IsSplit(m, H, lk, s, k, psp, MCB_FREE, m1, n)
    BY <1>1, <2>1, <2>2, SplitTiles
  <2>4. m[s].type \in {"M", "Z"} /\ m[s].size - k - 1 \in 0..Top /\ k \in 0..Top
    BY <1>1, <2>2 DEF Tiled
  <2>5. m1[s].psp = psp /\ m1[s].size = k /\ m1[n].psp = MCB_FREE
    BY <1>1, <2>3, <2>4, McbType DEF IsSplit
  <2> HIDE DEF n
  <2>6. OthersSame(m, H, m1, H \cup {n}, s)
    BY <2>3, <2>5 DEF OthersSame, IsSplit, Free
  <2>7. Gives(m, H, lk, m1, H \cup {n}, s, k)
    BY <2>3, <2>5, <2>6 DEF Gives, IsSplit
  <2> QED
    BY <2>7 DEF m1
<1> QED
  BY <1>2, <1>3

LEMMA SplitTailGives ==
  ASSUME NEW m, NEW H, NEW lk, Tiled(m, H, lk), NEW s \in H, UmbActive => s # umb_start_seg,
         Free(m, s), NEW k \in Nat, k <= m[s].size, psp \in Procs
  PROVE  /\ \E H1 : Gives(m, H, lk, SplitTail(m, s, k), H1, s + m[s].size - k, k)
         /\ s + m[s].size - k \in 0..Top
         /\ s + m[s].size - k \in H => Free(m, s + m[s].size - k)
<1> DEFINE m1 == SplitTail(m, s, k)
           n == s + m[s].size - k
<1>1. psp \in Owners /\ MCB_FREE \in Owners /\ m[s].size \in 0..Top /\ s \in 0..Top /\ Top \in Nat
  BY ProcsAreOwners, BlockOf, Layout
<1>2. CASE m[s].size = k
  <2>1. m1 = Passed(m, s, psp)
    BY <1>2 DEF SplitTail, Passed
  <2>2. n = s
    BY <1>1, <1>2
  <2> HIDE DEF m1, n
  <2>3. IsPassed(m, H, lk, s, psp, m1)
    BY <1>1, <2>1, OwnerChanges
  <2>4. Gives(m, H, lk, m1, H, s, k)
    BY <1>2, <2>3 DEF Gives, OthersSame, IsPassed
  <2>5. \E H1 : Gives(m, H, lk, m1, H1, n, k)
    BY <2>2, <2>4
  <2> QED
    BY <1>1, <2>2, <2>5 DEF m1, n
<1>3. CASE m[s].size # k
  <2> DEFINE j == m[s].size - k - 1
  <2>1. j \in Nat /\ j < m[s].size /\ n = s + j + 1 /\ j \in 0..Top
        /\ m[s].size - j - 1 = k /\ k \in 0..Top
    BY <1>1, <1>3
  <2>2. m1 = [m EXCEPT ![s] = Mcb("M", MCB_FREE, j), ![n] = Mcb(m[s].type, psp, k)]
    BY <1>3 DEF SplitTail
  <2> HIDE DEF m1, j, n
  <2>3. m1 = SplitAt(m, s, j, MCB_FREE, psp)
    BY <2>1, <2>2 DEF SplitAt
  <2>4. IsSplit(m, H, lk, s, j, MCB_FREE, psp, m1, n)
    BY <1>1, <2>1, <2>3, SplitTiles
  <2>5. m[s].type \in {"M", "Z"}
    BY DEF Tiled
  <2>6. m1[s] = Mcb("M", MCB_FREE, j) /\ m1[n] = Mcb(m[s].type, psp, k)
    BY <2>1, <2>4 DEF IsSplit
  <2>7. m1[s].psp = MCB_FREE /\ m1[n].psp = psp /\ m1[n].size = k
    BY <1>1, <2>1, <2>5, <2>6, McbType
  <2>8. OthersSame(m, H, m1, H \cup {n}, n)
    BY <2>4, <2>7 DEF OthersSame, IsSplit, Free
  <2>9. Gives(m, H, lk, m1, H \cup {n}, n, k)
    BY <2>4, <2>7, <2>8 DEF Gives, IsSplit
  <2>10. n \notin H /\ n \in 0..Top
    BY <2>4 DEF IsSplit
  <2> QED
    BY <2>9, <2>10 DEF m1, n
<1> QED
  BY <1>2, <1>3

(* A program is told of a block that nobody had.                           *)
LEMMA OwnedMore ==
  ASSUME NEW m, NEW H, NEW lk, NEW hd, Owned(m, H, hd), NEW m1, NEW H1, NEW s \in 0..Top,
         NEW k \in Nat, Gives(m, H, lk, m1, H1, s, k), s \in H => Free(m, s)
  PROVE  Owned(m1, H1, hd \cup {[seg |-> s + 1, size |-> k]})
<1> DEFINE b == [seg |-> s + 1, size |-> k]
           hd1 == hd \cup {b}
<1>1. b.seg = s + 1 /\ b.size = k /\ b.seg - 1 = s
  BY Layout
<1>2. /\ Tiled(m1, H1, lk) /\ OthersSame(m, H, m1, H1, s)
      /\ s \in H1 /\ m1[s].psp \in Procs /\ m1[s].size = k
  BY DEF Gives
<1>3. k \in 0..Top
  BY <1>2, BlockOf
<1>4. b \in [seg : 1..Top + 1, size : 0..Top]
  BY <1>3, Layout
<1>5. hd1 \subseteq [seg : 1..Top + 1, size : 0..Top] /\ b \in hd1
  BY <1>4 DEF Owned
<1>6. \A c \in hd : c.seg - 1 # s
  BY ProcsAreOwners DEF Owned, Free
<1> HIDE DEF b
<1>7. /\ \A c \in hd : c.seg - 1 # s => c \in hd1
      /\ \A c \in hd1 : c.seg - 1 # s => c \in hd
      /\ \A c \in hd1 : c.seg - 1 = s => c = b
  BY <1>1, <1>6
<1>8. b.size <= m1[s].size
  BY <1>1, <1>2
<1> HIDE DEF hd1
<1>9. Owned(m1, H1, hd1)
  BY <1>1, <1>2, <1>5, <1>7, <1>8, OwnedWith
<1> QED
  BY <1>9 DEF hd1, b

(* FailureIsFinal, of any memory.                                          *)
FinalFor(m, r) ==
  r # None =>
    /\ \A s \in McbsFrom(m, firstMCB) :
         m[s].type # "Z" => ~(Free(m, s) /\ Free(m, NextMcb(m, s)))
    /\ r > 0 => \E s \in McbsOf(m) : Free(m, s) /\ m[s].size = r

LEMMA AllocateKeeps ==
  ASSUME NEW H, Tiled(mem, H, linked), Owned(mem, H, held), Rest,
         NEW blocks \in Nat, DOS_AllocateMemory(blocks)
  PROVE  Kept /\ FinalFor(mem', reported') /\ reported' \in None..Top
<1> DEFINE m == DOS_CompressMemory(mem)
           chain == Searched(m)
           free == {i \in DOMAIN chain : Free(m, chain[i])}
           fits == {i \in free : m[chain[i]].size >= blocks}
           s == chain[Chosen(m, chain, fits)]
           seg == IF allocation_strategy.fit = "last"
                  THEN s + 1 + m[s].size - blocks ELSE s + 1
           split == IF allocation_strategy.fit = "last"
                    THEN SplitTail(m, s, blocks) ELSE SplitHead(m, s, blocks)
           largest == CHOOSE n \in {m[chain[i]].size : i \in free} :
                        \A i \in free : m[chain[i]].size <= n
<1>1. /\ linked' = linked
      /\ fits = {} => /\ mem' = m /\ held' = held
                      /\ reported' = IF free = {} THEN 0 ELSE largest
      /\ fits # {} => /\ mem' = split /\ held' = held \cup {[seg |-> seg, size |-> blocks]}
                      /\ reported' = None
  BY DEF DOS_AllocateMemory
<1>2. PICK H1 : /\ Tiled(m, H1, linked)
                /\ SameOwned(mem, H, m, H1)
                /\ \A h \in H1 : InChain(h, firstMCB, linked) /\ m[h].type # "Z" =>
                     ~(Free(m, h) /\ Free(m, NextMcb(m, h)))
  BY CompressTiles
<1> HIDE DEF m
<1>3. Owned(m, H1, held)
  BY <1>2, OwnedStays
<1>4. chain \in Seq(H1) /\ free \in SUBSET DOMAIN chain /\ fits \in SUBSET DOMAIN chain
  BY <1>2, SearchedIn
<1> HIDE DEF chain
<1>5. None = -1 /\ Top \in Nat
  BY Layout DEF None
<1>6. CASE fits = {}
  <2>1. mem' = m /\ held' = held /\ reported' = IF free = {} THEN 0 ELSE largest
    BY <1>1, <1>6
  <2>2. Kept
    BY <1>1, <1>2, <1>3, <2>1 DEF Kept
  <2>3. free # {} => \E i \in free : largest = m[chain[i]].size
    <3> SUFFICES ASSUME free # {} PROVE largest \in {m[chain[i]].size : i \in free}
      OBVIOUS
    <3>1. \E n \in {m[chain[i]].size : i \in free} : \A i \in free : m[chain[i]].size <= n
      <4> HIDE DEF free
      <4> QED
        BY <1>2, <1>4, LargestOf
    <3> HIDE DEF free
    <3> QED
      BY <3>1
  <2>4. free # {} => \E h \in H1 : Free(m, h) /\ m[h].size = largest
    <3> SUFFICES ASSUME free # {} PROVE \E h \in H1 : Free(m, h) /\ m[h].size = largest
      OBVIOUS
    <3> HIDE DEF largest
    <3>1. PICK i \in free : largest = m[chain[i]].size
      BY <2>3
    <3>2. chain[i] \in H1 /\ Free(m, chain[i])
      BY <1>4, <3>1
    <3> QED
      BY <3>1, <3>2
  <2> HIDE DEF largest, free, fits
  <2>5. firstMCB \in H1
    BY <1>2 DEF Tiled
  <2>6. McbsFrom(m, firstMCB) = {h \in H1 : InChain(h, firstMCB, linked)} /\ McbsOf(m) = H1
    BY <1>2, <2>5, ChainOf, McbsAre
  <2> DEFINE r == IF free = {} THEN 0 ELSE largest
  <2>7. r \in None..Top /\ (r > 0 => \E h \in H1 : Free(m, h) /\ m[h].size = r)
    <3>1. CASE free = {}
      BY <1>5, <3>1
    <3>2. CASE free # {}
      <4>1. PICK h \in H1 : Free(m, h) /\ m[h].size = largest
        BY <2>4, <3>2
      <4>2. largest \in 0..Top /\ r = largest
        BY <1>2, <3>2, <4>1, BlockOf
      <4>3. r \in None..Top
        BY <1>5, <4>2
      <4> QED
        BY <4>1, <4>2, <4>3
    <3> QED
      BY <3>1, <3>2
  <2>8. reported' = r
    BY <2>1
  <2> HIDE DEF r
  <2>9. FinalFor(m, r)
    BY <1>2, <2>6, <2>7 DEF FinalFor
  <2> QED
    BY <2>1, <2>2, <2>7, <2>8, <2>9
<1>7. CASE fits # {}
  <2>1. mem' = split /\ held' = held \cup {[seg |-> seg, size |-> blocks]} /\ reported' = None
    BY <1>1, <1>7
  <2>2. Chosen(m, chain, fits) \in fits
    <3>1. allocation_strategy.fit \in {"first", "best", "last"}
      BY DEF Rest
    <3> HIDE DEF fits
    <3> QED
      BY <1>2, <1>4, <1>7, <3>1, ChosenFits
  <2>3. s \in H1 /\ Free(m, s) /\ m[s].size >= blocks
    <3> DEFINE i == Chosen(m, chain, fits)
    <3>1. i \in fits
      BY <2>2
    <3>2. s = chain[i]
      OBVIOUS
    <3> HIDE DEF i, s
    <3>3. i \in DOMAIN chain /\ Free(m, chain[i]) /\ m[chain[i]].size >= blocks
      BY <3>1
    <3>4. chain[i] \in H1
      BY <1>4, <3>3
    <3> QED
      BY <3>2, <3>3, <3>4
  <2> HIDE DEF s, fits, free
  <2>4. UmbActive => s # umb_start_seg
    BY <1>2, <2>3, ProcsAreOwners DEF Tiled, Free
  <2>5. s \in 0..Top /\ m[s].size \in 0..Top /\ blocks <= m[s].size /\ psp \in Procs
    BY <1>2, <2>3, BlockOf DEF Rest
  <2>6. reported' \in None..Top /\ FinalFor(mem', reported')
    BY <1>5, <2>1 DEF FinalFor
  <2>7. CASE allocation_strategy.fit = "last"
    <3> DEFINE n == s + m[s].size - blocks
    <3>1. split = SplitTail(m, s, blocks)
      BY <2>7
    <3>2. seg = n + 1
      BY <2>5, <2>7
    <3>3. /\ \E H2 : Gives(m, H1, linked, SplitTail(m, s, blocks), H2, n, blocks)
          /\ n \in 0..Top
          /\ n \in H1 => Free(m, n)
      BY <1>2, <2>3, <2>4, <2>5, SplitTailGives
    <3> HIDE DEF split, n, seg
    <3>4. PICK H2 : Gives(m, H1, linked, split, H2, n, blocks)
      BY <3>1, <3>3
    <3>5. Owned(split, H2, held \cup {[seg |-> n + 1, size |-> blocks]})
      BY <1>3, <3>3, <3>4, OwnedMore
    <3>6. Tiled(split, H2, linked)
      BY <3>4 DEF Gives
    <3>7. held' = held \cup {[seg |-> n + 1, size |-> blocks]}
      BY <2>1, <3>2
    <3>8. Kept
      BY <1>1, <2>1, <3>5, <3>6, <3>7 DEF Kept
    <3> QED
      BY <2>6, <3>8
  <2>8. CASE allocation_strategy.fit # "last"
    <3>1. split = SplitHead(m, s, blocks) /\ seg = s + 1
      BY <2>8
    <3>2. \E H2 : Gives(m, H1, linked, SplitHead(m, s, blocks), H2, s, blocks)
      BY <1>2, <2>3, <2>4, <2>5, SplitHeadGives
    <3> HIDE DEF split, seg
    <3>3. PICK H2 : Gives(m, H1, linked, split, H2, s, blocks)
      BY <3>1, <3>2
    <3>4. Owned(split, H2, held \cup {[seg |-> s + 1, size |-> blocks]})
      BY <1>3, <2>3, <2>5, <3>3, OwnedMore
    <3>5. Tiled(split, H2, linked)
      BY <3>3 DEF Gives
    <3>6. held' = held \cup {[seg |-> s + 1, size |-> blocks]}
      BY <2>1, <3>1
    <3>7. Kept
      BY <1>1, <2>1, <3>4, <3>5, <3>6 DEF Kept
    <3> QED
      BY <2>6, <3>7
  <2> QED
    BY <2>7, <2>8
<1> QED
  BY <1>6, <1>7

-----------------------------------------------------------------------------
(* DOS_ResizeMemory.                                                       *)
LEMMA GivesCompressed ==
  ASSUME NEW m, NEW H, NEW lk, NEW m1, NEW H1, NEW s, NEW k, Gives(m, H, lk, m1, H1, s, k)
  PROVE  \E H2 : Gives(m, H, lk, DOS_CompressMemory(m1), H2, s, k)
<1>1. /\ Tiled(m1, H1, lk) /\ OthersSame(m, H, m1, H1, s)
      /\ s \in H1 /\ m1[s].psp \in Procs /\ m1[s].size = k
  BY DEF Gives
<1> DEFINE m2 == DOS_CompressMemory(m1)
<1>2. PICK H2 : Tiled(m2, H2, lk) /\ SameOwned(m1, H1, m2, H2)
  BY <1>1, CompressTiles
<1> HIDE DEF m2
<1>3. s \in H2 /\ m2[s] = m1[s]
  BY <1>1, <1>2, ProcsAreOwners DEF SameOwned, Free
<1>4. OthersSame(m, H, m2, H2, s)
  <2>1. ASSUME NEW h \in H, ~Free(m, h), h # s PROVE h \in H2 /\ m2[h] = m[h]
    <3>1. h \in H1 /\ m1[h] = m[h]
      BY <1>1, <2>1 DEF OthersSame
    <3>2. ~Free(m1, h)
      BY <2>1, <3>1 DEF Free
    <3> QED
      BY <1>2, <3>1, <3>2 DEF SameOwned
  <2>2. ASSUME NEW h \in H2, ~Free(m2, h), h # s PROVE h \in H /\ m2[h] = m[h]
    <3>1. h \in H1 /\ m2[h] = m1[h]
      BY <1>2, <2>2 DEF SameOwned
    <3>2. ~Free(m1, h)
      BY <2>2, <3>1 DEF Free
    <3> QED
      BY <1>1, <2>2, <3>1, <3>2 DEF OthersSame
  <2> QED
    BY <2>1, <2>2 DEF OthersSame
<1>5. Gives(m, H, lk, m2, H2, s, k)
  BY <1>1, <1>2, <1>3, <1>4 DEF Gives
<1> QED
  BY <1>5 DEF m2

(* The block takes in the free one behind it, and is then cut.             *)
LEMMA JoinGives ==
  ASSUME NEW m, NEW H, NEW lk, Tiled(m, H, lk), NEW s \in H, UmbActive => s # umb_start_seg,
         m[s].type # "Z", Free(m, NextMcb(m, s)), psp \in Procs
  PROVE  /\ NextMcb(m, s) \in H /\ m[s].size + m[NextMcb(m, s)].size + 1 \in 0..Top
         /\ Gives(m, H, lk, Join(m, s, psp), H \ {NextMcb(m, s)}, s, m[s].size + m[NextMcb(m, s)].size + 1)
         /\ Join(m, s, psp)[s].type = m[NextMcb(m, s)].type
<1> DEFINE n == NextMcb(m, s)
           m1 == Join(m, s, psp)
           k == m[s].size + m[n].size + 1
<1>1. psp \in Owners
  BY ProcsAreOwners
<1>2. IsJoin(m, H, lk, s, psp, m1, n)
  BY <1>1, JoinTiles
<1> HIDE DEF m1, n
<1>3. /\ n \in H /\ s < n /\ Tiled(m1, H \ {n}, lk) /\ k \in 0..Top
      /\ m1[s] = Mcb(m[n].type, psp, k) /\ \A h \in 0..Top : h # s => m1[h] = m[h]
  BY <1>2 DEF IsJoin
<1>4. m[n].type \in {"M", "Z"} /\ H \subseteq 0..Top /\ Free(m, n) /\ s # n
  <2>1. Free(m, n)
    BY DEF n
  <2>2. m[n].type \in {"M", "Z"} /\ H \subseteq 0..Top
    BY <1>3 DEF Tiled
  <2>3. s \in 0..Top
    BY <2>2
  <2> QED
    BY <1>3, <2>1, <2>2, <2>3
<1> HIDE DEF k
<1>5. m1[s].type = m[n].type /\ m1[s].psp = psp /\ m1[s].size = k
  BY <1>1, <1>3, <1>4, McbType
<1>6. OthersSame(m, H, m1, H \ {n}, s)
  BY <1>3, <1>4 DEF OthersSame
<1>7. Gives(m, H, lk, m1, H \ {n}, s, k)
  BY <1>3, <1>4, <1>5, <1>6 DEF Gives
<1> QED
  BY <1>3, <1>5, <1>7 DEF m1, n, k

Overwritten(x, t, o, z) == [x EXCEPT !.type = t, !.psp = o, !.size = z]

LEMMA BlockSet ==
  ASSUME NEW x \in Block, NEW t, NEW o, NEW z
  PROVE  Overwritten(x, t, o, z) = Mcb(t, o, z)
<1> DEFINE y == [x EXCEPT !.type = t, !.psp = o, !.size = z]
<1>1. y \in [type : {t}, psp : {o}, size : {z}]
  BY DEF Block
<1>2. Mcb(t, o, z) \in [type : {t}, psp : {o}, size : {z}]
  BY DEF Mcb
<1> HIDE DEF y
<1>3. y = Mcb(t, o, z)
  BY <1>1, <1>2
<1> QED
  BY <1>3 DEF y, Overwritten

(* What becomes of a block that is resized: the size that was asked for,   *)
(* or no less than it had.                                                 *)
LEMMA ResizedGives ==
  ASSUME NEW m, NEW H, NEW lk, Tiled(m, H, lk), NEW s \in H, m[s].psp \in Procs,
         NEW blocks \in Nat, psp \in Procs
  PROVE  \E H1, k : /\ Gives(m, H, lk, Resized(m, s, blocks), H1, s, k)
                    /\ k \in 0..Top /\ (k = blocks \/ k >= m[s].size)
<1> DEFINE n == NextMcb(m, s)
           total == m[s].size
           joined == IF m[s].type # "Z" /\ Free(m, n) THEN total + m[n].size + 1 ELSE total
           ending == IF m[s].type # "Z" THEN m[n].type ELSE m[s].type
           cut == [m EXCEPT ![s] = Mcb("M", psp, blocks),
                            ![s + blocks + 1] = Mcb(ending, MCB_FREE, joined - blocks - 1)]
<1>1. Resized(m, s, blocks) =
        CASE blocks = total -> m
          [] blocks < total -> DOS_CompressMemory(SplitHead(m, s, blocks))
          [] blocks > total /\ blocks < joined -> DOS_CompressMemory(cut)
          [] blocks > total /\ blocks >= joined -> Grown(m, s, joined)
  BY DEF Resized
<1>2. UmbActive => s # umb_start_seg
  BY ProcsAreOwners DEF Tiled
<1>3. /\ total \in 0..Top /\ Top \in Nat /\ total \in Nat /\ s \in 0..Top /\ m[s] \in Block /\ m \in Memory
      /\ psp \in Owners /\ MCB_FREE \in Owners
  <2>1. total \in 0..Top /\ s \in 0..Top /\ m[s] \in Block
    BY BlockOf
  <2>2. m \in Memory
    BY DEF Tiled
  <2>3. psp \in Owners /\ MCB_FREE \in Owners
    BY ProcsAreOwners
  <2>4. Top \in Nat
    BY Layout
  <2> QED
    BY <2>1, <2>2, <2>3, <2>4
<1>4. ASSUME m[s].type # "Z", Free(m, n)
      PROVE  /\ n \in H /\ joined = total + m[n].size + 1 /\ joined \in 0..Top /\ m[n].size \in 0..Top
             /\ Gives(m, H, lk, Join(m, s, psp), H \ {n}, s, joined)
             /\ Join(m, s, psp)[s].type = m[n].type
  <2>1. joined = total + m[n].size + 1
    BY <1>4
  <2>2. /\ n \in H /\ total + m[n].size + 1 \in 0..Top
        /\ Gives(m, H, lk, Join(m, s, psp), H \ {n}, s, total + m[n].size + 1)
        /\ Join(m, s, psp)[s].type = m[n].type
    BY <1>2, <1>4, JoinGives
  <2>3. m[n].size \in 0..Top
    BY <2>2, BlockOf
  <2> QED
    BY <2>1, <2>2, <2>3
<1>5. CASE blocks = total
  <2>1. Resized(m, s, blocks) = m
    BY <1>1, <1>5
  <2>2. Gives(m, H, lk, m, H, s, total)
    BY DEF Gives, OthersSame
  <2> QED
    BY <1>3, <1>5, <2>1, <2>2
<1>6. CASE blocks < total
  <2>1. Resized(m, s, blocks) = DOS_CompressMemory(SplitHead(m, s, blocks))
    BY <1>1, <1>3, <1>6
  <2>2. blocks <= m[s].size /\ blocks \in 0..Top
    BY <1>3, <1>6
  <2>3. PICK H1 : Gives(m, H, lk, SplitHead(m, s, blocks), H1, s, blocks)
    BY <1>2, <2>2, SplitHeadGives
  <2>4. \E H2 : Gives(m, H, lk, DOS_CompressMemory(SplitHead(m, s, blocks)), H2, s, blocks)
    BY <2>3, GivesCompressed
  <2> QED
    BY <2>1, <2>2, <2>4
<1>7. CASE blocks > total /\ blocks < joined
  <2>1. m[s].type # "Z" /\ Free(m, n)
    BY <1>3, <1>7
  <2>2. /\ n \in H /\ joined = total + m[n].size + 1 /\ joined \in 0..Top
        /\ Gives(m, H, lk, Join(m, s, psp), H \ {n}, s, joined)
        /\ Join(m, s, psp)[s].type = m[n].type
    BY <1>4, <2>1
  <2>3. Resized(m, s, blocks) = DOS_CompressMemory(cut) /\ ending = m[n].type
    <3> HIDE DEF joined, cut
    <3>1. blocks # total /\ ~(blocks < total)
      BY <1>3, <1>7
    <3>2. joined \in 0..Top
      BY <2>2
    <3>3. ~(blocks >= joined)
      BY <1>3, <1>7, <3>2
    <3>4. Resized(m, s, blocks) = DOS_CompressMemory(cut)
      BY <1>1, <1>7, <3>1, <3>3
    <3> QED
      BY <2>1, <3>4
  <2> DEFINE j == Join(m, s, psp)
             c == SplitAt(j, s, blocks, psp, MCB_FREE)
  <2>4. Tiled(j, H \ {n}, lk) /\ s \in H \ {n} /\ j[s].size = joined /\ OthersSame(m, H, j, H \ {n}, s)
    BY <2>2 DEF Gives
  <2>5. c = cut
    <3>1. /\ c = [j EXCEPT ![s] = Mcb("M", psp, blocks),
                           ![s + blocks + 1] = Mcb(j[s].type, MCB_FREE, j[s].size - blocks - 1)]
          /\ j = [m EXCEPT ![s] = Mcb(m[n].type, psp, total + m[n].size + 1)]
      BY DEF SplitAt, Join
    <3>2. j[s].type = ending /\ j[s].size = joined
      BY <2>2, <2>3, <2>4
    <3> DEFINE x == Mcb("M", psp, blocks)
               y == Mcb(ending, MCB_FREE, joined - blocks - 1)
               z == Mcb(m[n].type, psp, total + m[n].size + 1)
    <3>3. c = [j EXCEPT ![s] = x, ![s + blocks + 1] = y] /\ j = [m EXCEPT ![s] = z]
      BY <3>1, <3>2
    <3>4. cut = [m EXCEPT ![s] = x, ![s + blocks + 1] = y]
      OBVIOUS
    <3> HIDE DEF x, y, z, c, j, cut
    <3> QED
      BY <1>3, <3>3, <3>4 DEF Memory
  <2>6. joined \in Nat /\ blocks < j[s].size
    BY <1>3, <1>7, <2>2, <2>4
  <2> HIDE DEF c, j, cut, joined, ending
  <2>7. IsSplit(j, H \ {n}, lk, s, blocks, psp, MCB_FREE, c, s + blocks + 1)
    BY <1>2, <1>3, <2>4, <2>6, SplitTiles DEF c
  <2> DEFINE e == s + blocks + 1
             H1 == (H \ {n}) \cup {e}
  <2>8. j[s].type \in {"M", "Z"} /\ j[s].size - blocks - 1 \in 0..Top /\ blocks \in 0..Top
    <3>1. j[s].type \in {"M", "Z"}
      BY <2>4 DEF Tiled
    <3>2. joined \in 0..Top
      BY <2>2
    <3> QED
      BY <1>3, <2>4, <2>6, <3>1, <3>2
  <2>9. c[s].psp = psp /\ c[s].size = blocks /\ c[e].psp = MCB_FREE
    BY <1>3, <2>7, <2>8, McbType DEF IsSplit
  <2> HIDE DEF e
  <2>10. Tiled(c, H1, lk) /\ \A h \in H \ {n} : h # s => c[h] = j[h]
    BY <2>7 DEF IsSplit, e
  <2>11. OthersSame(m, H, c, H1, s)
    BY <2>4, <2>9, <2>10 DEF OthersSame, Free
  <2>12. Gives(m, H, lk, c, H1, s, blocks)
    BY <2>4, <2>9, <2>10, <2>11 DEF Gives
  <2> HIDE DEF H1
  <2>13. \E H2 : Gives(m, H, lk, DOS_CompressMemory(c), H2, s, blocks)
    BY <2>12, GivesCompressed
  <2> QED
    BY <2>3, <2>5, <2>8, <2>13
<1>8. CASE blocks > total /\ blocks >= joined
  <2>1. Resized(m, s, blocks) = Grown(m, s, joined)
    <3> HIDE DEF joined, cut
    <3>1. blocks # total /\ ~(blocks < total)
      BY <1>3, <1>8
    <3>2. joined \in Int
      BY <1>3, <1>4 DEF joined
    <3>3. ~(blocks < joined)
      BY <1>8, <3>2
    <3> QED
      BY <1>1, <1>8, <3>1, <3>3
  <2>2. CASE m[s].type # "Z" /\ Free(m, n)
    <3>1. /\ n \in H /\ joined = total + m[n].size + 1 /\ joined \in 0..Top /\ m[n].size \in 0..Top
          /\ Gives(m, H, lk, Join(m, s, psp), H \ {n}, s, joined)
      BY <1>4, <2>2
    <3>2. Grown(m, s, joined) = [m EXCEPT ![s] = [@ EXCEPT !.type = m[n].type, !.psp = psp, !.size = joined]]
      BY <1>3, <2>2 DEF Grown, Memory
    <3>3. [m[s] EXCEPT !.type = m[n].type, !.psp = psp, !.size = joined] = Mcb(m[n].type, psp, joined)
      <4>1. Overwritten(m[s], m[n].type, psp, joined) = Mcb(m[n].type, psp, joined)
        <5> HIDE DEF joined, n
        <5> QED
          BY <1>3, BlockSet
      <4> QED
        BY <4>1 DEF Overwritten
    <3>4. Join(m, s, psp) = [m EXCEPT ![s] = Mcb(m[n].type, psp, joined)]
      BY <3>1 DEF Join
    <3>5. Grown(m, s, joined) = Join(m, s, psp)
      BY <3>2, <3>3, <3>4
    <3>6. joined >= total
      BY <1>3, <3>1
    <3> HIDE DEF joined
    <3> QED
      BY <2>1, <3>1, <3>5, <3>6
  <2>3. CASE ~(m[s].type # "Z" /\ Free(m, n))
    <3>1. joined = total
      BY <2>3
    <3>2. Grown(m, s, total) = [m EXCEPT ![s] = [@ EXCEPT !.type = m[s].type, !.psp = psp, !.size = total]]
      BY <1>3, <2>3 DEF Grown, Memory
    <3>3. [m[s] EXCEPT !.type = m[s].type, !.psp = psp, !.size = total] = [m[s] EXCEPT !.psp = psp]
      BY <1>3 DEF Block
    <3>4. Grown(m, s, total) = Passed(m, s, psp)
      BY <3>2, <3>3 DEF Passed
    <3> DEFINE g == Grown(m, s, total)
    <3>5. IsPassed(m, H, lk, s, psp, g)
      BY <1>2, <1>3, <3>4, OwnerChanges
    <3> HIDE DEF g
    <3>6. Gives(m, H, lk, g, H, s, total)
      BY <3>5 DEF Gives, OthersSame, IsPassed
    <3> HIDE DEF joined
    <3> QED
      BY <1>3, <2>1, <3>1, <3>6 DEF g
  <2> QED
    BY <2>2, <2>3
<1>9. joined \in Int
  BY <1>3, <1>4
<1> QED
  BY <1>3, <1>5, <1>6, <1>7, <1>8, <1>9

LEMMA ResizeKeeps ==
  ASSUME NEW H, Tiled(mem, H, linked), Owned(mem, H, held), psp \in Procs,
         NEW b \in held, NEW blocks \in Nat, DOS_ResizeMemory(b, blocks)
  PROVE  Kept
<1> DEFINE m == DOS_CompressMemory(mem)
           s == b.seg - 1
           m1 == Resized(m, s, blocks)
           c == [seg |-> b.seg, size |-> blocks]
           hd == IF m1[s].size = blocks THEN (held \ {b}) \cup {c} ELSE held
<1>1. mem' = m1 /\ held' = hd /\ linked' = linked
  BY DEF DOS_ResizeMemory
<1>2. PICK H1 : Tiled(m, H1, linked) /\ SameOwned(mem, H, m, H1)
  BY CompressTiles
<1> HIDE DEF m
<1>3. Owned(m, H1, held)
  BY <1>2, OwnedStays
<1>4. /\ s \in H1 /\ m[s].psp \in Procs /\ m[s].size >= b.size
      /\ b \in [seg : 1..Top + 1, size : 0..Top] /\ held \subseteq [seg : 1..Top + 1, size : 0..Top]
  BY <1>3 DEF Owned
<1>5. PICK H2, k : Gives(m, H1, linked, m1, H2, s, k) /\ k \in 0..Top /\ (k = blocks \/ k >= m[s].size)
  BY <1>2, <1>4, ResizedGives
<1> HIDE DEF m1
<1>6. /\ Tiled(m1, H2, linked) /\ OthersSame(m, H1, m1, H2, s)
      /\ s \in H2 /\ m1[s].psp \in Procs /\ m1[s].size = k
  BY <1>5 DEF Gives
<1>7. m[s].size \in Nat /\ Top \in Nat
  BY <1>2, <1>4, BlockOf, Layout
<1>8. \A d \in held : d.seg - 1 = s => d = b
  <2> SUFFICES ASSUME NEW d \in held, d.seg - 1 = s PROVE d = b
    OBVIOUS
  <2>1. d.seg = b.seg
    BY <1>4, <1>7
  <2> QED
    BY <1>3, <2>1 DEF Owned
<1>9. \E d \in hd : /\ d.seg - 1 = s /\ d.size <= m1[s].size
                    /\ \A e \in hd : e.seg - 1 = s => e = d
  <2>1. CASE k = blocks
    <3>1. hd = (held \ {b}) \cup {c} /\ c.seg = b.seg /\ c.size = blocks
      BY <1>6, <2>1
    <3> HIDE DEF hd, c
    <3>2. c \in hd /\ c.seg - 1 = s /\ c.size <= m1[s].size
      BY <1>6, <2>1, <3>1
    <3>3. \A e \in hd : e.seg - 1 = s => e = c
      BY <1>8, <3>1
    <3> QED
      BY <3>2, <3>3
  <2>2. CASE k # blocks
    <3>1. hd = held
      BY <1>6, <2>2
    <3> HIDE DEF hd
    <3>2. b.size <= m1[s].size
      BY <1>4, <1>5, <1>6, <1>7, <2>2
    <3> QED
      BY <1>8, <3>1, <3>2
  <2> QED
    BY <2>1, <2>2
<1>10. /\ hd \subseteq [seg : 1..Top + 1, size : 0..Top]
       /\ \A d \in held : d.seg - 1 # s => d \in hd
       /\ \A d \in hd : d.seg - 1 # s => d \in held
  <2>1. CASE k = blocks
    <3>1. c \in [seg : 1..Top + 1, size : 0..Top] /\ c.seg - 1 = s
      BY <1>4, <1>5, <2>1
    <3>2. hd = (held \ {b}) \cup {c}
      BY <1>6, <2>1
    <3> HIDE DEF hd, c
    <3>3. hd \subseteq [seg : 1..Top + 1, size : 0..Top]
      BY <1>4, <3>1, <3>2, Zenon
    <3>4. \A d \in held : d.seg - 1 # s => d \in hd
      BY <3>2, Zenon DEF s
    <3>5. \A d \in hd : d.seg - 1 # s => d \in held
      BY <3>1, <3>2, Zenon
    <3> QED
      BY <3>3, <3>4, <3>5
  <2>2. CASE k # blocks
    BY <1>4, <1>6, <2>2
  <2> QED
    BY <2>1, <2>2
<1> HIDE DEF hd, s
<1>11. PICK d \in hd : /\ d.seg - 1 = s /\ d.size <= m1[s].size
                       /\ \A e \in hd : e.seg - 1 = s => e = d
  BY <1>9
<1>12. Owned(m1, H2, hd)
  BY <1>3, <1>6, <1>10, <1>11, OwnedWith
<1> QED
  BY <1>1, <1>6, <1>12 DEF Kept

-----------------------------------------------------------------------------
(* DOS_SetupMemory and DOS_BuildUMBChain lay out a tiling.                 *)
LEMMA InitKeeps ==
  ASSUME Init
  PROVE  Inv
<1> DEFINE H == {0, 2, 4, 6} \cup (IF UmbActive THEN {umb_start_seg, FirstUmb} ELSE {})
<1>1. /\ firstMCB = 0 /\ TempMcb = 2 /\ LockMcb = 4 /\ MainMcb = 6
      /\ Top \in Nat /\ umb_start_seg \in Nat /\ 6 < umb_start_seg /\ umb_start_seg = 6 + LowSize + 1
      /\ LowSize \in Nat /\ LowSize <= Top /\ 6 <= Top
      /\ UmbActive => /\ umb_start_seg <= Top
                      /\ FirstUmb \in Nat /\ FirstUmb = umb_start_seg + CoverSize + 1 /\ FirstUmb <= Top
                      /\ FirstUmb + UmbSize + 1 = Top + 1 /\ umb_start_seg < FirstUmb
                      /\ CoverSize \in 0..Top /\ UmbSize \in 0..Top
      /\ ~UmbActive => umb_start_seg = Top + 1
  BY Layout, ConstantsAssumption DEF TempMcb, LockMcb, LowEnd
<1>2. FirstUmb \in Nat /\ umb_start_seg < FirstUmb
  BY <1>1, ConstantsAssumption DEF FirstUmb
<1>3. /\ Mcb("M", MCB_DOS, 1) \in Block /\ Mcb("M", MCB_FREE, 1) \in Block
      /\ Mcb("M", LoadfixPsp, 1) \in Block /\ Mcb("Z", MCB_FREE, LowSize) \in Block
      /\ NoMcb \in Block
      /\ UmbActive => Mcb("M", MCB_DOS, CoverSize) \in Block /\ Mcb("Z", MCB_FREE, UmbSize) \in Block
  <2>1. MCB_DOS \in Owners /\ MCB_FREE \in Owners /\ LoadfixPsp \in Owners /\ 1 \in 0..Top /\ LowSize \in 0..Top
    BY <1>1 DEF Owners
  <2>2. NoMcb \in Block
    BY <1>1 DEF NoMcb, Mcb, Block
  <2>3. UmbActive => CoverSize \in 0..Top /\ UmbSize \in 0..Top
    BY <1>1
  <2> QED
    BY <2>1, <2>2, <2>3, McbType
<1>4. /\ DOMAIN mem = 0..Top
      /\ mem[0] = Mcb("M", MCB_DOS, 1) /\ mem[2] = Mcb("M", MCB_FREE, 1)
      /\ mem[4] = Mcb("M", LoadfixPsp, 1) /\ mem[6] = Mcb("Z", MCB_FREE, LowSize)
      /\ UmbActive => /\ mem[umb_start_seg] = Mcb("M", MCB_DOS, CoverSize)
                      /\ mem[FirstUmb] = Mcb("Z", MCB_FREE, UmbSize)
      /\ \A s \in 0..Top \ H : mem[s] = NoMcb
  <2> DEFINE v(s) == CASE s = firstMCB -> Mcb("M", MCB_DOS, 1)
                       [] s = TempMcb -> Mcb("M", MCB_FREE, 1)
                       [] s = LockMcb -> Mcb("M", LoadfixPsp, 1)
                       [] s = MainMcb -> Mcb("Z", MCB_FREE, LowSize)
                       [] s = umb_start_seg -> Mcb("M", MCB_DOS, CoverSize)
                       [] s = FirstUmb -> Mcb("Z", MCB_FREE, UmbSize)
                       [] OTHER -> NoMcb
  <2>1. mem = [s \in 0..Top |-> v(s)]
    BY DEF Init
  <2>2. /\ v(0) = Mcb("M", MCB_DOS, 1) /\ v(2) = Mcb("M", MCB_FREE, 1)
        /\ v(4) = Mcb("M", LoadfixPsp, 1) /\ v(6) = Mcb("Z", MCB_FREE, LowSize)
    BY <1>1, <1>2
  <2>3. /\ v(umb_start_seg) = Mcb("M", MCB_DOS, CoverSize)
        /\ v(FirstUmb) = Mcb("Z", MCB_FREE, UmbSize)
    BY <1>1, <1>2
  <2>4. ASSUME NEW s \in 0..Top \ H PROVE v(s) = NoMcb
    <3>1. s # 0 /\ s # 2 /\ s # 4 /\ s # 6
      OBVIOUS
    <3>2. s # umb_start_seg /\ s # FirstUmb
      BY <1>1, <1>2
    <3> QED
      BY <1>1, <3>1, <3>2
  <2> HIDE DEF v
  <2> QED
    BY <1>1, <2>1, <2>2, <2>3, <2>4
<1>5. mem \in Memory
  <2>1. ASSUME NEW s \in 0..Top PROVE mem[s] \in Block
    BY <1>3, <1>4
  <2>2. mem = [s \in 0..Top |-> mem[s]]
    BY <1>4 DEF Init
  <2> QED
    BY <2>1, <2>2 DEF Memory
<1>6. /\ NextMcb(mem, 0) = 2 /\ NextMcb(mem, 2) = 4 /\ NextMcb(mem, 4) = 6
      /\ NextMcb(mem, 6) = umb_start_seg
      /\ UmbActive => NextMcb(mem, umb_start_seg) = FirstUmb /\ NextMcb(mem, FirstUmb) = Top + 1
  <2>1. mem[0].size = 1 /\ mem[2].size = 1 /\ mem[4].size = 1 /\ mem[6].size = LowSize
    BY <1>4 DEF Mcb
  <2>2. UmbActive => mem[umb_start_seg].size = CoverSize /\ mem[FirstUmb].size = UmbSize
    BY <1>4 DEF Mcb
  <2>3. NextMcb(mem, 0) = 2 /\ NextMcb(mem, 2) = 4 /\ NextMcb(mem, 4) = 6
    BY <2>1 DEF NextMcb
  <2>4. NextMcb(mem, 6) = umb_start_seg
    BY <1>1, <2>1 DEF NextMcb
  <2>5. UmbActive => NextMcb(mem, umb_start_seg) = FirstUmb /\ NextMcb(mem, FirstUmb) = Top + 1
    BY <1>1, <2>2 DEF NextMcb
  <2> QED
    BY <2>3, <2>4, <2>5
<1>7. /\ mem[0].type = "M" /\ mem[2].type = "M" /\ mem[4].type = "M" /\ mem[6].type = "Z"
      /\ UmbActive => mem[umb_start_seg].type = "M" /\ mem[FirstUmb].type = "Z"
      /\ UmbActive => mem[umb_start_seg].psp = MCB_DOS
  BY <1>4 DEF Mcb
<1>8. /\ mem[0].psp \notin Procs /\ mem[2].psp \notin Procs /\ mem[4].psp \notin Procs
      /\ mem[6].psp \notin Procs
      /\ UmbActive => mem[umb_start_seg].psp \notin Procs /\ mem[FirstUmb].psp \notin Procs
  BY <1>4, ConstantsAssumption DEF Mcb, MCB_FREE, MCB_DOS, LoadfixPsp
<1>9. Tiled(mem, H, FALSE)
  <2>1. H \subseteq 0..Top /\ firstMCB \in H /\ (UmbActive => umb_start_seg \in H)
    BY <1>1
  <2>2. \A h \in H : mem[h].type \in {"M", "Z"}
    BY <1>7
  <2>3. \A h \in H : NextMcb(mem, h) \in H \cup {Top + 1}
    BY <1>1, <1>6
  <2>4. \A h, k \in H : h < k => NextMcb(mem, h) <= k
    BY <1>1, <1>6
  <2>5. \A h \in H : mem[h].type = "Z" <=> Ends(NextMcb(mem, h), FALSE)
    BY <1>1, <1>6, <1>7 DEF Ends
  <2> HIDE DEF H
  <2> QED
    BY <1>5, <1>7, <2>1, <2>2, <2>3, <2>4, <2>5 DEF Tiled
<1>10. Owned(mem, H, {})
  <2>1. \A h \in H : mem[h].psp \notin Procs
    BY <1>8
  <2> HIDE DEF H
  <2> QED
    BY <2>1 DEF Owned
<1> HIDE DEF H
<1>11. linked = FALSE /\ held = {} /\ reported = None
  BY DEF Init
<1>12. Rest /\ FailureIsFinal
  <2>1. FailureIsFinal
    BY <1>11 DEF FailureIsFinal
  <2>2. None \in None..Top
    BY <1>1 DEF None
  <2>3. /\ allocation_strategy \in [fit : {"first", "best", "last"}, chains : {"low", "high", "high_first"}]
        /\ psp \in Procs
    BY DEF Init
  <2> QED
    BY <1>11, <2>1, <2>2, <2>3 DEF Rest
<1> QED
  BY <1>9, <1>10, <1>11, <1>12 DEF Inv

(* Every call keeps the invariant.                                         *)
LEMMA NextKeeps ==
  ASSUME Inv, [Next]_vars
  PROVE  Inv'
<1>1. PICK H : Tiled(mem, H, linked) /\ Owned(mem, H, held)
  BY DEF Inv
<1>2. Rest /\ psp \in Procs /\ linked \in BOOLEAN /\ FailureIsFinal
  BY DEF Inv, Rest
<1>3. None \in None..Top
  BY Layout DEF None
<1>4. ASSUME Kept, reported' = None, psp' \in Procs, linked' \in BOOLEAN, linked' => UmbActive,
             allocation_strategy' \in [fit : {"first", "best", "last"}, chains : {"low", "high", "high_first"}]
      PROVE  Inv'
  <2>1. Rest'
    BY <1>3, <1>4 DEF Rest
  <2>2. FailureIsFinal'
    BY <1>4 DEF FailureIsFinal
  <2> QED
    BY <1>4, <2>1, <2>2 DEF Inv, Kept
<1>5. ASSUME UNCHANGED <<linked, allocation_strategy, psp>>
      PROVE  /\ psp' \in Procs /\ linked' \in BOOLEAN /\ (linked' => UmbActive)
             /\ allocation_strategy' \in [fit : {"first", "best", "last"}, chains : {"low", "high", "high_first"}]
  BY <1>2, <1>5 DEF Rest
<1>6. CASE \E blocks \in Requests : DOS_AllocateMemory(blocks)
  <2>1. PICK blocks \in Requests : DOS_AllocateMemory(blocks)
    BY <1>6
  <2>2. Kept /\ FinalFor(mem', reported') /\ reported' \in None..Top
    BY <1>1, <1>2, <2>1, ConstantsAssumption, AllocateKeeps
  <2>3. UNCHANGED <<linked, allocation_strategy, psp>>
    BY <2>1 DEF DOS_AllocateMemory
  <2>4. Rest'
    BY <1>5, <2>2, <2>3 DEF Rest
  <2>5. FailureIsFinal'
    BY <2>2 DEF FinalFor, FailureIsFinal, McbsOf, Mcbs
  <2> QED
    BY <2>2, <2>4, <2>5 DEF Inv, Kept
<1>7. CASE \E b \in held, blocks \in Requests : DOS_ResizeMemory(b, blocks)
  <2>1. PICK b \in held, blocks \in Requests : DOS_ResizeMemory(b, blocks)
    BY <1>7
  <2>2. Kept
    BY <1>1, <1>2, <2>1, ConstantsAssumption, ResizeKeeps
  <2>3. UNCHANGED <<linked, allocation_strategy, psp>> /\ reported' = None
    BY <2>1 DEF DOS_ResizeMemory
  <2> QED
    BY <1>4, <1>5, <2>2, <2>3
<1>8. CASE \E b \in held : DOS_FreeMemory(b)
  <2>1. PICK b \in held : DOS_FreeMemory(b)
    BY <1>8
  <2>2. Kept
    BY <1>1, <2>1, FreeKeeps
  <2>3. UNCHANGED <<linked, allocation_strategy, psp>> /\ reported' = None
    BY <2>1 DEF DOS_FreeMemory
  <2> QED
    BY <1>4, <1>5, <2>2, <2>3
<1>9. CASE \E owner \in Procs \cup {LoadfixPsp} : DOS_FreeProcessMemory(owner)
  <2>1. PICK owner \in Procs \cup {LoadfixPsp} : DOS_FreeProcessMemory(owner)
    BY <1>9
  <2>2. Kept
    BY <1>1, <2>1, FreeProcessKeeps
  <2>3. UNCHANGED <<linked, allocation_strategy, psp>> /\ reported' = None
    BY <2>1 DEF DOS_FreeProcessMemory
  <2> QED
    BY <1>4, <1>5, <2>2, <2>3
<1>10. CASE \E strategy \in Strategies : DOS_SetMemAllocStrategy(strategy)
  <2>1. PICK strategy \in Strategies : DOS_SetMemAllocStrategy(strategy)
    BY <1>10
  <2>2. /\ UNCHANGED <<mem, linked, psp, held>> /\ allocation_strategy' = strategy /\ reported' = None
    BY <2>1 DEF DOS_SetMemAllocStrategy
  <2>3. Kept
    BY <1>1, <2>2, StrategyAndPspKeep
  <2>4. strategy \in [fit : {"first", "best", "last"}, chains : {"low", "high", "high_first"}]
    BY ConstantsAssumption
  <2> QED
    BY <1>2, <1>4, <2>2, <2>3, <2>4 DEF Rest
<1>11. CASE \E link \in BOOLEAN : DOS_LinkUMBsToMemChain(link)
  <2>1. PICK link \in BOOLEAN : DOS_LinkUMBsToMemChain(link)
    BY <1>11
  <2>2. Kept
    BY <1>1, <1>2, <2>1, LinkKeeps
  <2>3. /\ UmbActive /\ linked' = link /\ reported' = None
        /\ UNCHANGED <<allocation_strategy, psp>>
    BY <2>1 DEF DOS_LinkUMBsToMemChain
  <2> QED
    BY <1>2, <1>4, <2>2, <2>3 DEF Rest
<1>12. CASE \E p \in Procs : SetPsp(p)
  <2>1. PICK p \in Procs : SetPsp(p)
    BY <1>12
  <2>2. UNCHANGED <<mem, linked, allocation_strategy, held>> /\ psp' = p /\ reported' = None
    BY <2>1 DEF SetPsp
  <2>3. Kept
    BY <1>1, <2>2, StrategyAndPspKeep
  <2> QED
    BY <1>2, <1>4, <2>2, <2>3 DEF Rest
<1>13. CASE UNCHANGED vars
  <2>1. UNCHANGED <<mem, linked, held>> /\ UNCHANGED <<allocation_strategy, psp, reported>>
    BY <1>13 DEF vars
  <2>2. Kept
    BY <1>1, <2>1, StrategyAndPspKeep
  <2>3. Rest'
    BY <1>2, <2>1 DEF Rest
  <2>4. FailureIsFinal'
    BY <1>2, <2>1 DEF FailureIsFinal, Mcbs
  <2> QED
    BY <2>2, <2>3, <2>4 DEF Inv, Kept
<1> QED
  BY <1>6, <1>7, <1>8, <1>9, <1>10, <1>11, <1>12, <1>13 DEF Next

(* The MCBs of both chains tile memory, and what has an owner is exactly   *)
(* what programs hold, after any sequence of calls.                        *)
THEOREM MemoryInvariant == Spec => []Inv
<1>1. Init => Inv
  BY InitKeeps
<1>2. Inv /\ [Next]_vars => Inv'
  BY NextKeeps
<1> QED
  BY <1>1, <1>2, PTL DEF Spec

LEMMA TilingTiles ==
  ASSUME NEW H, Tiled(mem, H, linked), Owned(mem, H, held), Rest
  PROVE  ChainsTile
<1>1. Mcbs = H
  BY McbsAre DEF McbsOf, Mcbs
<1>2. /\ mem \in Memory /\ H \subseteq 0..Top /\ DOMAIN mem = 0..Top /\ firstMCB \in H
      /\ UmbActive => umb_start_seg \in H
  BY DEF Tiled, Memory
<1>3. TypeOK
  <2>1. \A s \in 0..Top : mem[s] \in Block
    BY <1>2 DEF Memory
  <2>2. mem \in [0..Top -> [type : {"M", "Z", "none"},
                            psp : Procs \cup {MCB_FREE, MCB_DOS, LoadfixPsp, "none"},
                            size : 0..Top]]
    <3>1. Block \subseteq [type : {"M", "Z", "none"},
                           psp : Procs \cup {MCB_FREE, MCB_DOS, LoadfixPsp, "none"}, size : 0..Top]
      <4>1. Owners \cup {"none"} = Procs \cup {MCB_FREE, MCB_DOS, LoadfixPsp, "none"}
        BY DEF Owners
      <4> QED
        BY <4>1 DEF Block
    <3> QED
      BY <1>2, <3>1 DEF Memory
  <2>3. \A s \in 0..Top : mem[s].type = "none" <=> mem[s].psp = "none"
    BY <2>1 DEF Block
  <2>4. held \subseteq [seg : 1..Top + 1, size : 0..Top]
    BY DEF Owned
  <2> QED
    BY <2>2, <2>3, <2>4 DEF TypeOK, Rest
<1>4. ASSUME NEW s \in H
      PROVE  \E e \in H : /\ e = ChainEnd(mem, s) /\ InChain(e, s, linked)
                          /\ Ends(NextMcb(mem, e), linked)
                          /\ LastParagraph(s) = NextMcb(mem, e) - 1
                          /\ e \in 0..Top /\ NextMcb(mem, e) \in Nat /\ e < NextMcb(mem, e)
                          /\ s \in 0..Top
  <2> DEFINE e == ChainEnd(mem, s)
  <2>1. e \in H /\ InChain(e, s, linked) /\ mem[e].type = "Z"
    BY ChainOf
  <2>2. LastParagraph(s) = NextMcb(mem, e) - 1
    BY DEF LastParagraph
  <2> HIDE DEF e
  <2>3. Ends(NextMcb(mem, e), linked)
    BY <2>1 DEF Tiled
  <2>4. e \in 0..Top /\ NextMcb(mem, e) \in Nat /\ e < NextMcb(mem, e)
    BY <2>1, BlockOf
  <2> QED
    BY <1>2, <2>1, <2>2, <2>3, <2>4 DEF e
<1>5. LastParagraph(firstMCB) = IF linked THEN UmbEnd ELSE LowEnd
  <2>1. PICK e \in H : /\ InChain(e, firstMCB, linked) /\ Ends(NextMcb(mem, e), linked)
                       /\ LastParagraph(firstMCB) = NextMcb(mem, e) - 1
                       /\ e \in 0..Top /\ NextMcb(mem, e) \in Nat
    BY <1>2, <1>4
  <2> DEFINE n == NextMcb(mem, e)
  <2>2. UmbActive /\ e < umb_start_seg => n <= umb_start_seg
    BY <1>2 DEF Tiled
  <2> HIDE DEF n
  <2>3. CASE linked
    <3>1. UmbActive /\ n = Top + 1
      BY <2>1, <2>3 DEF Rest, Ends, n
    <3>2. LastParagraph(firstMCB) = n - 1
      BY <2>1 DEF n
    <3> QED
      BY <2>3, <3>1, <3>2, Layout
  <2>4. CASE ~linked
    <3>1. e < umb_start_seg
      BY <2>1, <2>4, Layout DEF InChain
    <3>2. n = Top + 1 \/ n = umb_start_seg
      BY <2>1 DEF Ends, n
    <3>3. n = umb_start_seg
      BY <2>2, <3>1, <3>2, Layout, ConstantsAssumption
    <3>4. LastParagraph(firstMCB) = n - 1
      BY <2>1 DEF n
    <3> QED
      BY <2>4, <3>3, <3>4, Layout
  <2> QED
    BY <2>3, <2>4 DEF Rest
<1>6. ASSUME UmbActive PROVE LastParagraph(umb_start_seg) = UmbEnd
  <2>1. PICK e \in H : /\ InChain(e, umb_start_seg, linked) /\ Ends(NextMcb(mem, e), linked)
                       /\ LastParagraph(umb_start_seg) = NextMcb(mem, e) - 1
                       /\ e \in 0..Top /\ NextMcb(mem, e) \in Nat /\ e < NextMcb(mem, e)
    BY <1>2, <1>4, <1>6
  <2>2. umb_start_seg <= e
    BY <2>1 DEF InChain
  <2>3. NextMcb(mem, e) = Top + 1
    BY <2>1, <2>2, Layout DEF Ends
  <2> QED
    BY <1>6, <2>1, <2>3, Layout
<1> QED
  BY <1>1, <1>2, <1>3, <1>5, <1>6 DEF ChainsTile

LEMMA OwnedIsHeld ==
  ASSUME NEW H, Tiled(mem, H, linked), Owned(mem, H, held)
  PROVE  HeldIsOwned /\ NothingLeaks
<1>1. Mcbs = H
  BY McbsAre DEF McbsOf, Mcbs
<1>2. \A b \in held : /\ b.seg - 1 \in H /\ mem[b.seg - 1].psp \in Procs
                      /\ mem[b.seg - 1].size >= b.size /\ b \in [seg : 1..Top + 1, size : 0..Top]
  BY DEF Owned
<1>3. \A b \in held : ~Free(mem, b.seg - 1)
  BY <1>2, ProcsAreOwners DEF Free
<1>4. ASSUME NEW b \in held, NEW c \in held, b.seg < c.seg PROVE b.seg + b.size < c.seg
  <2> DEFINE s == b.seg - 1
             t == c.seg - 1
  <2>1. s \in H /\ t \in H /\ mem[s].size >= b.size
    BY <1>2
  <2>2. b.seg \in Int /\ b.size \in Int /\ c.seg \in Int
    BY <1>2
  <2>3. s < t /\ s \in Int /\ t \in Int
    BY <1>4, <2>2
  <2> HIDE DEF s, t
  <2>4. NextMcb(mem, s) <= t
    BY <2>1, <2>3 DEF Tiled
  <2>5. NextMcb(mem, s) = s + mem[s].size + 1 /\ mem[s].size \in 0..Top
    BY <2>1, BlockOf
  <2> QED
    BY <2>1, <2>2, <2>3, <2>4, <2>5, Layout DEF s, t
<1>5. ASSUME NEW b \in held, NEW c \in held, b # c
      PROVE  b.seg + b.size < c.seg \/ c.seg + c.size < b.seg
  <2>1. b.seg # c.seg
    BY <1>5 DEF Owned
  <2>2. b.seg \in Int /\ c.seg \in Int
    BY <1>2
  <2>3. b.seg < c.seg \/ c.seg < b.seg
    BY <2>1, <2>2
  <2> QED
    BY <1>4, <2>3
<1>6. HeldIsOwned
  BY <1>1, <1>2, <1>3, <1>5 DEF HeldIsOwned
<1>7. NothingLeaks
  BY <1>1 DEF NothingLeaks, Owned
<1> QED
  BY <1>6, <1>7

(* Whatever DOS_AllocateMemory splits, DOS_CompressMemory joins and        *)
(* DOS_LinkUMBsToMemChain links, both chains tile their part of memory.    *)
THEOREM MemoryStaysTiled == Spec => []ChainsTile
<1>1. Inv => ChainsTile
  BY TilingTiles DEF Inv
<1> QED
  BY <1>1, MemoryInvariant, PTL

(* No call takes from a program a block that DOS gave it, and no two of    *)
(* the blocks overlap.                                                     *)
THEOREM HeldBlocksAreSafe == Spec => []HeldIsOwned
<1>1. Inv => HeldIsOwned
  BY OwnedIsHeld DEF Inv
<1> QED
  BY <1>1, MemoryInvariant, PTL

(* No block stays with a process that does not hold it: what               *)
(* DOS_FreeProcessMemory does not find in one chain it finds in the other. *)
THEOREM MemoryIsNotLost == Spec => []NothingLeaks
<1>1. Inv => NothingLeaks
  BY OwnedIsHeld DEF Inv
<1> QED
  BY <1>1, MemoryInvariant, PTL

(* When DOS_AllocateMemory fails, the low chain has no free neighbours     *)
(* left, and the size it returns is that of a free block.                  *)
THEOREM FailuresAreFinal == Spec => []FailureIsFinal
<1>1. Inv => FailureIsFinal
  BY DEF Inv
<1> QED
  BY <1>1, MemoryInvariant, PTL
=============================================================================
