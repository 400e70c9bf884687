-------------------------- MODULE Intel8042Proofs --------------------------
(***************************************************************************)
(* Theorems about Intel8042: the counters of bytes on their way are exact, *)
(* scancodes come in order, no device is left unserved, and the buffer is  *)
(* never overfull, for any sizes of buffers, frames, scancodes and replies *)
(* and any number of keys and commands.                                    *)
(***************************************************************************)
EXTENDS Intel8042, InductionLemmas, FiniteSetTheorems, SequenceTheorems, TLAPS

(* The longest scancode: what fits beside a mouse frame and a reply.       *)
KeyMax == BufferSize - FrameLength - MaxReplies

Byte == [from : {"ctl", "kbd", "aux"}, skip : BOOLEAN, key : Nat]

(* A scancode: bytes of the keyboard in the order of their numbers.        *)
Code == {c \in Seq(Byte) : /\ c # <<>> /\ Len(c) <= KeyMax
                           /\ \A i \in DOMAIN c : c[i].from = "kbd" /\ c[i].key > 0
                           /\ \A i, j \in DOMAIN c : i < j => c[i].key < c[j].key}

State ==
  [ buf : Seq(Byte), is_data_new : BOOLEAN, out : Byte,
    waiting : [Devices -> Nat], disabled : [Devices -> BOOLEAN],
    delay_expired : BOOLEAN, kbd_timer_expired : BOOLEAN,
    command : WithParameter \cup {"none"}, dump : BOOLEAN,
    keys : Seq(Code), overflowed : BOOLEAN, is_scanning : BOOLEAN, repeating : BOOLEAN,
    has_data : BOOLEAN, mouse_delay_expired : BOOLEAN, reporting : BOOLEAN,
    data_byte : Nat, nextKey : Nat, lastRead : Nat, writes : Nat ]

-----------------------------------------------------------------------------
(* The counters.                                                           *)

IsOut(t, d) == IF t.is_data_new /\ t.out.from = d THEN 1 ELSE 0

(* Every byte of a device in the buffer is counted.                        *)
Covered(t) == \A d \in Devices : Bytes(t.buf, d) <= t.waiting[d]

(* So is the output byte.                                                  *)
Counted(t) == \A d \in Devices : IsOut(t, d) + Bytes(t.buf, d) <= t.waiting[d]

(* And nothing else.                                                       *)
Exact(t) == \A d \in Devices : IsOut(t, d) + Bytes(t.buf, d) = t.waiting[d]

Beyond(n, m) == IF n > m THEN n - m ELSE 0

(* A frame of each device and one reply.                                   *)
Within(t) ==
  Beyond(t.waiting["kbd"], KeyMax) + (Beyond(t.waiting["aux"], FrameLength) + Bytes(t.buf, "ctl"))
    <= MaxReplies

(* The numbers of the scancodes ks.                                        *)
Numbers(ks) == {m \in Nat : \E k \in DOMAIN ks : \E i \in DOMAIN ks[k] : ks[k][i].key = m}

(* The scancodes ks are in the order of their numbers.                     *)
InTurn(ks) ==
  \A k, l \in DOMAIN ks : k < l =>
    \A i \in DOMAIN ks[k], j \in DOMAIN ks[l] : ks[k][i].key < ks[l][j].key

(* The numbers of the scancode bytes in q rise from f, those in K come     *)
(* after them, and none is beyond n.                                       *)
Line(q, K, f, n) ==
  /\ \A i \in DOMAIN q : q[i].key <= n /\ (q[i].key > 0 => q[i].key > f)
  /\ \A i, j \in DOMAIN q : i < j /\ q[j].key > 0 => q[i].key < q[j].key
  /\ \A k \in K : k > f /\ k <= n /\ \A i \in DOMAIN q : q[i].key < k

(* So do those of all bytes on their way, from the last byte that was read *)
(* and from the one that a read would return.                              *)
Lined(t, K) ==
  /\ Line(t.buf, K, t.lastRead, t.nextKey)
  /\ t.data_byte > 0 => /\ t.data_byte >= t.lastRead /\ t.data_byte <= t.nextKey
                        /\ Line(t.buf, K, t.data_byte, t.nextKey)
  /\ t.is_data_new => /\ t.out.key = t.data_byte
                      /\ t.data_byte > 0 => t.data_byte > t.lastRead

(* Without a byte to read the output is a byte of the controller.          *)
IdleIsCtl(t) == ~t.is_data_new => t.out.from = "ctl"

(* What the operators from state to state rely on and leave behind.        *)
Good(t) ==
  /\ t \in State
  /\ Len(t.buf) <= BufferSize
  /\ IdleIsCtl(t)
  /\ Covered(t)
  /\ t.lastRead <= t.nextKey
  /\ InTurn(t.keys)

MouseServed(t) == t.mouse_delay_expired /\ IsReady(t, "aux") => ~t.has_data

KbdServed(t) == IsReady(t, "kbd") => t.keys = <<>> /\ ~t.overflowed

(* What holds of a guest g while a handler runs, and after it.             *)
Sound(g, t) ==
  /\ Good(t)
  /\ g # "ram" /\ ~t.dump => Within(t)
  /\ g = "gentle" => ~t.dump /\ ~t.disabled["kbd"]
  /\ Lined(t, Numbers(t.keys))
  /\ Counted(t) /\ (g # "ram" => Exact(t))

Holds(g, t) ==
  /\ Sound(g, t)
  /\ MouseServed(t) /\ (g = "gentle" => KbdServed(t))

Inv == guest \in {"gentle", "disabling", "ram"} /\ Holds(guest, s)

-----------------------------------------------------------------------------
LEMMA Sizes ==
  /\ BufferSize \in Nat \ {0} /\ KbdBufferSize \in Nat \ {0} /\ FrameLength \in Nat \ {0}
  /\ MaxReplies \in Nat \ {0} /\ DumpLength \in Nat \ {0} /\ DumpLength <= BufferSize
  /\ KeyMax \in Nat \ {0} /\ KeyMax + (FrameLength + MaxReplies) = BufferSize
  /\ \A n \in KeyLengths : n \in Nat \ {0} /\ n <= KeyMax
<1>1. /\ BufferSize \in Nat \ {0} /\ KbdBufferSize \in Nat \ {0} /\ FrameLength \in Nat \ {0}
      /\ MaxReplies \in Nat \ {0} /\ DumpLength \in Nat \ {0} /\ DumpLength <= BufferSize
      /\ \A n \in KeyLengths : n \in Nat \ {0} /\ (n + FrameLength) + MaxReplies <= BufferSize
  BY ConstantsAssumption
<1>2. PICK m \in KeyLengths : TRUE
  BY ConstantsAssumption
<1>3. m \in Nat \ {0} /\ (m + FrameLength) + MaxReplies <= BufferSize
  BY <1>1
<1> QED
  BY <1>1, <1>3 DEF KeyMax

-----------------------------------------------------------------------------
(* The bytes of a device in a sequence.                                    *)

LEMMA BytesFinite ==
  ASSUME NEW q \in Seq(Byte), NEW d
  PROVE  /\ IsFiniteSet({i \in DOMAIN q : q[i].from = d})
         /\ Bytes(q, d) \in Nat
<1>1. IsFiniteSet(1..Len(q))
  BY FS_Interval
<1>2. {i \in DOMAIN q : q[i].from = d} \in SUBSET (1..Len(q))
  OBVIOUS
<1>3. IsFiniteSet({i \in DOMAIN q : q[i].from = d})
  BY <1>1, <1>2, FS_Subset
<1> QED
  BY <1>3, FS_CardinalityType DEF Bytes

LEMMA BytesEmpty ==
  ASSUME NEW d
  PROVE  Bytes(<<>>, d) = 0
<1>1. {i \in DOMAIN <<>> : (<<>>)[i].from = d} = {}
  OBVIOUS
<1> QED
  BY <1>1, FS_EmptySet DEF Bytes

LEMMA BytesAppend ==
  ASSUME NEW q \in Seq(Byte), NEW b \in Byte, NEW d
  PROVE  Bytes(Append(q, b), d) = Bytes(q, d) + (IF b.from = d THEN 1 ELSE 0)
<1> DEFINE S == {i \in DOMAIN q : q[i].from = d}
           r == Append(q, b)
           T == {i \in DOMAIN r : r[i].from = d}
           x == Len(q) + 1
<1>1. IsFiniteSet(S) /\ Cardinality(S) \in Nat
  BY BytesFinite DEF Bytes
<1>2. /\ DOMAIN q = 1..Len(q) /\ DOMAIN r = 1..x /\ Len(q) \in Nat
      /\ r[x] = b /\ \A i \in 1..Len(q) : r[i] = q[i]
  OBVIOUS
<1>3. x \notin S
  BY <1>2
<1> HIDE DEF r
<1>4. CASE b.from = d
  <2>1. T = S \cup {x}
    BY <1>2, <1>4
  <2>2. Cardinality(S \cup {x}) = Cardinality(S) + 1
    BY <1>1, <1>3, FS_AddElement
  <2> QED
    BY <1>4, <2>1, <2>2 DEF Bytes, r
<1>5. CASE b.from # d
  <2>1. T = S
    BY <1>2, <1>5
  <2>2. Bytes(r, d) = Bytes(q, d) /\ Bytes(q, d) \in Nat
    BY <1>1, <2>1 DEF Bytes
  <2> QED
    BY <1>5, <2>2 DEF r
<1> QED
  BY <1>4, <1>5

LEMMA BytesTail ==
  ASSUME NEW q \in Seq(Byte), q # <<>>, NEW d
  PROVE  Bytes(q, d) = (IF Head(q).from = d THEN 1 ELSE 0) + Bytes(Tail(q), d)
<1> DEFINE r == Tail(q)
           S == {i \in DOMAIN r : r[i].from = d}
           T == {i \in DOMAIN q : q[i].from = d}
           f == [i \in S |-> i + 1]
<1>1. /\ Len(q) \in Nat \ {0} /\ DOMAIN q = 1..Len(q) /\ Head(q) = q[1]
      /\ r \in Seq(Byte) /\ DOMAIN r = 1..Len(q) - 1
      /\ \A i \in 1..Len(q) - 1 : r[i] = q[i + 1]
  BY HeadTailProperties, EmptySeq
<1> HIDE DEF r
<1>2. IsFiniteSet(S) /\ IsFiniteSet(T) /\ Cardinality(S) \in Nat /\ Cardinality(T) \in Nat
  BY <1>1, BytesFinite DEF Bytes
<1>3. \A i \in S : i \in Nat /\ f[i] = i + 1 /\ i + 1 \in T \ {1}
  BY <1>1
<1>4. \A j \in T \ {1} : j - 1 \in S /\ f[j - 1] = j
  <2> SUFFICES ASSUME NEW j \in T \ {1} PROVE j - 1 \in S /\ f[j - 1] = j
    OBVIOUS
  <2>1. j \in 2..Len(q) /\ q[j].from = d
    BY <1>1
  <2>2. j - 1 \in 1..Len(q) - 1 /\ (j - 1) + 1 = j
    BY <1>1, <2>1
  <2>3. r[j - 1] = q[j]
    BY <1>1, <2>2
  <2>4. j - 1 \in S
    BY <1>1, <2>1, <2>2, <2>3
  <2> QED
    BY <2>2, <2>4
<1>5. f \in Bijection(S, T \ {1})
  <2>1. f \in [S -> T \ {1}]
    BY <1>3
  <2>2. \A i, j \in S : f[i] = f[j] => i = j
    <3> HIDE DEF f, S, T
    <3> QED
      BY <1>3
  <2>3. \A j \in T \ {1} : \E i \in S : f[i] = j
    BY <1>4
  <2> QED
    BY <2>1, <2>2, <2>3 DEF Bijection, Injection, Surjection, IsInjective
<1>6. Cardinality(T \ {1}) = Cardinality(S)
  <2>1. ExistsBijection(S, T \ {1})
    BY <1>5 DEF ExistsBijection
  <2> QED
    BY <1>2, <2>1, FS_Bijection
<1>7. Cardinality(T \ {1}) = IF 1 \in T THEN Cardinality(T) - 1 ELSE Cardinality(T)
  BY <1>2, FS_RemoveElement
<1>8. 1 \in T <=> Head(q).from = d
  BY <1>1
<1> HIDE DEF S, T
<1>9. Cardinality(T) = (IF Head(q).from = d THEN 1 ELSE 0) + Cardinality(S)
  BY <1>2, <1>6, <1>7, <1>8
<1> QED
  BY <1>9 DEF Bytes, S, T, r

(* Every byte is of the keyboard, the mouse or the controller.             *)
LEMMA BytesOfAll ==
  ASSUME NEW q \in Seq(Byte)
  PROVE  Len(q) = Bytes(q, "kbd") + (Bytes(q, "aux") + Bytes(q, "ctl"))
<1> DEFINE S(d) == {i \in DOMAIN q : q[i].from = d}
<1>1. \A d : IsFiniteSet(S(d)) /\ Cardinality(S(d)) \in Nat /\ Bytes(q, d) = Cardinality(S(d))
  BY BytesFinite DEF Bytes
<1>2. DOMAIN q = 1..Len(q) /\ Len(q) \in Nat /\ \A i \in 1..Len(q) : q[i].from \in {"ctl", "kbd", "aux"}
  <2>1. \A i \in 1..Len(q) : q[i] \in Byte
    OBVIOUS
  <2> QED
    BY <2>1 DEF Byte
<1>3. S("kbd") \cap (S("aux") \cup S("ctl")) = {} /\ S("aux") \cap S("ctl") = {}
  OBVIOUS
<1>4. S("kbd") \cup (S("aux") \cup S("ctl")) = 1..Len(q)
  BY <1>2
<1>5. Cardinality(1..Len(q)) = Len(q)
  <2> DEFINE n == Len(q)
  <2>1. n \in Nat
    BY <1>2
  <2> HIDE DEF n
  <2>2. Cardinality(1..n) = IF 1 > n THEN 0 ELSE n - 1 + 1
    BY <2>1, FS_Interval
  <2> QED
    BY <2>1, <2>2 DEF n
<1> HIDE DEF S
<1>6. /\ IsFiniteSet(S("aux") \cup S("ctl"))
      /\ Cardinality(S("aux") \cup S("ctl")) = Cardinality(S("aux")) + Cardinality(S("ctl")) - Cardinality({})
  BY <1>1, <1>3, FS_Union
<1>7. Cardinality(1..Len(q)) = Cardinality(S("kbd")) + Cardinality(S("aux") \cup S("ctl")) - Cardinality({})
  <2> DEFINE A == S("kbd")
             B == S("aux") \cup S("ctl")
  <2>1. IsFiniteSet(A) /\ IsFiniteSet(B) /\ A \cap B = {} /\ A \cup B = 1..Len(q)
    BY <1>1, <1>3, <1>4, <1>6
  <2> HIDE DEF A, B
  <2>2. Cardinality(A \cup B) = Cardinality(A) + Cardinality(B) - Cardinality(A \cap B)
    BY <2>1, FS_Union
  <2> QED
    BY <2>1, <2>2 DEF A, B
<1>8. Cardinality({}) = 0
  BY FS_EmptySet
<1> QED
  BY <1>1, <1>5, <1>6, <1>7, <1>8

-----------------------------------------------------------------------------
(* Adding bytes to the buffer.                                             *)

(* What adding bytes leaves alone.                                         *)
SameRest(t, u) ==
  /\ u.disabled = t.disabled /\ u.kbd_timer_expired = t.kbd_timer_expired
  /\ u.command = t.command /\ u.dump = t.dump
  /\ u.keys = t.keys /\ u.overflowed = t.overflowed
  /\ u.is_scanning = t.is_scanning /\ u.repeating = t.repeating
  /\ u.has_data = t.has_data /\ u.mouse_delay_expired = t.mouse_delay_expired
  /\ u.reporting = t.reporting
  /\ u.nextKey = t.nextKey /\ u.lastRead = t.lastRead /\ u.writes = t.writes

(* The first byte of the buffer moves to the output, or nothing does.      *)
Moves(t, u) ==
  \/ /\ u.buf = t.buf /\ u.out = t.out /\ u.is_data_new = t.is_data_new
     /\ u.data_byte = t.data_byte
  \/ /\ ~t.is_data_new /\ t.buf # <<>>
     /\ u.buf = Tail(t.buf) /\ u.out = Head(t.buf) /\ u.is_data_new
     /\ u.data_byte = Head(t.buf).key

LEMMA HeadAndTail ==
  ASSUME NEW q \in Seq(Byte), q # <<>>
  PROVE  /\ Head(q) \in Byte /\ Head(q) = q[1] /\ Tail(q) \in Seq(Byte)
         /\ Len(q) \in Nat \ {0} /\ Len(Tail(q)) = Len(q) - 1
         /\ DOMAIN q = 1..Len(q) /\ DOMAIN Tail(q) = 1..Len(q) - 1
         /\ \A i \in 1..Len(q) - 1 : Tail(q)[i] = q[i + 1] /\ i + 1 \in 1..Len(q)
  BY HeadTailProperties, EmptySeq

LEMMA TransferMoves ==
  ASSUME NEW t \in State
  PROVE  /\ Transfer(t) \in State /\ SameRest(t, Transfer(t)) /\ Transfer(t).waiting = t.waiting
         /\ Moves(t, Transfer(t))
<1> DEFINE u == [t EXCEPT !.buf = Tail(@), !.out = Head(t.buf), !.is_data_new = TRUE,
                          !.data_byte = Head(t.buf).key, !.delay_expired = FALSE]
<1>1. CASE Transfer(t) = t
  BY <1>1 DEF SameRest, Moves
<1>2. CASE Transfer(t) # t
  <2>1. Transfer(t) = u /\ ~t.is_data_new /\ t.buf # <<>>
    BY <1>2 DEF Transfer
  <2>2. t.buf \in Seq(Byte)
    BY DEF State
  <2>3. Head(t.buf) \in Byte /\ Tail(t.buf) \in Seq(Byte)
    BY <2>1, <2>2, HeadAndTail
  <2> DEFINE m == Head(t.buf).key
  <2>7. m \in Nat
    BY <2>3 DEF Byte
  <2> HIDE DEF m
  <2>4. u \in State
    <3>1. u = [t EXCEPT !.buf = Tail(@), !.out = Head(t.buf), !.is_data_new = TRUE,
                        !.data_byte = m, !.delay_expired = FALSE]
      BY DEF m
    <3> QED
      BY <2>3, <2>7, <3>1 DEF State
  <2>5. /\ u.buf = Tail(t.buf) /\ u.out = Head(t.buf) /\ u.is_data_new /\ u.waiting = t.waiting
        /\ u.data_byte = Head(t.buf).key
    BY DEF State
  <2>6. SameRest(t, u)
    BY DEF State, SameRest
  <2> QED
    BY <2>1, <2>4, <2>5, <2>6 DEF Moves
<1> QED
  BY <1>1, <1>2

(* A byte of x is not accepted.                                            *)
Blocked(t, x) == x \in Devices /\ t.disabled[x]

(* The output byte, if there is one, stays, and the bytes added are        *)
(* counted.                                                                *)
Kept(t, u) ==
  t.is_data_new => /\ u.is_data_new /\ u.out = t.out
                   /\ \A d \in Devices : u.waiting[d] + Bytes(t.buf, d) = t.waiting[d] + Bytes(u.buf, d)

(* n bytes of x have been added.                                           *)
Grows(t, u, x, n) ==
  /\ u \in State /\ SameRest(t, u)
  /\ u.waiting = [d \in Devices |-> t.waiting[d] + (IF d = x THEN n ELSE 0)]
  /\ Covered(t) => Covered(u)
  /\ Counted(t) => Counted(u)
  /\ Exact(t) => Exact(u)
  /\ Kept(t, u)
  /\ IdleIsCtl(t) => IdleIsCtl(u)
  /\ Len(u.buf) <= Len(t.buf) + n
  /\ Bytes(u.buf, "ctl") <= Bytes(t.buf, "ctl") + (IF x = "ctl" THEN n ELSE 0)

LEMMA StateFacts ==
  ASSUME NEW t \in State
  PROVE  /\ t.buf \in Seq(Byte) /\ t.out \in Byte /\ t.keys \in Seq(Code) /\ Len(t.buf) \in Nat
         /\ t.is_data_new \in BOOLEAN
         /\ t.waiting \in [Devices -> Nat] /\ t.disabled \in [Devices -> BOOLEAN]
         /\ \A d \in Devices : t.waiting[d] \in Nat
         /\ t.nextKey \in Nat /\ t.lastRead \in Nat /\ t.writes \in Nat /\ t.data_byte \in Nat
         /\ \A d : Bytes(t.buf, d) \in Nat
<1>1. /\ t.buf \in Seq(Byte) /\ t.out \in Byte /\ t.keys \in Seq(Code)
      /\ t.is_data_new \in BOOLEAN
      /\ t.waiting \in [Devices -> Nat] /\ t.disabled \in [Devices -> BOOLEAN]
      /\ t.nextKey \in Nat /\ t.lastRead \in Nat /\ t.writes \in Nat /\ t.data_byte \in Nat
  BY DEF State
<1>2. Len(t.buf) \in Nat
  BY <1>1
<1>3. \A d \in Devices : t.waiting[d] \in Nat
  BY <1>1
<1>4. \A d : Bytes(t.buf, d) \in Nat
  BY <1>1, BytesFinite
<1> QED
  BY <1>1, <1>2, <1>3, <1>4

(* The state of BufferAdd before the transfer.                             *)
Appended(t, b) ==
  [t EXCEPT !.buf = Append(@, b),
            !.waiting = [d \in Devices |-> @[d] + (IF d = b.from THEN 1 ELSE 0)]]

LEMMA AppendedIs ==
  ASSUME NEW t \in State, NEW b \in Byte
  PROVE  /\ Appended(t, b) \in State /\ SameRest(t, Appended(t, b))
         /\ Appended(t, b).buf = Append(t.buf, b)
         /\ Appended(t, b).out = t.out /\ Appended(t, b).is_data_new = t.is_data_new
         /\ Appended(t, b).data_byte = t.data_byte
         /\ Appended(t, b).waiting = [d \in Devices |-> t.waiting[d] + (IF d = b.from THEN 1 ELSE 0)]
<1> DEFINE w == [d \in Devices |-> t.waiting[d] + (IF d = b.from THEN 1 ELSE 0)]
           v == [t EXCEPT !.buf = Append(t.buf, b), !.waiting = w]
<1>1. Append(t.buf, b) \in Seq(Byte) /\ w \in [Devices -> Nat]
  BY StateFacts
<1>2. Appended(t, b) = v
  BY DEF Appended
<1> HIDE DEF w
<1>3. v \in State
  BY <1>1 DEF State
<1>4. v.buf = Append(t.buf, b) /\ v.waiting = w /\ v.out = t.out /\ v.is_data_new = t.is_data_new
  BY DEF State
<1>5. SameRest(t, v)
  BY DEF State, SameRest
<1> QED
  BY <1>2, <1>3, <1>4, <1>5 DEF w

(* What is in the buffer after a move from v, d by d.                      *)
LEMMA MovesBytes ==
  ASSUME NEW v \in State, NEW u \in State, Moves(v, u), NEW d
  PROVE  /\ IsOut(u, d) + Bytes(u.buf, d) = IsOut(v, d) + Bytes(v.buf, d)
         /\ Bytes(u.buf, d) <= Bytes(v.buf, d)
         /\ Len(u.buf) <= Len(v.buf)
         /\ v.is_data_new => u.is_data_new /\ u.out = v.out /\ u.buf = v.buf
         /\ IdleIsCtl(v) => IdleIsCtl(u)
<1>1. /\ v.buf \in Seq(Byte) /\ u.buf \in Seq(Byte) /\ Bytes(u.buf, d) \in Nat /\ Bytes(v.buf, d) \in Nat
      /\ Len(v.buf) \in Nat
  BY StateFacts
<1>2. CASE u.buf = v.buf /\ u.out = v.out /\ u.is_data_new = v.is_data_new
  BY <1>1, <1>2 DEF IsOut, IdleIsCtl
<1>3. CASE /\ ~v.is_data_new /\ v.buf # <<>>
           /\ u.buf = Tail(v.buf) /\ u.out = Head(v.buf) /\ u.is_data_new
  <2>1. Bytes(v.buf, d) = (IF Head(v.buf).from = d THEN 1 ELSE 0) + Bytes(Tail(v.buf), d)
    BY <1>1, <1>3, BytesTail
  <2>2. Len(u.buf) = Len(v.buf) - 1
    BY <1>1, <1>3, HeadAndTail
  <2>3. IsOut(v, d) = 0 /\ IsOut(u, d) = IF Head(v.buf).from = d THEN 1 ELSE 0
    BY <1>3 DEF IsOut
  <2> QED
    BY <1>1, <1>3, <2>1, <2>2, <2>3 DEF IdleIsCtl
<1> QED
  BY <1>2, <1>3 DEF Moves

LEMMA BufferAddGrows ==
  ASSUME NEW t \in State, NEW b \in Byte, ~Blocked(t, b.from)
  PROVE  Grows(t, BufferAdd(t, b), b.from, 1) /\ Moves(Appended(t, b), BufferAdd(t, b))
<1> DEFINE v == Appended(t, b)
           u == Transfer(v)
           x == b.from
<1>1. BufferAdd(t, b) = u
  BY DEF BufferAdd, Appended, Blocked
<1>2. /\ v \in State /\ SameRest(t, v) /\ v.buf = Append(t.buf, b)
      /\ v.out = t.out /\ v.is_data_new = t.is_data_new
      /\ v.waiting = [d \in Devices |-> t.waiting[d] + (IF d = x THEN 1 ELSE 0)]
  BY AppendedIs
<1> HIDE DEF v
<1>3. u \in State /\ SameRest(v, u) /\ u.waiting = v.waiting /\ Moves(v, u)
  BY <1>2, TransferMoves
<1> HIDE DEF u
<1>4. SameRest(t, u)
  BY <1>2, <1>3 DEF SameRest
<1>5. /\ t.buf \in Seq(Byte) /\ Len(t.buf) \in Nat /\ Len(v.buf) = Len(t.buf) + 1
      /\ \A d \in Devices : t.waiting[d] \in Nat
      /\ \A d : Bytes(t.buf, d) \in Nat /\ Bytes(u.buf, d) \in Nat
      /\ Len(u.buf) \in Nat
  <2>1. /\ t.buf \in Seq(Byte) /\ Len(t.buf) \in Nat /\ \A d \in Devices : t.waiting[d] \in Nat
        /\ \A d : Bytes(t.buf, d) \in Nat
    BY StateFacts
  <2>2. Len(u.buf) \in Nat /\ \A d : Bytes(u.buf, d) \in Nat
    BY <1>3, StateFacts
  <2>3. Len(v.buf) = Len(t.buf) + 1
    BY <1>2, <2>1
  <2> QED
    BY <2>1, <2>2, <2>3
<1>6. \A d : Bytes(v.buf, d) = Bytes(t.buf, d) + (IF x = d THEN 1 ELSE 0)
  BY <1>2, <1>5, BytesAppend
<1>7. \A d : IsOut(v, d) = IsOut(t, d) /\ IsOut(t, d) \in {0, 1}
  BY <1>2 DEF IsOut
<1>8. \A d : /\ IsOut(u, d) + Bytes(u.buf, d) = (IsOut(t, d) + Bytes(t.buf, d)) + (IF x = d THEN 1 ELSE 0)
             /\ Bytes(u.buf, d) <= Bytes(t.buf, d) + (IF x = d THEN 1 ELSE 0)
  <2> TAKE d
  <2>1. IsOut(u, d) + Bytes(u.buf, d) = IsOut(v, d) + Bytes(v.buf, d) /\ Bytes(u.buf, d) <= Bytes(v.buf, d)
    <3>1. v \in State /\ u \in State /\ Moves(v, u)
      BY <1>2, <1>3
    <3> QED
      BY <3>1, MovesBytes
  <2> QED
    BY <1>5, <1>6, <1>7, <2>1
<1>9. \A d \in Devices : u.waiting[d] = t.waiting[d] + (IF x = d THEN 1 ELSE 0)
  BY <1>2, <1>3
<1>10. Covered(t) => Covered(u)
  BY <1>5, <1>8, <1>9 DEF Covered
<1>11. \A d : IsOut(t, d) \in Nat /\ IsOut(u, d) \in Nat
  BY DEF IsOut
<1>12. Counted(t) => Counted(u)
  BY <1>5, <1>8, <1>9, <1>11, SMTT(30) DEF Counted
<1>13. Exact(t) => Exact(u)
  BY <1>5, <1>8, <1>9, <1>11 DEF Exact
<1>14. Len(u.buf) <= Len(t.buf) + 1
  BY <1>2, <1>3, <1>5, MovesBytes, SMTT(30)
<1>15. Kept(t, u)
  <2> SUFFICES ASSUME t.is_data_new
               PROVE  /\ u.is_data_new /\ u.out = t.out
                      /\ \A d \in Devices : u.waiting[d] + Bytes(t.buf, d) = t.waiting[d] + Bytes(u.buf, d)
    BY DEF Kept
  <2>1. u.is_data_new /\ u.out = t.out /\ u.buf = v.buf
    BY <1>2, <1>3, MovesBytes
  <2> QED
    BY <2>1, <1>5, <1>6, <1>9
<1>16. IdleIsCtl(t) => IdleIsCtl(u)
  <2>1. IdleIsCtl(v) => IdleIsCtl(u)
    BY <1>2, <1>3, MovesBytes
  <2> QED
    BY <2>1, <1>2 DEF IdleIsCtl
<1>17. Bytes(u.buf, "ctl") <= Bytes(t.buf, "ctl") + (IF x = "ctl" THEN 1 ELSE 0)
  BY <1>8
<1> HIDE DEF x
<1>18. Grows(t, u, x, 1)
  BY <1>2, <1>3, <1>4, <1>10, <1>12, <1>13, <1>14, <1>15, <1>16, <1>17 DEF Grows
<1> QED
  BY <1>1, <1>3, <1>18 DEF v, x

-----------------------------------------------------------------------------
(* The order of scancode bytes.                                            *)

(* The byte b is a reply, or the next number of K, of which K2 is left.    *)
Takes(b, K, K2) ==
  K2 \subseteq K /\ (b.key = 0 \/ (b.key \in K /\ \A k \in K2 : b.key < k))

LEMMA LineFewer ==
  ASSUME NEW q, NEW K, NEW K2 \in SUBSET K, NEW f, NEW n, Line(q, K, f, n)
  PROVE  Line(q, K2, f, n)
  BY DEF Line

LEMMA LineEmpty ==
  ASSUME NEW q \in Seq(Byte), NEW K, NEW f, NEW n, Line(q, K, f, n)
  PROVE  Line(<<>>, K, f, n)
  BY DEF Line

LEMMA LineAppend ==
  ASSUME NEW q \in Seq(Byte), NEW b \in Byte, NEW K \in SUBSET Nat, NEW K2, Takes(b, K, K2),
         NEW f \in Nat, NEW n \in Nat, Line(q, K, f, n)
  PROVE  Line(Append(q, b), K2, f, n)
<1> DEFINE r == Append(q, b)
           x == Len(q) + 1
<1>1. /\ DOMAIN q = 1..Len(q) /\ DOMAIN r = 1..x /\ Len(q) \in Nat
      /\ r[x] = b /\ \A i \in 1..Len(q) : r[i] = q[i]
  OBVIOUS
<1>2. b.key \in Nat /\ \A i \in 1..Len(q) : q[i].key \in Nat
  <2>1. \A i \in 1..Len(q) : q[i] \in Byte
    BY <1>1
  <2> QED
    BY <2>1 DEF Byte
<1>3. /\ \A i \in 1..Len(q) : q[i].key <= n /\ (q[i].key > 0 => q[i].key > f)
      /\ \A i, j \in 1..Len(q) : i < j /\ q[j].key > 0 => q[i].key < q[j].key
      /\ \A k \in K : k > f /\ k <= n /\ \A i \in 1..Len(q) : q[i].key < k
  BY <1>1 DEF Line
<1>4. K2 \subseteq K /\ K \subseteq Nat
  BY DEF Takes
<1>5. b.key > 0 => /\ b.key > f /\ b.key <= n /\ \A i \in 1..Len(q) : q[i].key < b.key
                   /\ \A k \in K2 : b.key < k
  BY <1>2, <1>3 DEF Takes
<1> HIDE DEF r
<1>6. \A i \in 1..x : i = x \/ i \in 1..Len(q)
  BY <1>1
<1>7. \A i \in 1..x : r[i].key <= n /\ (r[i].key > 0 => r[i].key > f)
  BY <1>1, <1>2, <1>3, <1>5, <1>6
<1>8. \A i, j \in 1..x : i < j /\ r[j].key > 0 => r[i].key < r[j].key
  <2> SUFFICES ASSUME NEW i \in 1..x, NEW j \in 1..x, i < j, r[j].key > 0
               PROVE  r[i].key < r[j].key
    OBVIOUS
  <2>1. i \in 1..Len(q) /\ r[i] = q[i]
    BY <1>1
  <2>2. CASE j = x
    BY <1>1, <1>5, <2>1, <2>2
  <2>3. CASE j \in 1..Len(q)
    BY <1>1, <1>3, <2>1, <2>3
  <2> QED
    BY <1>6, <2>2, <2>3
<1>9. \A k \in K2 : k > f /\ k <= n /\ \A i \in 1..x : r[i].key < k
  <2> SUFFICES ASSUME NEW k \in K2 PROVE k > f /\ k <= n /\ \A i \in 1..x : r[i].key < k
    OBVIOUS
  <2>1. k \in Nat /\ k > f /\ k <= n /\ \A i \in 1..Len(q) : q[i].key < k
    BY <1>3, <1>4
  <2>2. b.key < k
    BY <1>2, <1>5, <2>1
  <2> QED
    BY <1>1, <1>6, <2>1, <2>2
<1> QED
  BY <1>1, <1>7, <1>8, <1>9 DEF Line, r

(* Without the first byte, and after it has been read.                     *)
LEMMA LineTail ==
  ASSUME NEW q \in Seq(Byte), q # <<>>, NEW K \in SUBSET Nat, NEW f \in Nat, NEW n \in Nat,
         Line(q, K, f, n)
  PROVE  /\ Line(Tail(q), K, f, n)
         /\ Head(q).key > 0 => /\ Head(q).key > f /\ Head(q).key <= n
                               /\ Line(Tail(q), K, Head(q).key, n)
<1> DEFINE r == Tail(q)
           m == Len(q) - 1
<1>1. /\ Head(q) = q[1] /\ Len(q) \in Nat \ {0}
      /\ DOMAIN q = 1..Len(q) /\ DOMAIN r = 1..m
      /\ \A i \in 1..m : r[i] = q[i + 1] /\ i + 1 \in 1..Len(q)
  BY HeadAndTail
<1>2. \A i \in 1..Len(q) : q[i].key \in Nat
  <2>1. \A i \in 1..Len(q) : q[i] \in Byte
    BY <1>1
  <2> QED
    BY <2>1 DEF Byte
<1>3. /\ \A i \in 1..Len(q) : q[i].key <= n /\ (q[i].key > 0 => q[i].key > f)
      /\ \A i, j \in 1..Len(q) : i < j /\ q[j].key > 0 => q[i].key < q[j].key
      /\ \A k \in K : k > f /\ k <= n /\ \A i \in 1..Len(q) : q[i].key < k
  BY <1>1 DEF Line
<1> HIDE DEF r
<1>4. \A i \in 1..m : r[i].key <= n /\ (r[i].key > 0 => r[i].key > f)
  BY <1>1, <1>3
<1>5. \A i, j \in 1..m : i < j /\ r[j].key > 0 => r[i].key < r[j].key
  <2> SUFFICES ASSUME NEW i \in 1..m, NEW j \in 1..m, i < j, r[j].key > 0
               PROVE  r[i].key < r[j].key
    OBVIOUS
  <2>1. r[i] = q[i + 1] /\ r[j] = q[j + 1] /\ i + 1 \in 1..Len(q) /\ j + 1 \in 1..Len(q) /\ i + 1 < j + 1
    BY <1>1
  <2> QED
    BY <1>3, <2>1
<1>6. \A k \in K : k > f /\ k <= n /\ \A i \in 1..m : r[i].key < k
  BY <1>1, <1>3
<1>7. Line(r, K, f, n)
  BY <1>1, <1>4, <1>5, <1>6 DEF Line
<1>8. ASSUME q[1].key > 0
      PROVE  q[1].key > f /\ q[1].key <= n /\ Line(r, K, q[1].key, n)
  <2>1. 1 \in 1..Len(q) /\ \A i \in 1..m : 1 < i + 1
    BY <1>1
  <2>2. \A i \in 1..m : r[i].key > 0 => r[i].key > q[1].key
    <3> SUFFICES ASSUME NEW i \in 1..m, r[i].key > 0 PROVE r[i].key > q[1].key
      OBVIOUS
    <3>1. r[i] = q[i + 1] /\ i + 1 \in 1..Len(q) /\ 1 < i + 1
      BY <1>1, <2>1
    <3>2. q[1].key < q[i + 1].key
      BY <1>3, <2>1, <3>1
    <3> QED
      BY <1>2, <2>1, <3>1, <3>2
  <2>3. \A k \in K : k > q[1].key
    BY <1>2, <1>3, <2>1
  <2>4. Line(r, K, q[1].key, n)
    BY <1>1, <1>4, <1>5, <1>6, <2>2, <2>3 DEF Line
  <2> QED
    BY <1>3, <1>8, <2>1, <2>4
<1> QED
  BY <1>1, <1>7, <1>8 DEF r

(* From t to u the numbers still to come go from K to K2.                  *)
Leads(t, u, K, K2) ==
  /\ \A f \in Nat : Line(t.buf, K, f, t.nextKey) => Line(u.buf, K2, f, t.nextKey)
  /\ Lined(t, K) => Lined(u, K2)

LEMMA LeadsOn ==
  ASSUME NEW t, NEW u, NEW v, NEW K1, NEW K2, NEW K3, u.nextKey = t.nextKey,
         Leads(t, u, K1, K2), Leads(u, v, K2, K3)
  PROVE  Leads(t, v, K1, K3)
  BY DEF Leads

LEMMA MovesLeads ==
  ASSUME NEW t \in State, NEW u \in State, Moves(t, u), NEW K \in SUBSET Nat,
         u.nextKey = t.nextKey, u.lastRead = t.lastRead
  PROVE  Leads(t, u, K, K)
<1>1. t.buf \in Seq(Byte) /\ t.nextKey \in Nat /\ t.lastRead \in Nat /\ t.data_byte \in Nat
  BY StateFacts
<1>2. CASE /\ u.buf = t.buf /\ u.out = t.out /\ u.is_data_new = t.is_data_new
           /\ u.data_byte = t.data_byte
  BY <1>2 DEF Leads, Lined
<1>3. CASE /\ ~t.is_data_new /\ t.buf # <<>>
           /\ u.buf = Tail(t.buf) /\ u.out = Head(t.buf) /\ u.is_data_new
           /\ u.data_byte = Head(t.buf).key
  <2>1. \A f \in Nat : Line(t.buf, K, f, t.nextKey) =>
          /\ Line(u.buf, K, f, t.nextKey)
          /\ u.data_byte > 0 => /\ u.data_byte > f /\ u.data_byte <= t.nextKey
                                /\ Line(u.buf, K, u.data_byte, t.nextKey)
    BY <1>1, <1>3, LineTail
  <2>2. u.out.key = u.data_byte /\ u.data_byte \in Nat
    BY <1>3, StateFacts
  <2>3. Lined(t, K) => Lined(u, K)
    BY <1>1, <2>1, <2>2 DEF Lined
  <2> QED
    BY <2>1, <2>3 DEF Leads
<1> QED
  BY <1>2, <1>3 DEF Moves

LEMMA BufferAddLeads ==
  ASSUME NEW t \in State, NEW b \in Byte, ~Blocked(t, b.from),
         NEW K \in SUBSET Nat, NEW K2, Takes(b, K, K2)
  PROVE  Leads(t, BufferAdd(t, b), K, K2)
<1> DEFINE v == Appended(t, b)
           u == BufferAdd(t, b)
<1>1. Moves(v, u) /\ u \in State /\ SameRest(t, u)
  BY BufferAddGrows DEF Grows
<1>2. /\ v \in State /\ SameRest(t, v) /\ v.buf = Append(t.buf, b)
      /\ v.out = t.out /\ v.is_data_new = t.is_data_new /\ v.data_byte = t.data_byte
  BY AppendedIs
<1> HIDE DEF u, v
<1>3. /\ t.buf \in Seq(Byte) /\ t.nextKey \in Nat /\ t.lastRead \in Nat /\ t.out \in Byte
      /\ t.data_byte \in Nat
  BY StateFacts
<1>4. t.out.key \in Nat
  BY <1>3 DEF Byte
<1>5. \A f \in Nat : Line(t.buf, K, f, t.nextKey) => Line(v.buf, K2, f, t.nextKey)
  BY <1>2, <1>3, LineAppend
<1>6. v.nextKey = t.nextKey /\ v.lastRead = t.lastRead /\ u.nextKey = t.nextKey /\ u.lastRead = t.lastRead
  BY <1>1, <1>2 DEF SameRest
<1>7. Lined(t, K) => Lined(v, K2)
  BY <1>2, <1>3, <1>4, <1>5, <1>6 DEF Lined
<1>8. Leads(t, v, K, K2)
  BY <1>5, <1>7 DEF Leads
<1>9. K2 \in SUBSET Nat
  BY DEF Takes
<1>10. Leads(v, u, K2, K2)
  BY <1>1, <1>2, <1>6, <1>9, MovesLeads
<1> QED
  BY <1>6, <1>8, <1>10, LeadsOn DEF u

-----------------------------------------------------------------------------
(* Adding a list of bytes.                                                 *)

AddsUpTo(f, t, q, n) ==
  /\ f = [i \in 0..n |-> f[i]]
  /\ \A i \in 0..n : f[i] = IF i = 0 THEN t ELSE BufferAdd(f[i - 1], q[i])

IsAdded(f, t, q) == f = [i \in 0..Len(q) |-> IF i = 0 THEN t ELSE BufferAdd(f[i - 1], q[i])]

(* The states BufferAddAll goes through.                                   *)
LEMMA AddedOneByOne ==
  ASSUME NEW t, NEW q \in Seq(Byte)
  PROVE  \E g : /\ g[0] = t /\ BufferAddAll(t, q) = g[Len(q)]
                /\ \A i \in 1..Len(q) : g[i] = BufferAdd(g[i - 1], q[i])
<1> DEFINE N == Len(q)
           T == {n \in 0..N : \E f : AddsUpTo(f, t, q, n)}
<1>1. N \in Nat
  OBVIOUS
<1> HIDE DEF N
<1>2. 0 \in T
  <2> DEFINE f == [i \in 0..0 |-> t]
  <2>1. AddsUpTo(f, t, q, 0)
    BY DEF AddsUpTo
  <2> QED
    BY <1>1, <2>1
<1>3. ASSUME NEW n \in 1..N, n - 1 \in T PROVE n \in T
  <2>1. PICK f : AddsUpTo(f, t, q, n - 1)
    BY <1>3
  <2> DEFINE g == [i \in 0..n |-> IF i = n THEN BufferAdd(f[n - 1], q[n]) ELSE f[i]]
  <2>2. n - 1 \in 0..n - 1 /\ n \in Nat
    BY <1>1
  <2>3. g = [i \in 0..n |-> g[i]]
    OBVIOUS
  <2>4. ASSUME NEW i \in 0..n PROVE g[i] = IF i = 0 THEN t ELSE BufferAdd(g[i - 1], q[i])
    <3>1. CASE i = n
      <4>1. g[i] = BufferAdd(f[n - 1], q[n]) /\ i # 0 /\ g[i - 1] = f[n - 1]
        BY <1>3, <2>2, <3>1
      <4> QED
        BY <3>1, <4>1
    <3>2. CASE i # n
      <4>1. i \in 0..n - 1 /\ g[i] = f[i] /\ (i # 0 => g[i - 1] = f[i - 1])
        BY <2>2, <3>2
      <4>2. f[i] = IF i = 0 THEN t ELSE BufferAdd(f[i - 1], q[i])
        BY <2>1, <4>1 DEF AddsUpTo
      <4> QED
        BY <4>1, <4>2
    <3> QED
      BY <3>1, <3>2
  <2> HIDE DEF g
  <2>5. AddsUpTo(g, t, q, n)
    BY <2>3, <2>4 DEF AddsUpTo
  <2> QED
    BY <2>5
<1> HIDE DEF T
<1>4. N \in T
  <2>1. 0..N \subseteq T
    BY <1>1, <1>2, <1>3, InductionUpTo
  <2> QED
    BY <1>1, <2>1
<1>5. PICK f : AddsUpTo(f, t, q, N)
  BY <1>4 DEF T
<1>6. f = [i \in 0..N |-> IF i = 0 THEN t ELSE BufferAdd(f[i - 1], q[i])]
  BY <1>5 DEF AddsUpTo
<1>7. IsAdded(f, t, q)
  BY <1>6 DEF IsAdded, N
<1> DEFINE g == CHOOSE h : IsAdded(h, t, q)
<1>8. BufferAddAll(t, q) = g[N]
  BY DEF BufferAddAll, IsAdded, N
<1>9. IsAdded(g, t, q)
  BY <1>7
<1> HIDE DEF g
<1>10. \A i \in 0..N : g[i] = IF i = 0 THEN t ELSE BufferAdd(g[i - 1], q[i])
  BY <1>9 DEF IsAdded, N
<1>11. g[0] = t /\ \A i \in 1..N : g[i] = BufferAdd(g[i - 1], q[i])
  BY <1>1, <1>10
<1> QED
  BY <1>8, <1>11 DEF N

(* Bytes of x that is blocked are dropped.                                 *)
LEMMA AddBlocked ==
  ASSUME NEW t, NEW q \in Seq(Byte), NEW x, \A i \in DOMAIN q : q[i].from = x, Blocked(t, x)
  PROVE  BufferAddAll(t, q) = t
<1>1. PICK g : /\ g[0] = t /\ BufferAddAll(t, q) = g[Len(q)]
               /\ \A i \in 1..Len(q) : g[i] = BufferAdd(g[i - 1], q[i])
  BY AddedOneByOne
<1> DEFINE N == Len(q)
           T == {i \in 0..N : g[i] = t}
<1>2. N \in Nat /\ DOMAIN q = 1..N
  OBVIOUS
<1> HIDE DEF N
<1>3. 0 \in T
  BY <1>1, <1>2
<1>4. ASSUME NEW i \in 1..N, i - 1 \in T PROVE i \in T
  <2>1. g[i] = BufferAdd(t, q[i]) /\ q[i].from = x
    BY <1>1, <1>2, <1>4 DEF N
  <2> QED
    BY <1>2, <2>1 DEF BufferAdd, Blocked
<1> HIDE DEF T
<1>5. 0..N \subseteq T
  BY <1>2, <1>3, <1>4, InductionUpTo
<1> QED
  BY <1>1, <1>2, <1>5 DEF T, N

LEMMA KeptOn ==
  ASSUME NEW t \in State, NEW u \in State, NEW v \in State, Kept(t, u), Kept(u, v)
  PROVE  Kept(t, v)
<1> SUFFICES ASSUME t.is_data_new
             PROVE  /\ v.is_data_new /\ v.out = t.out
                    /\ \A d \in Devices : v.waiting[d] + Bytes(t.buf, d) = t.waiting[d] + Bytes(v.buf, d)
  BY DEF Kept
<1>1. /\ u.is_data_new /\ u.out = t.out /\ v.is_data_new /\ v.out = u.out
      /\ \A d \in Devices : /\ u.waiting[d] + Bytes(t.buf, d) = t.waiting[d] + Bytes(u.buf, d)
                            /\ v.waiting[d] + Bytes(u.buf, d) = u.waiting[d] + Bytes(v.buf, d)
  BY DEF Kept
<1>2. ASSUME NEW d \in Devices
      PROVE  v.waiting[d] + Bytes(t.buf, d) = t.waiting[d] + Bytes(v.buf, d)
  <2> DEFINE a == t.waiting[d]
             b == u.waiting[d]
             c == v.waiting[d]
             i == Bytes(t.buf, d)
             j == Bytes(u.buf, d)
             k == Bytes(v.buf, d)
  <2>1. a \in Nat /\ b \in Nat /\ c \in Nat /\ i \in Nat /\ j \in Nat /\ k \in Nat
    BY StateFacts
  <2>2. b + i = a + j /\ c + j = b + k
    BY <1>1
  <2> HIDE DEF a, b, c, i, j, k
  <2>3. c + i = a + k
    BY <2>1, <2>2
  <2> QED
    BY <2>3 DEF a, c, i, k
<1> QED
  BY <1>1, <1>2

LEMMA GrowsOn ==
  ASSUME NEW t \in State, NEW u, NEW v, NEW x, NEW n \in Nat, Grows(t, u, x, n), Grows(u, v, x, 1)
  PROVE  Grows(t, v, x, n + 1)
<1>1. u \in State /\ v \in State
  BY DEF Grows
<1>2. SameRest(t, v)
  BY DEF Grows, SameRest
<1>3. /\ \A d \in Devices : t.waiting[d] \in Nat /\ u.waiting[d] \in Nat /\ v.waiting[d] \in Nat
      /\ Len(t.buf) \in Nat /\ Len(u.buf) \in Nat /\ Len(v.buf) \in Nat
      /\ \A d : Bytes(t.buf, d) \in Nat /\ Bytes(u.buf, d) \in Nat /\ Bytes(v.buf, d) \in Nat
  <2>1. \A d \in Devices : t.waiting[d] \in Nat /\ u.waiting[d] \in Nat /\ v.waiting[d] \in Nat
    BY <1>1, StateFacts
  <2>2. Len(t.buf) \in Nat /\ Len(u.buf) \in Nat /\ Len(v.buf) \in Nat
    BY <1>1, StateFacts
  <2>3. \A d : Bytes(t.buf, d) \in Nat /\ Bytes(u.buf, d) \in Nat /\ Bytes(v.buf, d) \in Nat
    BY <1>1, StateFacts
  <2> QED
    BY <2>1, <2>2, <2>3
<1>4. \A d \in Devices : /\ u.waiting[d] = t.waiting[d] + (IF d = x THEN n ELSE 0)
                         /\ v.waiting[d] = u.waiting[d] + (IF d = x THEN 1 ELSE 0)
  BY DEF Grows
<1>5. v.waiting = [d \in Devices |-> t.waiting[d] + (IF d = x THEN n + 1 ELSE 0)]
  <2>1. v.waiting \in [Devices -> Nat]
    BY <1>1, StateFacts
  <2>2. \A d \in Devices : v.waiting[d] = t.waiting[d] + (IF d = x THEN n + 1 ELSE 0)
    BY <1>3, <1>4
  <2> QED
    BY <2>1, <2>2
<1>6. Kept(t, v)
  <2>1. Kept(t, u) /\ Kept(u, v)
    BY DEF Grows
  <2> QED
    BY <1>1, <2>1, KeptOn
<1>7. Len(v.buf) <= Len(t.buf) + (n + 1)
  <2> DEFINE a == Len(t.buf)
             b == Len(u.buf)
             c == Len(v.buf)
  <2>1. b <= a + n /\ c <= b + 1
    BY DEF Grows
  <2>2. a \in Nat /\ b \in Nat /\ c \in Nat /\ n \in Nat
    BY <1>3
  <2> HIDE DEF a, b, c
  <2>3. c <= a + (n + 1)
    BY <2>1, <2>2
  <2> QED
    BY <2>3 DEF a, c
<1>8. Bytes(v.buf, "ctl") <= Bytes(t.buf, "ctl") + (IF x = "ctl" THEN n + 1 ELSE 0)
  BY <1>3 DEF Grows
<1> QED
  BY <1>1, <1>2, <1>5, <1>6, <1>7, <1>8 DEF Grows

LEMMA GrowsNot ==
  ASSUME NEW t \in State, NEW x
  PROVE  Grows(t, t, x, 0)
<1>1. t.waiting \in [Devices -> Nat] /\ \A d \in Devices : t.waiting[d] \in Nat
  BY StateFacts
<1>2. Len(t.buf) \in Nat /\ Bytes(t.buf, "ctl") \in Nat
  BY StateFacts
<1>3. t.waiting = [d \in Devices |-> t.waiting[d] + (IF d = x THEN 0 ELSE 0)]
  BY <1>1
<1>4. SameRest(t, t) /\ Kept(t, t)
  BY DEF SameRest, Kept
<1> QED
  BY <1>2, <1>3, <1>4 DEF Grows

(* A list of bytes of x that take the numbers from KK[0] to KK[Len(q)].    *)
LEMMA AddAllGrows ==
  ASSUME NEW t \in State, NEW q \in Seq(Byte), NEW x, \A i \in DOMAIN q : q[i].from = x, ~Blocked(t, x),
         NEW KK \in [0..Len(q) -> SUBSET Nat], \A i \in DOMAIN q : Takes(q[i], KK[i - 1], KK[i])
  PROVE  Grows(t, BufferAddAll(t, q), x, Len(q)) /\ Leads(t, BufferAddAll(t, q), KK[0], KK[Len(q)])
<1>1. PICK g : /\ g[0] = t /\ BufferAddAll(t, q) = g[Len(q)]
               /\ \A i \in 1..Len(q) : g[i] = BufferAdd(g[i - 1], q[i])
  BY AddedOneByOne
<1> DEFINE N == Len(q)
           T == {i \in 0..N : Grows(t, g[i], x, i) /\ Leads(t, g[i], KK[0], KK[i])}
<1>2. N \in Nat /\ DOMAIN q = 1..N /\ \A i \in 1..N : q[i] \in Byte
  OBVIOUS
<1>3. \A i \in 0..N : KK[i] \in SUBSET Nat
  OBVIOUS
<1> HIDE DEF N
<1>4. 0 \in T
  <2>1. Leads(t, t, KK[0], KK[0])
    BY DEF Leads
  <2> QED
    BY <1>1, <1>2, <2>1, GrowsNot
<1>5. ASSUME NEW i \in 1..N, i - 1 \in T PROVE i \in T
  <2>1. g[i] = BufferAdd(g[i - 1], q[i]) /\ q[i].from = x /\ q[i] \in Byte
    BY <1>1, <1>2 DEF N
  <2>2. Grows(t, g[i - 1], x, i - 1) /\ Leads(t, g[i - 1], KK[0], KK[i - 1])
    BY <1>5
  <2>3. g[i - 1] \in State /\ SameRest(t, g[i - 1])
    BY <2>2 DEF Grows
  <2>4. ~Blocked(g[i - 1], x) /\ g[i - 1].nextKey = t.nextKey
    BY <2>3 DEF SameRest, Blocked
  <2>5. Grows(g[i - 1], g[i], x, 1)
    BY <2>1, <2>3, <2>4, BufferAddGrows
  <2>6. i - 1 \in Nat /\ (i - 1) + 1 = i /\ i \in 0..N /\ i - 1 \in 0..N
    BY <1>2
  <2>7. Grows(t, g[i], x, (i - 1) + 1)
    BY <2>2, <2>5, <2>6, GrowsOn
  <2>8. Takes(q[i], KK[i - 1], KK[i]) /\ KK[i - 1] \in SUBSET Nat
    BY <1>2, <1>3, <2>6
  <2>9. Leads(g[i - 1], g[i], KK[i - 1], KK[i])
    BY <2>1, <2>3, <2>4, <2>8, BufferAddLeads
  <2>10. Leads(t, g[i], KK[0], KK[i])
    BY <2>2, <2>4, <2>9, LeadsOn
  <2> QED
    BY <2>6, <2>7, <2>10
<1> HIDE DEF T
<1>6. 0..N \subseteq T
  BY <1>2, <1>4, <1>5, InductionUpTo
<1>7. N \in T
  BY <1>2, <1>6
<1> QED
  BY <1>1, <1>7 DEF T, N

(* A list of bytes that belong to no scancode.                             *)
Plain(q, x) == q \in Seq(Byte) /\ \A i \in DOMAIN q : q[i].from = x /\ q[i].key = 0

LEMMA AddPlain ==
  ASSUME NEW t \in State, NEW x, NEW q, Plain(q, x), ~Blocked(t, x), NEW K \in SUBSET Nat
  PROVE  Grows(t, BufferAddAll(t, q), x, Len(q)) /\ Leads(t, BufferAddAll(t, q), K, K)
<1> DEFINE KK == [i \in 0..Len(q) |-> K]
<1>1. q \in Seq(Byte) /\ (\A i \in DOMAIN q : q[i].from = x) /\ Len(q) \in Nat
  BY DEF Plain
<1>2. KK \in [0..Len(q) -> SUBSET Nat] /\ KK[0] = K /\ KK[Len(q)] = K
  BY <1>1
<1>3. \A i \in DOMAIN q : Takes(q[i], KK[i - 1], KK[i])
  <2> TAKE i \in DOMAIN q
  <2>1. i \in 0..Len(q) /\ i - 1 \in 0..Len(q) /\ q[i].key = 0
    BY <1>1 DEF Plain
  <2> QED
    BY <2>1 DEF Takes
<1> HIDE DEF KK
<1>4. Grows(t, BufferAddAll(t, q), x, Len(q)) /\ Leads(t, BufferAddAll(t, q), KK[0], KK[Len(q)])
  BY <1>1, <1>2, <1>3, AddAllGrows
<1> QED
  BY <1>2, <1>4

-----------------------------------------------------------------------------
(* What the operators from state to state preserve.                        *)

(* What a flush leaves: at most a frame of each device, all counted.       *)
Clear(t) ==
  /\ Exact(t) /\ Bytes(t.buf, "ctl") = 0
  /\ t.waiting["kbd"] <= KeyMax /\ t.waiting["aux"] <= FrameLength

(* No port is disabled, no dump begins, nothing is read or pressed.        *)
Flags(t, u) ==
  /\ u.lastRead = t.lastRead /\ u.nextKey = t.nextKey /\ u.dump = t.dump
  /\ u.disabled["aux"] = t.disabled["aux"] /\ (~t.disabled["kbd"] => ~u.disabled["kbd"])
  /\ ~t.has_data => ~u.has_data

(* The counters stay as good as they were.                                 *)
Counts(t, u) ==
  /\ Counted(t) => Counted(u)
  /\ Exact(t) => Exact(u)
  /\ Within(t) => Within(u)
  /\ Clear(t) => Clear(u)
  /\ Kept(t, u) \/ Exact(u)

(* A device that waits for nothing still does not.                         *)
Serves(t, u) ==
  /\ MouseServed(t) => MouseServed(u)
  /\ ~t.disabled["kbd"] /\ KbdServed(t) => KbdServed(u)

(* A step that may flush the buffer.                                       *)
Soft(t, u) ==
  /\ Good(u) /\ Flags(t, u) /\ Counts(t, u) /\ Serves(t, u)
  /\ Leads(t, u, Numbers(t.keys), Numbers(u.keys))

(* A step that does not as long as there is room.                          *)
Rel(t, u) == Soft(t, u) /\ (Within(t) => Kept(t, u))

LEMMA RelRefl ==
  ASSUME NEW t, Good(t)
  PROVE  Rel(t, t) /\ Kept(t, t)
<1>1. Kept(t, t)
  BY DEF Kept
<1>2. Leads(t, t, Numbers(t.keys), Numbers(t.keys))
  BY DEF Leads
<1> QED
  BY <1>1, <1>2 DEF Rel, Soft, Flags, Counts, Serves

LEMMA SoftOn ==
  ASSUME NEW t, NEW u, NEW v, Good(t), Soft(t, u), Soft(u, v)
  PROVE  Soft(t, v)
<1>1. t \in State /\ u \in State /\ v \in State /\ Good(v)
  BY DEF Soft, Good
<1>2. Flags(t, v) /\ u.nextKey = t.nextKey /\ (~t.disabled["kbd"] => ~u.disabled["kbd"])
  BY DEF Soft, Flags
<1>3. Leads(t, v, Numbers(t.keys), Numbers(v.keys))
  BY <1>2, LeadsOn DEF Soft
<1>4. Serves(t, v)
  BY <1>2 DEF Soft, Serves
<1>5. Kept(t, u) /\ Kept(u, v) => Kept(t, v)
  BY <1>1, KeptOn
<1>6. Counts(t, v)
  BY <1>5 DEF Soft, Counts
<1> QED
  BY <1>1, <1>2, <1>3, <1>4, <1>6 DEF Soft

LEMMA RelOn ==
  ASSUME NEW t, NEW u, NEW v, Good(t), Rel(t, u), Rel(u, v)
  PROVE  Rel(t, v)
<1>1. Soft(t, v)
  BY SoftOn DEF Rel
<1>2. t \in State /\ u \in State /\ v \in State
  BY DEF Rel, Soft, Good
<1>3. Within(t) => Within(u)
  BY DEF Rel, Soft, Counts
<1>4. Within(t) => Kept(t, v)
  BY <1>2, <1>3, KeptOn DEF Rel
<1> QED
  BY <1>1, <1>4 DEF Rel

(* A flush that happens only when there is no room.                        *)
LEMMA SoftThenRel ==
  ASSUME NEW t, NEW b, NEW u, Good(t), Soft(t, b), Within(t) => b = t, Rel(b, u)
  PROVE  Rel(t, u)
<1>1. Soft(t, u)
  BY SoftOn DEF Rel
<1> QED
  BY <1>1 DEF Rel

LEMMA SoftHolds ==
  ASSUME NEW g, NEW t, NEW u, Soft(t, u)
  PROVE  (Sound(g, t) => Sound(g, u)) /\ (Holds(g, t) => Holds(g, u))
<1>1. ASSUME Sound(g, t) PROVE Sound(g, u)
  BY <1>1 DEF Sound, Soft, Flags, Counts, Leads
<1>2. ASSUME Holds(g, t) PROVE Holds(g, u)
  <2>1. Sound(g, t) /\ Sound(g, u)
    BY <1>1, <1>2 DEF Holds
  <2> QED
    BY <1>2, <2>1 DEF Holds, Sound, Soft, Serves
<1> QED
  BY <1>1, <1>2

(* A step that leaves the bytes on their way alone.                        *)
SameBytes(t, u) ==
  /\ u.buf = t.buf /\ u.out = t.out /\ u.is_data_new = t.is_data_new /\ u.waiting = t.waiting
  /\ u.data_byte = t.data_byte
  /\ u.nextKey = t.nextKey /\ u.lastRead = t.lastRead

LEMMA SameBytesKeeps ==
  ASSUME NEW t, NEW u, Good(t), u \in State, SameBytes(t, u), InTurn(u.keys),
         Numbers(u.keys) \subseteq Numbers(t.keys)
  PROVE  /\ Good(u) /\ Counts(t, u) /\ Kept(t, u) /\ (Within(t) <=> Within(u))
         /\ Leads(t, u, Numbers(t.keys), Numbers(u.keys))
<1>1. Good(u)
  BY DEF Good, SameBytes, IdleIsCtl, Covered
<1>2. \A d : IsOut(u, d) = IsOut(t, d)
  BY DEF SameBytes, IsOut
<1>3. (Exact(t) <=> Exact(u)) /\ (Counted(t) <=> Counted(u))
  BY <1>2 DEF SameBytes, Exact, Counted
<1>4. (Within(t) <=> Within(u)) /\ Kept(t, u)
  BY DEF SameBytes, Within, Kept
<1>5. Clear(t) => Clear(u)
  BY <1>3 DEF SameBytes, Clear
<1>6. \A f : Line(t.buf, Numbers(t.keys), f, t.nextKey) => Line(u.buf, Numbers(u.keys), f, t.nextKey)
  BY LineFewer DEF SameBytes
<1>7. Lined(t, Numbers(t.keys)) => Lined(u, Numbers(u.keys))
  BY <1>6 DEF Lined, SameBytes
<1>8. Leads(t, u, Numbers(t.keys), Numbers(u.keys))
  BY <1>6, <1>7 DEF Leads
<1> QED
  BY <1>1, <1>3, <1>4, <1>5, <1>8 DEF Counts

-----------------------------------------------------------------------------
(* Room in the buffer.                                                     *)

LEMMA ClearIsWithin ==
  ASSUME NEW t \in State, Clear(t)
  PROVE  Within(t) /\ Len(t.buf) + MaxReplies <= BufferSize
<1> DEFINE l == Len(t.buf)
           k == Bytes(t.buf, "kbd")
           a == Bytes(t.buf, "aux")
           c == Bytes(t.buf, "ctl")
           wk == t.waiting["kbd"]
           wa == t.waiting["aux"]
<1>1. /\ k \in Nat /\ a \in Nat /\ c = 0 /\ wk \in Nat /\ wa \in Nat
      /\ wk <= KeyMax /\ wa <= FrameLength
  BY StateFacts DEF Clear, Devices
<1>2. k <= wk /\ a <= wa
  <2>1. \A d : IsOut(t, d) \in {0, 1}
    BY DEF IsOut
  <2>2. IsOut(t, "kbd") + k = wk /\ IsOut(t, "aux") + a = wa
    BY DEF Clear, Exact, Devices
  <2> QED
    BY <1>1, <2>1, <2>2
<1>3. l = k + (a + c)
  BY StateFacts, BytesOfAll
<1>4. Within(t) <=> Beyond(wk, KeyMax) + (Beyond(wa, FrameLength) + c) <= MaxReplies
  BY DEF Within
<1> HIDE DEF l, k, a, c, wk, wa
<1>5. Beyond(wk, KeyMax) = 0 /\ Beyond(wa, FrameLength) = 0
  BY <1>1, Sizes DEF Beyond
<1>6. Within(t) /\ l + MaxReplies <= BufferSize
  BY <1>1, <1>2, <1>3, <1>4, <1>5, Sizes
<1> QED
  BY <1>6 DEF l

(* The longest frame of a device.                                          *)
Longest(x) == IF x = "kbd" THEN KeyMax ELSE FrameLength

LEMMA RoomForFrame ==
  ASSUME NEW t, Good(t), Within(t), NEW x \in Devices, t.waiting[x] = 0
  PROVE  Len(t.buf) + Longest(x) <= BufferSize
<1> DEFINE l == Len(t.buf)
           k == Bytes(t.buf, "kbd")
           a == Bytes(t.buf, "aux")
           c == Bytes(t.buf, "ctl")
           wk == t.waiting["kbd"]
           wa == t.waiting["aux"]
<1>1. t \in State /\ k <= wk /\ a <= wa
  BY DEF Good, Covered, Devices
<1>2. k \in Nat /\ a \in Nat /\ c \in Nat /\ wk \in Nat /\ wa \in Nat
  BY <1>1, StateFacts DEF Devices
<1>3. l = k + (a + c)
  BY <1>1, StateFacts, BytesOfAll
<1>4. Beyond(wk, KeyMax) + (Beyond(wa, FrameLength) + c) <= MaxReplies
  BY DEF Within
<1>5. (x = "kbd" /\ wk = 0) \/ (x = "aux" /\ wa = 0)
  BY DEF Devices
<1> HIDE DEF l, k, a, c, wk, wa
<1>6. /\ Beyond(wk, KeyMax) \in Nat /\ wk <= KeyMax + Beyond(wk, KeyMax)
      /\ Beyond(wa, FrameLength) \in Nat /\ wa <= FrameLength + Beyond(wa, FrameLength)
  BY <1>2, Sizes DEF Beyond
<1>7. CASE x = "kbd" /\ wk = 0
  BY <1>1, <1>2, <1>3, <1>4, <1>6, <1>7, Sizes DEF Longest, l
<1>8. CASE x = "aux" /\ wa = 0
  BY <1>1, <1>2, <1>3, <1>4, <1>6, <1>8, Sizes DEF Longest, l
<1> QED
  BY <1>5, <1>7, <1>8

(* Up to a frame of x has been added while none was on its way.            *)
LEMMA GrowsByFrame ==
  ASSUME NEW t, NEW u, Good(t), NEW x \in Devices, NEW n \in Nat, n <= Longest(x),
         t.waiting[x] = 0, Grows(t, u, x, n), Len(t.buf) + n <= BufferSize
  PROVE  Good(u) /\ Flags(t, u) /\ Counts(t, u) /\ Kept(t, u)
<1>1. t \in State /\ u \in State /\ SameRest(t, u) /\ Kept(t, u)
  BY DEF Good, Grows
<1>2. Len(u.buf) <= BufferSize
  <2>1. Len(u.buf) \in Nat /\ Len(t.buf) \in Nat /\ Len(u.buf) <= Len(t.buf) + n
    BY <1>1, StateFacts DEF Grows
  <2> QED
    BY <2>1, Sizes
<1>3. Good(u)
  BY <1>1, <1>2 DEF Good, Grows, SameRest
<1>4. Flags(t, u)
  BY <1>1 DEF Flags, SameRest
<1> DEFINE wk == t.waiting["kbd"]
           wa == t.waiting["aux"]
           vk == u.waiting["kbd"]
           va == u.waiting["aux"]
           c == Bytes(t.buf, "ctl")
           e == Bytes(u.buf, "ctl")
<1>5. wk \in Nat /\ wa \in Nat /\ c \in Nat /\ e \in Nat
  BY <1>1, StateFacts DEF Devices
<1>6. e <= c
  BY <1>5 DEF Grows, Devices
<1>7. \/ wk = 0 /\ vk = n /\ va = wa /\ n <= KeyMax
      \/ wa = 0 /\ va = n /\ vk = wk /\ n <= FrameLength
  BY <1>5 DEF Grows, Devices, Longest
<1>8. /\ Within(t) <=> Beyond(wk, KeyMax) + (Beyond(wa, FrameLength) + c) <= MaxReplies
      /\ Within(u) <=> Beyond(vk, KeyMax) + (Beyond(va, FrameLength) + e) <= MaxReplies
      /\ Clear(t) => c = 0 /\ wk <= KeyMax /\ wa <= FrameLength /\ Exact(u)
      /\ Exact(u) /\ e = 0 /\ vk <= KeyMax /\ va <= FrameLength => Clear(u)
  BY DEF Within, Clear, Grows
<1> HIDE DEF wk, wa, vk, va, c, e
<1>9. Beyond(vk, KeyMax) = Beyond(wk, KeyMax) /\ Beyond(va, FrameLength) = Beyond(wa, FrameLength)
  BY <1>5, <1>7, Sizes DEF Beyond
<1>10. Beyond(wk, KeyMax) \in Nat /\ Beyond(wa, FrameLength) \in Nat
  BY <1>5, Sizes DEF Beyond
<1>11. Within(t) => Within(u)
  BY <1>5, <1>6, <1>8, <1>9, <1>10, Sizes
<1>12. Clear(t) => Clear(u)
  BY <1>5, <1>6, <1>7, <1>8, Sizes
<1>13. Counts(t, u)
  BY <1>1, <1>11, <1>12 DEF Counts, Grows
<1> QED
  BY <1>1, <1>3, <1>4, <1>13

-----------------------------------------------------------------------------
(* A scancode or a mouse frame is sent.                                    *)

LEMMA CodeFacts ==
  ASSUME NEW c \in Code
  PROVE  /\ c \in Seq(Byte) /\ c # <<>> /\ DOMAIN c = 1..Len(c)
         /\ Len(c) \in Nat \ {0} /\ Len(c) <= KeyMax
         /\ \A i \in 1..Len(c) : c[i].from = "kbd" /\ c[i].key > 0 /\ c[i].key \in Nat
         /\ \A i, j \in 1..Len(c) : i < j => c[i].key < c[j].key
         /\ Head(c).from = "kbd"
<1>1. c \in Seq(Byte) /\ c # <<>> /\ Len(c) <= KeyMax /\ DOMAIN c = 1..Len(c)
  BY DEF Code
<1>2. Len(c) \in Nat \ {0}
  BY <1>1, EmptySeq
<1>3. /\ \A i \in 1..Len(c) : c[i].from = "kbd" /\ c[i].key > 0
      /\ \A i, j \in 1..Len(c) : i < j => c[i].key < c[j].key
  BY <1>1 DEF Code
<1>4. \A i \in 1..Len(c) : c[i].key \in Nat
  <2>1. \A i \in 1..Len(c) : c[i] \in Byte
    BY <1>1
  <2> QED
    BY <2>1 DEF Byte
<1>5. Head(c).from = "kbd"
  BY <1>1, <1>2, <1>3
<1> QED
  BY <1>1, <1>2, <1>3, <1>4, <1>5

(* The numbers to come when i bytes of the first scancode have been sent.  *)
Left(ks, i) ==
  {m \in Nat : \E j \in DOMAIN Head(ks) : j > i /\ Head(ks)[j].key = m} \cup Numbers(Tail(ks))

LEMMA HeadAndTailOfKeys ==
  ASSUME NEW ks \in Seq(Code), ks # <<>>
  PROVE  /\ Head(ks) \in Code /\ Head(ks) = ks[1] /\ Tail(ks) \in Seq(Code)
         /\ Len(ks) \in Nat \ {0} /\ DOMAIN ks = 1..Len(ks) /\ DOMAIN Tail(ks) = 1..Len(ks) - 1
         /\ \A i \in 1..Len(ks) - 1 : Tail(ks)[i] = ks[i + 1] /\ i + 1 \in 1..Len(ks)
  BY HeadTailProperties, EmptySeq

LEMMA TailOfKeys ==
  ASSUME NEW ks \in Seq(Code), ks # <<>>, InTurn(ks)
  PROVE  /\ InTurn(Tail(ks)) /\ Numbers(Tail(ks)) \subseteq Numbers(ks)
         /\ \A m \in Numbers(Tail(ks)) : \A j \in DOMAIN Head(ks) : Head(ks)[j].key < m
         /\ Left(ks, 0) = Numbers(ks)
<1> DEFINE h == Head(ks)
           r == Tail(ks)
           n == Len(ks) - 1
<1>1. /\ h \in Code /\ h = ks[1] /\ r \in Seq(Code) /\ Len(ks) \in Nat \ {0}
      /\ DOMAIN ks = 1..Len(ks) /\ DOMAIN r = 1..n
      /\ \A i \in 1..n : r[i] = ks[i + 1] /\ i + 1 \in 1..Len(ks)
  BY HeadAndTailOfKeys
<1> HIDE DEF h, r
<1>2. \A k \in 2..Len(ks) : k - 1 \in 1..n /\ r[k - 1] = ks[k]
  BY <1>1
<1>3. InTurn(r)
  <2> SUFFICES ASSUME NEW k \in 1..n, NEW l \in 1..n, k < l,
                      NEW i \in DOMAIN r[k], NEW j \in DOMAIN r[l]
               PROVE  r[k][i].key < r[l][j].key
    BY <1>1 DEF InTurn
  <2>1. /\ r[k] = ks[k + 1] /\ r[l] = ks[l + 1] /\ k + 1 \in DOMAIN ks /\ l + 1 \in DOMAIN ks
        /\ k + 1 < l + 1
    BY <1>1
  <2> QED
    BY <2>1 DEF InTurn
<1>4. Numbers(r) \subseteq Numbers(ks)
  BY <1>1 DEF Numbers
<1>5. ASSUME NEW m \in Numbers(r), NEW j \in DOMAIN h PROVE h[j].key < m
  <2>1. PICK k \in 1..n : \E i \in DOMAIN r[k] : r[k][i].key = m
    BY <1>1 DEF Numbers
  <2>2. 1 \in DOMAIN ks /\ k + 1 \in DOMAIN ks /\ 1 < k + 1 /\ r[k] = ks[k + 1]
    BY <1>1
  <2> QED
    BY <1>1, <2>1, <2>2, SMTT(30) DEF InTurn
<1>6. Left(ks, 0) = Numbers(ks)
  <2>1. ASSUME NEW m \in Left(ks, 0) PROVE m \in Numbers(ks)
    <3>1. CASE m \in Numbers(r)
      BY <1>4, <3>1
    <3>2. CASE m \in Nat /\ \E j \in DOMAIN h : h[j].key = m
      <4>1. 1 \in DOMAIN ks
        BY <1>1
      <4> QED
        BY <1>1, <3>2, <4>1 DEF Numbers
    <3> QED
      BY <3>1, <3>2 DEF Left, h, r
  <2>2. ASSUME NEW m \in Numbers(ks) PROVE m \in Left(ks, 0)
    <3>1. m \in Nat
      BY DEF Numbers
    <3>2. PICK k \in 1..Len(ks) : \E i \in DOMAIN ks[k] : ks[k][i].key = m
      BY <1>1 DEF Numbers
    <3>3. CASE k = 1
      <4>1. DOMAIN h = 1..Len(h)
        BY <1>1, CodeFacts
      <4>2. \E j \in DOMAIN h : j > 0 /\ h[j].key = m
        BY <1>1, <3>2, <3>3, <4>1
      <4> QED
        BY <3>1, <4>2 DEF Left, h
    <3>4. CASE k # 1
      <4>1. k - 1 \in DOMAIN r /\ r[k - 1] = ks[k]
        BY <1>1, <1>2, <3>4
      <4>2. m \in Numbers(r)
        BY <3>1, <3>2, <4>1 DEF Numbers
      <4> QED
        BY <4>2 DEF Left, r
    <3> QED
      BY <3>3, <3>4
  <2> QED
    BY <2>1, <2>2
<1> QED
  BY <1>3, <1>4, <1>5, <1>6 DEF h, r

(* The first scancode of t is added to the buffer.                         *)
LEMMA AddCode ==
  ASSUME NEW t, Good(t), t.keys # <<>>, ~t.disabled["kbd"]
  PROVE  /\ Grows(t, BufferAddAll(t, Head(t.keys)), "kbd", Len(Head(t.keys)))
         /\ Leads(t, BufferAddAll(t, Head(t.keys)), Numbers(t.keys), Numbers(Tail(t.keys)))
<1> DEFINE ks == t.keys
           h == Head(ks)
           N == Len(h)
           KK == [i \in 0..N |-> Left(ks, i)]
<1>1. t \in State /\ ks \in Seq(Code) /\ InTurn(ks) /\ ks # <<>>
  BY StateFacts DEF Good
<1> HIDE DEF ks
<1>2. h \in Code
  BY <1>1, HeadAndTailOfKeys
<1>3. /\ \A m \in Numbers(Tail(ks)) : \A j \in DOMAIN h : h[j].key < m
      /\ Left(ks, 0) = Numbers(ks)
  BY <1>1, TailOfKeys
<1>4. /\ h \in Seq(Byte) /\ N \in Nat \ {0} /\ DOMAIN h = 1..N
      /\ \A i \in 1..N : h[i].from = "kbd" /\ h[i].key > 0 /\ h[i].key \in Nat
      /\ \A i, j \in 1..N : i < j => h[i].key < h[j].key
  BY <1>2, CodeFacts
<1>5. \A i : Left(ks, i) = {m \in Nat : \E j \in 1..N : j > i /\ h[j].key = m} \cup Numbers(Tail(ks))
  BY <1>4 DEF Left
<1> HIDE DEF N, h
<1>6. \A i : Left(ks, i) \in SUBSET Nat
  BY <1>5 DEF Numbers
<1>7. KK \in [0..N -> SUBSET Nat] /\ KK[0] = Numbers(ks) /\ \A i \in 0..N : KK[i] = Left(ks, i)
  BY <1>3, <1>4, <1>6
<1>8. KK[N] = Numbers(Tail(ks))
  <2>1. Left(ks, N) = Numbers(Tail(ks))
    <3>1. \A j \in 1..N : ~(j > N)
      BY <1>4
    <3> QED
      BY <1>5, <3>1
  <2> QED
    BY <1>4, <1>7, <2>1
<1> HIDE DEF KK
<1>9. \A i \in DOMAIN h : Takes(h[i], KK[i - 1], KK[i])
  <2> SUFFICES ASSUME NEW i \in 1..N PROVE Takes(h[i], Left(ks, i - 1), Left(ks, i))
    BY <1>4, <1>7
  <2>1. Left(ks, i) \subseteq Left(ks, i - 1)
    <3>1. \A j \in 1..N : j > i => j > i - 1
      BY <1>4
    <3> QED
      BY <1>5, <3>1
  <2>2. h[i].key \in Left(ks, i - 1)
    BY <1>4, <1>5
  <2>3. ASSUME NEW k \in Left(ks, i) PROVE h[i].key < k
    BY <1>3, <1>4, <1>5
  <2> QED
    BY <2>1, <2>2, <2>3 DEF Takes
<1>10. ~Blocked(t, "kbd")
  BY DEF Blocked
<1>11. /\ Grows(t, BufferAddAll(t, h), "kbd", Len(h))
       /\ Leads(t, BufferAddAll(t, h), KK[0], KK[Len(h)])
  <2>1. KK \in [0..Len(h) -> SUBSET Nat] /\ h \in Seq(Byte) /\ \A i \in DOMAIN h : h[i].from = "kbd"
    BY <1>4, <1>7 DEF N
  <2> QED
    BY <1>1, <1>9, <1>10, <2>1, AddAllGrows
<1> QED
  BY <1>7, <1>8, <1>11 DEF N, h, ks

(* SendScancodeBy once there is room.                                      *)
CodeSent(b) == [BufferAddAll(b, Head(b.keys)) EXCEPT !.keys = Tail(@)]

LEMMA CodeIsSent ==
  ASSUME NEW b, Good(b), b.keys # <<>>, ~b.disabled["kbd"], b.waiting["kbd"] = 0,
         Len(b.buf) + Len(Head(b.keys)) <= BufferSize
  PROVE  /\ Rel(b, CodeSent(b)) /\ KbdServed(CodeSent(b))
         /\ CodeSent(b).waiting["aux"] = b.waiting["aux"]
<1> DEFINE h == Head(b.keys)
           n == Len(h)
           u == BufferAddAll(b, h)
           v == [u EXCEPT !.keys = Tail(b.keys)]
           K2 == Numbers(Tail(b.keys))
<1>1. Grows(b, u, "kbd", n) /\ Leads(b, u, Numbers(b.keys), K2)
  BY AddCode
<1>2. b \in State /\ b.keys \in Seq(Code) /\ InTurn(b.keys)
  BY StateFacts DEF Good
<1>3. h \in Code /\ Tail(b.keys) \in Seq(Code) /\ InTurn(Tail(b.keys))
  BY <1>2, HeadAndTailOfKeys, TailOfKeys
<1>4. n \in Nat \ {0} /\ n <= Longest("kbd") /\ "kbd" \in Devices /\ "aux" \in Devices
  BY <1>3, CodeFacts DEF Longest, Devices
<1> HIDE DEF n, u
<1>5. Good(u) /\ Flags(b, u) /\ Counts(b, u) /\ Kept(b, u)
  <2>1. Len(b.buf) + n <= BufferSize
    BY DEF n
  <2> QED
    BY <1>1, <1>4, <2>1, GrowsByFrame
<1>6. u \in State /\ SameRest(b, u)
  BY <1>1 DEF Grows
<1>7. CodeSent(b) = v
  BY <1>6 DEF CodeSent, SameRest, u
<1>8. v \in State
  BY <1>3, <1>6 DEF State
<1>9. /\ SameBytes(u, v) /\ v.keys = Tail(b.keys) /\ v.disabled = u.disabled /\ v.dump = u.dump
      /\ v.has_data = u.has_data /\ v.mouse_delay_expired = u.mouse_delay_expired
  BY <1>6 DEF State, SameBytes
<1> HIDE DEF v
<1>10. Good(v)
  BY <1>3, <1>5, <1>8, <1>9 DEF Good, SameBytes, IdleIsCtl, Covered
<1>11. \A d : IsOut(v, d) = IsOut(u, d)
  BY <1>9 DEF SameBytes, IsOut
<1>12. /\ Exact(u) <=> Exact(v)
       /\ Counted(u) <=> Counted(v)
       /\ Within(u) <=> Within(v)
       /\ Kept(b, v)
  BY <1>5, <1>9, <1>11 DEF SameBytes, Exact, Counted, Within, Kept
<1>13. Counts(b, v)
  BY <1>5, <1>9, <1>12 DEF Counts, Clear, SameBytes
<1>14. Flags(b, v)
  BY <1>5, <1>9 DEF Flags, SameBytes
<1>15. Leads(b, v, Numbers(b.keys), Numbers(v.keys))
  <2>1. Lined(u, K2) => Lined(v, K2)
    BY <1>9 DEF Lined, SameBytes
  <2> QED
    BY <1>1, <1>9, <2>1 DEF Leads, SameBytes
<1>16. v.waiting["kbd"] = n /\ v.waiting["aux"] = b.waiting["aux"]
  <2>1. b.waiting["aux"] \in Nat
    BY <1>2, <1>4, StateFacts
  <2>2. u.waiting["kbd"] = b.waiting["kbd"] + n /\ u.waiting["aux"] = b.waiting["aux"] + 0
    BY <1>1, <1>4 DEF Grows
  <2> QED
    BY <1>4, <1>9, <2>1, <2>2 DEF SameBytes
<1>17. KbdServed(v)
  BY <1>4, <1>16 DEF KbdServed, IsReady
<1>18. MouseServed(b) => MouseServed(v)
  BY <1>6, <1>9, <1>16 DEF MouseServed, IsReady, SameRest
<1> QED
  BY <1>7, <1>10, <1>12, <1>13, <1>14, <1>15, <1>16, <1>17, <1>18 DEF Rel, Soft, Serves

LEMMA MouseFrameIs == Plain(MouseFrame, "aux") /\ Len(MouseFrame) = FrameLength /\ Head(MouseFrame).from = "aux"
<1>1. FrameLength \in Nat \ {0}
  BY Sizes
<1>2. MouseFrame \in Seq(Byte)
  BY <1>1 DEF MouseFrame, Byte
<1>3. Len(MouseFrame) = FrameLength /\ DOMAIN MouseFrame = 1..FrameLength
  BY <1>1 DEF MouseFrame
<1>4. \A i \in 1..FrameLength : MouseFrame[i].from = "aux" /\ MouseFrame[i].key = 0
  BY DEF MouseFrame
<1>5. Head(MouseFrame) = MouseFrame[1]
  BY <1>1, <1>2, <1>3
<1> QED
  BY <1>1, <1>2, <1>3, <1>4, <1>5 DEF Plain

LEMMA FrameIsSent ==
  ASSUME NEW b, Good(b), ~b.disabled["aux"], b.waiting["aux"] = 0,
         Len(b.buf) + FrameLength <= BufferSize
  PROVE  LET u == BufferAddAll(b, MouseFrame)
         IN  /\ Rel(b, u) /\ u.waiting["kbd"] = b.waiting["kbd"] /\ u.keys = b.keys
             /\ u.disabled = b.disabled
<1> DEFINE u == BufferAddAll(b, MouseFrame)
           K == Numbers(b.keys)
<1>1. b \in State /\ K \in SUBSET Nat /\ ~Blocked(b, "aux")
  BY DEF Good, Numbers, Blocked
<1>2. Grows(b, u, "aux", FrameLength) /\ Leads(b, u, K, K)
  BY <1>1, MouseFrameIs, AddPlain
<1> HIDE DEF u
<1>3. FrameLength \in Nat \ {0} /\ FrameLength <= Longest("aux") /\ "aux" \in Devices /\ "kbd" \in Devices
  BY Sizes DEF Longest, Devices
<1>4. Good(u) /\ Flags(b, u) /\ Counts(b, u) /\ Kept(b, u)
  BY <1>2, <1>3, GrowsByFrame
<1>5. SameRest(b, u)
  BY <1>2 DEF Grows
<1>6. u.waiting["aux"] = FrameLength /\ u.waiting["kbd"] = b.waiting["kbd"]
  <2>1. b.waiting["kbd"] \in Nat
    BY <1>1, <1>3, StateFacts
  <2>2. u.waiting["aux"] = b.waiting["aux"] + FrameLength /\ u.waiting["kbd"] = b.waiting["kbd"] + 0
    BY <1>2, <1>3 DEF Grows
  <2> QED
    BY <1>3, <2>1, <2>2
<1>7. MouseServed(u)
  BY <1>3, <1>6 DEF MouseServed, IsReady
<1>8. KbdServed(b) => KbdServed(u)
  BY <1>5, <1>6 DEF KbdServed, IsReady, SameRest
<1> QED
  BY <1>2, <1>4, <1>5, <1>6, <1>7, <1>8 DEF Rel, Soft, Serves, SameRest, u

-----------------------------------------------------------------------------
(* The devices are told that they may send, after a flush.                 *)

(* Nothing moves, and no device gets ready or has more to send.            *)
Quieter(t, u) ==
  /\ SameBytes(t, u) /\ u.keys = t.keys /\ u.dump = t.dump
  /\ u.disabled["aux"] = t.disabled["aux"] /\ (~t.disabled["kbd"] => ~u.disabled["kbd"])
  /\ u.overflowed => t.overflowed
  /\ u.has_data => t.has_data /\ (u.mouse_delay_expired => t.mouse_delay_expired)

LEMMA QuieterRel ==
  ASSUME NEW t, NEW u, Good(t), u \in State, Quieter(t, u)
  PROVE  Rel(t, u) /\ Kept(t, u)
<1>1. InTurn(u.keys) /\ Numbers(u.keys) \subseteq Numbers(t.keys) /\ SameBytes(t, u)
  BY DEF Quieter, Good
<1>2. /\ Good(u) /\ Counts(t, u) /\ Kept(t, u)
      /\ Leads(t, u, Numbers(t.keys), Numbers(u.keys))
  BY <1>1, SameBytesKeeps
<1>3. Flags(t, u)
  BY DEF Flags, Quieter, SameBytes
<1>4. Serves(t, u)
  BY DEF Serves, MouseServed, KbdServed, IsReady, Quieter, SameBytes
<1> QED
  BY <1>2, <1>3, <1>4 DEF Rel, Soft

LEMMA ReenableIs ==
  ASSUME NEW t \in State
  PROVE  /\ Reenable(t) \in State /\ Quieter(t, Reenable(t))
         /\ Reenable(t).overflowed = t.overflowed /\ Reenable(t).has_data = t.has_data
         /\ Reenable(t).mouse_delay_expired = t.mouse_delay_expired
         /\ IsReady(Reenable(t), "aux") <=> IsReady(t, "aux")
<1> DEFINE x == [t.disabled EXCEPT !["kbd"] = @ /\ ~t.kbd_timer_expired]
           u == [t EXCEPT !.disabled = x]
<1>1. Reenable(t) = u
  BY DEF Reenable
<1>2. x \in [Devices -> BOOLEAN] /\ x["aux"] = t.disabled["aux"] /\ (~t.disabled["kbd"] => ~x["kbd"])
  BY StateFacts DEF Devices
<1> HIDE DEF x
<1>3. u \in State
  BY <1>2 DEF State
<1>4. /\ SameBytes(t, u) /\ u.keys = t.keys /\ u.dump = t.dump /\ u.overflowed = t.overflowed
      /\ u.has_data = t.has_data /\ u.mouse_delay_expired = t.mouse_delay_expired /\ u.disabled = x
  BY DEF State, SameBytes
<1> HIDE DEF u
<1>5. Quieter(t, u)
  BY <1>2, <1>4 DEF Quieter
<1>6. IsReady(u, "aux") <=> IsReady(t, "aux")
  BY <1>2, <1>4 DEF IsReady, SameBytes
<1> QED
  BY <1>1, <1>3, <1>4, <1>5, <1>6

(* The mouse takes up its data for a frame.                                *)
FrameTaken(t) == [t EXCEPT !.mouse_delay_expired = FALSE, !.has_data = FALSE]

LEMMA FrameTakenIs ==
  ASSUME NEW t \in State
  PROVE  /\ FrameTaken(t) \in State /\ Quieter(t, FrameTaken(t)) /\ ~FrameTaken(t).has_data
         /\ FrameTaken(t).disabled = t.disabled
<1>1. FrameTaken(t) \in State
  BY DEF FrameTaken, State
<1>2. /\ SameBytes(t, FrameTaken(t)) /\ FrameTaken(t).keys = t.keys /\ FrameTaken(t).dump = t.dump
      /\ FrameTaken(t).overflowed = t.overflowed /\ FrameTaken(t).disabled = t.disabled
      /\ ~FrameTaken(t).has_data
  BY DEF FrameTaken, State, SameBytes
<1> QED
  BY <1>1, <1>2 DEF Quieter

(* Listening to keys again disturbs nothing else.                         *)
LEMMA ListeningIs ==
  ASSUME NEW t \in State
  PROVE  /\ Listening(t) \in State /\ Quieter(t, Listening(t)) /\ ~Listening(t).overflowed
         /\ Listening(t).disabled = t.disabled
<1>1. Listening(t) \in State
  BY DEF Listening, State
<1>2. /\ SameBytes(t, Listening(t)) /\ Listening(t).keys = t.keys /\ Listening(t).dump = t.dump
      /\ ~Listening(t).overflowed /\ Listening(t).disabled = t.disabled
      /\ Listening(t).has_data = t.has_data
      /\ Listening(t).mouse_delay_expired = t.mouse_delay_expired
  BY DEF Listening, State, SameBytes
<1> QED
  BY <1>1, <1>2 DEF Quieter

(* What telling the mouse, or the keyboard, leads to.                      *)
MouseTold(t, u) == Rel(t, u) /\ MouseServed(u)
KbdTold(t, u) == Rel(t, u) /\ (t.keys # <<>> \/ ~t.overflowed => KbdServed(u))

LEMMA MouseRoom ==
  ASSUME NEW t, Good(t), Within(t)
  PROVE  LET u == SendMouseFrameBy(t, AddToRoom)
         IN  /\ MouseTold(t, u) /\ u.keys = t.keys /\ u.waiting["kbd"] = t.waiting["kbd"]
             /\ u.disabled = t.disabled
<1> DEFINE u == SendMouseFrameBy(t, AddToRoom)
           r == FrameTaken(t)
<1>1. CASE ~t.mouse_delay_expired \/ ~t.has_data \/ ~IsReady(t, "aux")
  <2>1. u = t
    BY <1>1 DEF SendMouseFrameBy
  <2>2. MouseServed(t)
    BY <1>1 DEF MouseServed
  <2> QED
    BY <2>1, <2>2, RelRefl DEF MouseTold
<1>2. CASE ~(~t.mouse_delay_expired \/ ~t.has_data \/ ~IsReady(t, "aux"))
  <2>1. r \in State /\ Quieter(t, r) /\ ~r.has_data /\ r.disabled = t.disabled
    BY FrameTakenIs DEF Good
  <2>2. Rel(t, r)
    BY <2>1, QuieterRel
  <2>3. /\ Good(r) /\ Within(r) /\ r.keys = t.keys /\ r.waiting = t.waiting
        /\ r.waiting["aux"] = 0 /\ ~r.disabled["aux"]
    BY <1>2, <2>1, <2>2 DEF Rel, Soft, Counts, Quieter, SameBytes, IsReady
  <2>4. ~r.has_data /\ MouseServed(r)
    BY <2>1 DEF MouseServed
  <2>5. CASE ~t.reporting
    <3>1. u = r
      BY <1>2, <2>5 DEF SendMouseFrameBy, FrameTaken
    <3> QED
      BY <2>1, <2>2, <2>3, <2>4, <3>1 DEF MouseTold
  <2>6. CASE t.reporting
    <3> DEFINE w == BufferAddAll(r, MouseFrame)
    <3>1. u = AddToRoom(r, MouseFrame)
      BY <1>2, <2>6 DEF SendMouseFrameBy, FrameTaken
    <3> HIDE DEF r
    <3>2. u = w
      BY <2>3, <3>1, MouseFrameIs DEF AddToRoom
    <3>3. Len(r.buf) + FrameLength <= BufferSize
      <4>1. "aux" \in Devices /\ Longest("aux") = FrameLength
        BY DEF Devices, Longest
      <4> QED
        BY <2>3, <4>1, RoomForFrame
    <3>4. Rel(r, w) /\ w.waiting["kbd"] = r.waiting["kbd"] /\ w.keys = r.keys /\ w.disabled = r.disabled
      BY <2>3, <3>3, FrameIsSent
    <3> HIDE DEF w
    <3>5. MouseServed(w)
      BY <2>4, <3>4 DEF Rel, Soft, Serves
    <3>6. Rel(t, w)
      BY <2>2, <3>4, RelOn
    <3> QED
      BY <2>1, <2>3, <3>2, <3>4, <3>5, <3>6 DEF MouseTold
  <2> QED
    BY <2>5, <2>6
<1> QED
  BY <1>1, <1>2

LEMMA SendRoom ==
  ASSUME NEW t, Good(t), Within(t)
  PROVE  LET u == SendScancodeBy(t, AddToRoom)
         IN  KbdTold(t, u) /\ u.waiting["aux"] = t.waiting["aux"]
<1> DEFINE u == SendScancodeBy(t, AddToRoom)
           r == Reenable(t)
<1>1. CASE t.keys = <<>>
  <2>1. u = t
    BY <1>1 DEF SendScancodeBy
  <2> QED
    BY <1>1, <2>1, RelRefl DEF KbdTold, KbdServed
<1>2. CASE t.keys # <<>>
  <2>1. r \in State /\ Quieter(t, r)
    BY ReenableIs DEF Good
  <2>2. Rel(t, r)
    BY <2>1, QuieterRel
  <2>3. Good(r) /\ Within(r) /\ r.keys = t.keys /\ r.waiting = t.waiting
    BY <2>1, <2>2 DEF Rel, Soft, Counts, Quieter, SameBytes
  <2>4. CASE ~IsReady(r, "kbd")
    <3>1. u = r
      BY <1>2, <2>4 DEF SendScancodeBy
    <3> QED
      BY <2>2, <2>3, <2>4, <3>1 DEF KbdTold, KbdServed
  <2>5. CASE IsReady(r, "kbd")
    <3>1. u = [AddToRoom(r, Head(r.keys)) EXCEPT !.keys = Tail(@)]
      BY <1>2, <2>5 DEF SendScancodeBy
    <3> HIDE DEF r, u
    <3>2. Head(r.keys) \in Code /\ Head(Head(r.keys)).from = "kbd" /\ Len(Head(r.keys)) \in Nat
          /\ Len(Head(r.keys)) <= KeyMax
      <4>1. r.keys \in Seq(Code)
        BY <2>1, StateFacts
      <4>2. Head(r.keys) \in Code
        BY <1>2, <2>3, <4>1, HeadAndTailOfKeys
      <4> QED
        BY <4>2, CodeFacts
    <3>3. ~r.disabled["kbd"] /\ r.waiting["kbd"] = 0
      BY <2>5 DEF IsReady
    <3>4. u = CodeSent(r)
      BY <3>1, <3>2, <3>3 DEF AddToRoom, CodeSent
    <3>5. Len(r.buf) + Len(Head(r.keys)) <= BufferSize
      <4>1. "kbd" \in Devices /\ Longest("kbd") = KeyMax
        BY DEF Devices, Longest
      <4>2. Len(r.buf) + KeyMax <= BufferSize /\ Len(r.buf) \in Nat
        BY <2>1, <2>3, <3>3, <4>1, RoomForFrame, StateFacts
      <4> DEFINE l == Len(r.buf)
                 n == Len(Head(r.keys))
      <4>3. l \in Nat /\ n \in Nat /\ n <= KeyMax /\ l + KeyMax <= BufferSize
        BY <3>2, <4>2
      <4> HIDE DEF l, n
      <4>4. l + n <= BufferSize
        BY <4>3, Sizes
      <4> QED
        BY <4>4 DEF l, n
    <3>6. Rel(r, u) /\ KbdServed(u) /\ u.waiting["aux"] = r.waiting["aux"]
      BY <1>2, <2>3, <3>3, <3>4, <3>5, CodeIsSent
    <3>7. Rel(t, u)
      BY <2>2, <3>6, RelOn
    <3> QED
      BY <2>3, <3>6, <3>7 DEF KbdTold, u
  <2> QED
    BY <2>4, <2>5
<1> QED
  BY <1>1, <1>2

LEMMA NotifyKbdRoom ==
  ASSUME NEW t, Good(t), Within(t)
  PROVE  LET u == SendScancodeBy(Listening(t), AddToRoom)
         IN  Rel(t, u) /\ KbdServed(u) /\ u.waiting["aux"] = t.waiting["aux"]
<1> DEFINE l == Listening(t)
           u == SendScancodeBy(Listening(t), AddToRoom)
<1>1. u = SendScancodeBy(l, AddToRoom)
  OBVIOUS
<1>2. l \in State /\ Quieter(t, l) /\ ~l.overflowed
  BY ListeningIs DEF Good
<1>3. Rel(t, l)
  BY <1>2, QuieterRel
<1>4. Good(l) /\ Within(l) /\ l.waiting = t.waiting
  BY <1>2, <1>3 DEF Rel, Soft, Counts, Quieter, SameBytes
<1>5. KbdTold(l, u) /\ u.waiting["aux"] = l.waiting["aux"]
  BY <1>1, <1>4, SendRoom
<1> HIDE DEF u, l
<1>6. Rel(t, u)
  BY <1>3, <1>5, RelOn DEF KbdTold
<1> QED
  BY <1>2, <1>4, <1>5, <1>6 DEF KbdTold, u

(* What NotifyReadyBy leads to.                                            *)
AllTold(t, u, aux, kbd) ==
  /\ Rel(t, u)
  /\ aux \/ MouseServed(t) => MouseServed(u)
  /\ kbd \/ (~t.disabled["kbd"] /\ KbdServed(t)) => KbdServed(u)

LEMMA NotifyRoom ==
  ASSUME NEW t, Good(t), Within(t), NEW aux \in BOOLEAN, NEW kbd \in BOOLEAN
  PROVE  LET u == NotifyReadyBy(t, aux, kbd, AddToRoom)
         IN  /\ AllTold(t, u, aux, kbd)
             /\ ~kbd => u.keys = t.keys /\ u.waiting["kbd"] = t.waiting["kbd"]
             /\ ~aux => u.waiting["aux"] = t.waiting["aux"]
<1> DEFINE m == IF aux /\ IsReady(t, "aux") THEN SendMouseFrameBy(t, AddToRoom) ELSE t
           k == IF kbd THEN Reenable(m) ELSE m
           u == IF kbd /\ IsReady(k, "kbd") THEN SendScancodeBy(Listening(k), AddToRoom) ELSE k
<1>1. NotifyReadyBy(t, aux, kbd, AddToRoom) = u
  BY DEF NotifyReadyBy
<1>2. /\ Rel(t, m) /\ m.keys = t.keys /\ m.waiting["kbd"] = t.waiting["kbd"]
      /\ aux => MouseServed(m)
      /\ ~aux => m = t
  <2>1. CASE aux /\ IsReady(t, "aux")
    BY <2>1, MouseRoom DEF MouseTold
  <2>2. CASE ~(aux /\ IsReady(t, "aux"))
    BY <2>2, RelRefl DEF MouseServed
  <2> QED
    BY <2>1, <2>2
<1> HIDE DEF m
<1>3. Good(m) /\ Within(m)
  BY <1>2 DEF Rel, Soft, Counts
<1>4. Rel(m, k) /\ k.waiting = m.waiting /\ k.keys = m.keys /\ (~kbd => k = m)
  <2>1. CASE kbd
    <3>1. k \in State /\ Quieter(m, k)
      BY <1>3, <2>1, ReenableIs DEF Good
    <3> QED
      BY <1>3, <2>1, <3>1, QuieterRel DEF Quieter, SameBytes
  <2>2. CASE ~kbd
    BY <1>3, <2>2, RelRefl
  <2> QED
    BY <2>1, <2>2
<1> HIDE DEF k
<1>5. Good(k) /\ Within(k)
  BY <1>3, <1>4 DEF Rel, Soft, Counts
<1>6. Rel(k, u) /\ u.waiting["aux"] = k.waiting["aux"] /\ (~kbd => u = k) /\ (kbd => KbdServed(u))
  <2>1. CASE kbd /\ IsReady(k, "kbd")
    BY <1>5, <2>1, NotifyKbdRoom
  <2>2. CASE ~(kbd /\ IsReady(k, "kbd"))
    BY <1>5, <2>2, RelRefl DEF KbdServed
  <2> QED
    BY <2>1, <2>2
<1> HIDE DEF u
<1>7. Rel(m, u)
  BY <1>3, <1>4, <1>6, RelOn
<1>8. Rel(t, u)
  BY <1>2, <1>7, RelOn
<1>9. AllTold(t, u, aux, kbd)
  BY <1>2, <1>6, <1>7, <1>8 DEF AllTold, Rel, Soft, Serves
<1> QED
  BY <1>1, <1>2, <1>4, <1>6, <1>9

-----------------------------------------------------------------------------
(* A flush.                                                                *)

Emptied(t) ==
  [t EXCEPT !.is_data_new = FALSE, !.out = Reply("ctl"), !.buf = <<>>,
            !.waiting = [d \in Devices |-> 0]]

LEMMA EmptiedIs ==
  ASSUME NEW t, Good(t)
  PROVE  /\ Good(Emptied(t)) /\ Clear(Emptied(t)) /\ Within(Emptied(t)) /\ Counted(Emptied(t))
         /\ Leads(t, Emptied(t), Numbers(t.keys), Numbers(t.keys))
         /\ SameRest(t, Emptied(t)) /\ Emptied(t).buf = <<>>
         /\ \A d \in Devices : Emptied(t).waiting[d] = 0
<1> DEFINE e == Emptied(t)
           w == [d \in Devices |-> 0]
           K == Numbers(t.keys)
<1>1. t \in State
  BY DEF Good
<1>2. Reply("ctl") \in Byte /\ Reply("ctl").from = "ctl" /\ <<>> \in Seq(Byte) /\ w \in [Devices -> Nat]
  BY DEF Reply, Byte
<1>3. e = [t EXCEPT !.is_data_new = FALSE, !.out = Reply("ctl"), !.buf = <<>>, !.waiting = w]
  BY DEF Emptied
<1> HIDE DEF w, e
<1>4. e \in State
  BY <1>1, <1>2, <1>3 DEF State
<1>5. ~e.is_data_new /\ e.out = Reply("ctl") /\ e.buf = <<>> /\ e.waiting = w
  BY <1>1, <1>3 DEF State
<1>6. SameRest(t, e)
  BY <1>1, <1>3 DEF State, SameRest
<1>7. \A d \in Devices : e.waiting[d] = 0 /\ Bytes(e.buf, d) = 0 /\ IsOut(e, d) = 0
  BY <1>5, BytesEmpty DEF w, IsOut
<1>8. Bytes(e.buf, "ctl") = 0 /\ Len(e.buf) = 0
  BY <1>5, BytesEmpty
<1>9. Exact(e) /\ Counted(e) /\ Covered(e)
  BY <1>7 DEF Exact, Counted, Covered
<1>10. Clear(e)
  BY <1>7, <1>8, <1>9, Sizes DEF Clear, Devices
<1>11. Good(e)
  BY <1>2, <1>4, <1>5, <1>6, <1>8, <1>9, Sizes DEF Good, SameRest, IdleIsCtl
<1>12. t.buf \in Seq(Byte)
  BY <1>1, StateFacts
<1>13. \A f : Line(t.buf, K, f, t.nextKey) => Line(e.buf, K, f, t.nextKey)
  BY <1>5, <1>12, LineEmpty
<1>14. Lined(t, K) => Lined(e, K)
  <2>1. e.data_byte = t.data_byte
    BY <1>1, <1>3 DEF State
  <2> QED
    BY <1>5, <1>6, <1>13, <2>1 DEF Lined, SameRest
<1>15. Leads(t, e, K, K)
  BY <1>13, <1>14 DEF Leads
<1> QED
  BY <1>4, <1>5, <1>6, <1>7, <1>9, <1>10, <1>11, <1>15, ClearIsWithin DEF e

(* A flush that tells no device.                                           *)
LEMMA FlushQuietly ==
  ASSUME NEW t, Good(t)
  PROVE  Flush(t, TRUE) = Emptied(t)
  BY DEF Flush, Emptied, NotifyReadyBy

LEMMA FlushIs ==
  ASSUME NEW t, Good(t)
  PROVE  /\ Soft(t, Flush(t, FALSE)) /\ Clear(Flush(t, FALSE))
         /\ IsReady(Reenable(t), "kbd") => /\ Flush(t, FALSE).keys = t.keys
                                           /\ Flush(t, FALSE).waiting["kbd"] = 0
         /\ IsReady(t, "aux") => Flush(t, FALSE).waiting["aux"] = 0
<1> DEFINE r == Reenable(t)
           e == Emptied(r)
           aux == ~IsReady(r, "aux")
           kbd == ~IsReady(r, "kbd")
           f == NotifyReadyBy(e, aux, kbd, AddToRoom)
<1>1. Flush(t, FALSE) = f
  BY DEF Flush, Emptied
<1>2. t \in State
  BY DEF Good
<1>3. r \in State /\ Quieter(t, r) /\ (IsReady(r, "aux") <=> IsReady(t, "aux"))
  BY <1>2, ReenableIs
<1>4. Rel(t, r) /\ Good(r) /\ r.keys = t.keys
  BY <1>3, QuieterRel DEF Rel, Soft, Quieter
<1> HIDE DEF r
<1>5. /\ Good(e) /\ Clear(e) /\ Within(e) /\ Counted(e)
      /\ Leads(r, e, Numbers(r.keys), Numbers(r.keys)) /\ SameRest(r, e)
      /\ \A d \in Devices : e.waiting[d] = 0
  BY <1>4, EmptiedIs
<1> HIDE DEF e
<1>6. aux \in BOOLEAN /\ kbd \in BOOLEAN
  BY DEF IsReady
<1>7. /\ AllTold(e, f, aux, kbd)
      /\ ~kbd => f.keys = e.keys /\ f.waiting["kbd"] = e.waiting["kbd"]
      /\ ~aux => f.waiting["aux"] = e.waiting["aux"]
  BY <1>5, <1>6, NotifyRoom
<1>8. Soft(e, f)
  BY <1>7 DEF AllTold, Rel
<1> HIDE DEF f
<1>9. Good(f) /\ Clear(f) /\ Exact(f) /\ Counted(f)
  BY <1>5, <1>8 DEF Soft, Counts, Clear
<1>10. Within(f)
  BY <1>5, <1>8 DEF Soft, Counts
<1>11. Flags(r, f)
  BY <1>5, <1>8 DEF Soft, Flags, SameRest
<1>12. Leads(r, f, Numbers(r.keys), Numbers(f.keys))
  <2>1. e.keys = r.keys /\ e.nextKey = r.nextKey
    BY <1>5 DEF SameRest
  <2>2. Leads(e, f, Numbers(e.keys), Numbers(f.keys))
    BY <1>8 DEF Soft
  <2> QED
    BY <1>5, <2>1, <2>2, LeadsOn
<1>13. Serves(r, f)
  <2>1. ASSUME MouseServed(r) PROVE MouseServed(f)
    <3>1. CASE aux
      BY <1>7, <3>1 DEF AllTold
    <3>2. CASE ~aux
      <4>1. MouseServed(e)
        BY <1>5, <2>1, <3>2 DEF MouseServed, SameRest
      <4> QED
        BY <1>7, <4>1 DEF AllTold
    <3> QED
      BY <3>1, <3>2
  <2>2. ASSUME ~r.disabled["kbd"], KbdServed(r) PROVE KbdServed(f)
    <3>1. CASE kbd
      BY <1>7, <3>1 DEF AllTold
    <3>2. CASE ~kbd
      <4>1. KbdServed(e) /\ ~e.disabled["kbd"]
        BY <1>5, <2>2, <3>2 DEF KbdServed, SameRest
      <4> QED
        BY <1>7, <4>1 DEF AllTold
    <3> QED
      BY <3>1, <3>2
  <2> QED
    BY <2>1, <2>2 DEF Serves
<1>14. Soft(r, f)
  BY <1>9, <1>10, <1>11, <1>12, <1>13 DEF Soft, Counts
<1>15. Soft(t, f)
  BY <1>4, <1>14, SoftOn DEF Rel
<1>16. IsReady(r, "kbd") => f.keys = t.keys /\ f.waiting["kbd"] = 0
  BY <1>4, <1>5, <1>7 DEF SameRest, Devices
<1>17. IsReady(t, "aux") => f.waiting["aux"] = 0
  BY <1>3, <1>5, <1>7 DEF Devices
<1> QED
  BY <1>1, <1>9, <1>15, <1>16, <1>17 DEF r

-----------------------------------------------------------------------------
(* A frame is added where there may be no room.                            *)

(* Where AddFrame puts n bytes.                                            *)
WithRoom(t, n) == IF BufferSize < Len(t.buf) + n THEN Flush(t, FALSE) ELSE t

LEMMA WithRoomIs ==
  ASSUME NEW t, Good(t), NEW x \in Devices, IsReady(t, x), NEW n \in Nat, n <= Longest(x)
  PROVE  LET b == WithRoom(t, n)
         IN  /\ Soft(t, b) /\ (Within(t) => b = t) /\ Good(b)
             /\ b.waiting[x] = 0 /\ Len(b.buf) + n <= BufferSize
             /\ ~b.disabled[x]
             /\ x = "kbd" => b.keys = t.keys
<1> DEFINE b == WithRoom(t, n)
<1>1. t \in State /\ t.waiting[x] = 0 /\ ~t.disabled[x] /\ Len(t.buf) \in Nat
  BY StateFacts DEF Good, IsReady
<1>2. Longest(x) \in Nat
  BY Sizes DEF Longest
<1>3. ASSUME NEW u, Good(u), Within(u), u.waiting[x] = 0 PROVE Len(u.buf) + n <= BufferSize
  <2> DEFINE l == Len(u.buf)
             z == Longest(x)
  <2>1. l + z <= BufferSize
    BY <1>3, RoomForFrame
  <2>2. l \in Nat /\ z \in Nat /\ n <= z
    BY <1>2, <1>3, StateFacts DEF Good
  <2> HIDE DEF l, z
  <2>3. l + n <= BufferSize
    BY <2>1, <2>2, Sizes
  <2> QED
    BY <2>3 DEF l
<1>4. Within(t) => Len(t.buf) + n <= BufferSize
  BY <1>1, <1>3
<1>5. CASE ~(BufferSize < Len(t.buf) + n)
  <2>1. b = t
    BY <1>5 DEF WithRoom
  <2>2. Soft(t, t)
    BY RelRefl DEF Rel
  <2>3. Len(t.buf) + n <= BufferSize
    BY <1>1, <1>5, Sizes
  <2> QED
    BY <1>1, <2>1, <2>2, <2>3
<1>6. CASE BufferSize < Len(t.buf) + n
  <2>1. b = Flush(t, FALSE)
    BY <1>6 DEF WithRoom
  <2> HIDE DEF b
  <2>2. ~Within(t)
    <3> DEFINE l == Len(t.buf) + n
    <3>1. l \in Nat /\ BufferSize < l /\ (Within(t) => l <= BufferSize)
      BY <1>1, <1>4, <1>6
    <3> HIDE DEF l
    <3> QED
      BY <3>1, Sizes
  <2>3. /\ Soft(t, b) /\ Clear(b)
        /\ IsReady(Reenable(t), "kbd") => b.keys = t.keys /\ b.waiting["kbd"] = 0
        /\ IsReady(t, "aux") => b.waiting["aux"] = 0
    BY <2>1, FlushIs
  <2>4. Good(b) /\ Flags(t, b)
    BY <2>3 DEF Soft
  <2>5. Within(b)
    BY <2>3, <2>4, ClearIsWithin DEF Good
  <2>6. b.waiting[x] = 0 /\ ~b.disabled[x] /\ (x = "kbd" => b.keys = t.keys)
    <3>1. CASE x = "kbd"
      <4>1. Quieter(t, Reenable(t))
        BY <1>1, ReenableIs
      <4>2. IsReady(Reenable(t), "kbd")
        BY <3>1, <4>1 DEF IsReady, Quieter, SameBytes
      <4> QED
        BY <1>1, <2>3, <2>4, <3>1, <4>2 DEF Flags
    <3>2. CASE x = "aux"
      BY <1>1, <2>3, <2>4, <3>2 DEF Flags
    <3> QED
      BY <3>1, <3>2 DEF Devices
  <2>7. Len(b.buf) + n <= BufferSize
    BY <1>3, <2>4, <2>5, <2>6
  <2> QED
    BY <2>2, <2>3, <2>4, <2>6, <2>7 DEF b
<1> QED
  BY <1>5, <1>6

LEMMA MouseSends ==
  ASSUME NEW t, Good(t)
  PROVE  MouseTold(t, SendMouseFrame(t))
<1> DEFINE u == SendMouseFrame(t)
           r == FrameTaken(t)
<1>1. CASE ~t.mouse_delay_expired \/ ~t.has_data \/ ~IsReady(t, "aux")
  <2>1. u = t
    BY <1>1 DEF SendMouseFrame, SendMouseFrameBy
  <2>2. MouseServed(t)
    BY <1>1 DEF MouseServed
  <2> QED
    BY <2>1, <2>2, RelRefl DEF MouseTold
<1>2. CASE ~(~t.mouse_delay_expired \/ ~t.has_data \/ ~IsReady(t, "aux"))
  <2>1. r \in State /\ Quieter(t, r) /\ ~r.has_data /\ r.disabled = t.disabled
    BY FrameTakenIs DEF Good
  <2>2. Rel(t, r)
    BY <2>1, QuieterRel
  <2>3. Good(r) /\ IsReady(r, "aux")
    BY <1>2, <2>1, <2>2 DEF Rel, Soft, Quieter, SameBytes, IsReady
  <2>4. CASE ~t.reporting
    <3>1. u = r
      BY <1>2, <2>4 DEF SendMouseFrame, SendMouseFrameBy, FrameTaken
    <3> QED
      BY <2>1, <2>2, <3>1 DEF MouseTold, MouseServed
  <2>5. CASE t.reporting
    <3> DEFINE b == WithRoom(r, FrameLength)
               w == BufferAddAll(b, MouseFrame)
    <3>1. u = AddFrame(r, MouseFrame)
      BY <1>2, <2>5 DEF SendMouseFrame, SendMouseFrameBy, FrameTaken
    <3> HIDE DEF r, u
    <3>2. u = w
      BY <2>3, <3>1, MouseFrameIs DEF AddFrame, WithRoom, IsReady
    <3>3. /\ Soft(r, b) /\ (Within(r) => b = r) /\ Good(b)
          /\ b.waiting["aux"] = 0 /\ Len(b.buf) + FrameLength <= BufferSize
          /\ ~b.disabled["aux"]
      <4>1. "aux" \in Devices /\ FrameLength <= Longest("aux") /\ FrameLength \in Nat
        BY Sizes DEF Devices, Longest
      <4> QED
        BY <2>3, <4>1, WithRoomIs
    <3> HIDE DEF b
    <3>4. Rel(b, w)
      BY <3>3, FrameIsSent
    <3> HIDE DEF w
    <3>5. Rel(r, w)
      BY <2>3, <3>3, <3>4, SoftThenRel
    <3>6. ~w.has_data
      BY <2>1, <3>5 DEF Rel, Soft, Flags
    <3>7. Rel(t, w)
      BY <2>2, <3>5, RelOn
    <3> QED
      BY <3>2, <3>6, <3>7 DEF MouseTold, MouseServed, u
  <2> QED
    BY <2>4, <2>5
<1> QED
  BY <1>1, <1>2

LEMMA KbdSends ==
  ASSUME NEW t, Good(t)
  PROVE  KbdTold(t, SendScancode(t))
<1> DEFINE u == SendScancode(t)
           r == Reenable(t)
<1>1. CASE t.keys = <<>>
  <2>1. u = t
    BY <1>1 DEF SendScancode, SendScancodeBy
  <2> QED
    BY <1>1, <2>1, RelRefl DEF KbdTold, KbdServed
<1>2. CASE t.keys # <<>>
  <2>1. r \in State /\ Quieter(t, r)
    BY ReenableIs DEF Good
  <2>2. Rel(t, r)
    BY <2>1, QuieterRel
  <2>3. Good(r) /\ r.keys = t.keys
    BY <2>1, <2>2 DEF Rel, Soft, Quieter
  <2>4. CASE ~IsReady(r, "kbd")
    <3>1. u = r
      BY <1>2, <2>4 DEF SendScancode, SendScancodeBy
    <3> QED
      BY <2>2, <2>4, <3>1 DEF KbdTold, KbdServed
  <2>5. CASE IsReady(r, "kbd")
    <3> DEFINE h == Head(r.keys)
               b == WithRoom(r, Len(h))
    <3>1. u = [AddFrame(r, h) EXCEPT !.keys = Tail(@)]
      BY <1>2, <2>5 DEF SendScancode, SendScancodeBy
    <3> HIDE DEF r, u
    <3>2. Head(h).from = "kbd" /\ Len(h) \in Nat /\ Len(h) <= KeyMax
      <4>1. r.keys \in Seq(Code)
        BY <2>1, StateFacts
      <4>2. h \in Code
        BY <1>2, <2>3, <4>1, HeadAndTailOfKeys
      <4> QED
        BY <4>2, CodeFacts
    <3>3. AddFrame(r, h) = BufferAddAll(b, h)
      BY <2>5, <3>2 DEF AddFrame, WithRoom, IsReady
    <3>4. /\ Soft(r, b) /\ (Within(r) => b = r) /\ Good(b)
          /\ b.waiting["kbd"] = 0 /\ Len(b.buf) + Len(h) <= BufferSize
          /\ ~b.disabled["kbd"] /\ b.keys = r.keys
      <4>1. "kbd" \in Devices /\ Len(h) <= Longest("kbd")
        BY <3>2 DEF Devices, Longest
      <4> QED
        BY <2>3, <2>5, <3>2, <4>1, WithRoomIs
    <3> HIDE DEF b
    <3>5. u = CodeSent(b)
      BY <3>1, <3>3, <3>4 DEF CodeSent
    <3>6. Rel(b, u) /\ KbdServed(u)
      BY <1>2, <2>3, <3>4, <3>5, CodeIsSent
    <3>7. Rel(r, u)
      BY <2>3, <3>4, <3>6, SoftThenRel
    <3>8. Rel(t, u)
      BY <2>2, <3>7, RelOn
    <3> QED
      BY <3>6, <3>8 DEF KbdTold, u
  <2> QED
    BY <2>4, <2>5
<1> QED
  BY <1>1, <1>2

LEMMA NotifyKbdSends ==
  ASSUME NEW t, Good(t)
  PROVE  Rel(t, SendScancodeBy(Listening(t), AddFrame)) /\ KbdServed(SendScancodeBy(Listening(t), AddFrame))
<1> DEFINE l == Listening(t)
           u == SendScancodeBy(Listening(t), AddFrame)
<1>1. u = SendScancode(l)
  BY DEF SendScancode
<1>2. l \in State /\ Quieter(t, l) /\ ~l.overflowed
  BY ListeningIs DEF Good
<1>3. Rel(t, l)
  BY <1>2, QuieterRel
<1>4. KbdTold(l, u)
  BY <1>1, <1>3, KbdSends DEF Rel, Soft
<1> HIDE DEF u, l
<1>5. Rel(t, u)
  BY <1>3, <1>4, RelOn DEF KbdTold
<1> QED
  BY <1>2, <1>4, <1>5 DEF KbdTold, u

LEMMA NotifyTells ==
  ASSUME NEW t, Good(t), NEW aux \in BOOLEAN, NEW kbd \in BOOLEAN
  PROVE  AllTold(t, NotifyReady(t, aux, kbd), aux, kbd)
<1> DEFINE m == IF aux /\ IsReady(t, "aux") THEN SendMouseFrame(t) ELSE t
           k == IF kbd THEN Reenable(m) ELSE m
           u == IF kbd /\ IsReady(k, "kbd") THEN SendScancodeBy(Listening(k), AddFrame) ELSE k
<1>1. NotifyReady(t, aux, kbd) = u
  BY DEF NotifyReady, NotifyReadyBy, SendMouseFrame
<1>2. Rel(t, m) /\ (aux => MouseServed(m))
  <2>1. CASE aux /\ IsReady(t, "aux")
    BY <2>1, MouseSends DEF MouseTold
  <2>2. CASE ~(aux /\ IsReady(t, "aux"))
    BY <2>2, RelRefl DEF MouseServed
  <2> QED
    BY <2>1, <2>2
<1> HIDE DEF m
<1>3. Good(m)
  BY <1>2 DEF Rel, Soft
<1>4. Rel(m, k) /\ (~kbd => k = m)
  <2>1. CASE kbd
    <3>1. k \in State /\ Quieter(m, k)
      BY <1>3, <2>1, ReenableIs DEF Good
    <3> QED
      BY <1>3, <2>1, <3>1, QuieterRel
  <2>2. CASE ~kbd
    BY <1>3, <2>2, RelRefl
  <2> QED
    BY <2>1, <2>2
<1> HIDE DEF k
<1>5. Good(k)
  BY <1>4 DEF Rel, Soft
<1>6. Rel(k, u) /\ (~kbd => u = k) /\ (kbd => KbdServed(u))
  <2>1. CASE kbd /\ IsReady(k, "kbd")
    BY <1>5, <2>1, NotifyKbdSends
  <2>2. CASE ~(kbd /\ IsReady(k, "kbd"))
    BY <1>5, <2>2, RelRefl DEF KbdServed
  <2> QED
    BY <2>1, <2>2
<1> HIDE DEF u
<1>7. Rel(m, u)
  BY <1>3, <1>4, <1>6, RelOn
<1>8. Rel(t, u)
  BY <1>2, <1>7, RelOn
<1>9. AllTold(t, u, aux, kbd)
  BY <1>2, <1>6, <1>7, <1>8 DEF AllTold, Rel, Soft, Serves
<1> QED
  BY <1>1, <1>9

-----------------------------------------------------------------------------
(* The timers and the host.                                                *)

LEMMA TransferRel ==
  ASSUME NEW t, Good(t)
  PROVE  Rel(t, Transfer(t))
<1> DEFINE u == Transfer(t)
           K == Numbers(t.keys)
<1>1. t \in State /\ t.nextKey \in Nat /\ K \in SUBSET Nat
  BY StateFacts DEF Good, Numbers
<1>2. u \in State /\ SameRest(t, u) /\ u.waiting = t.waiting /\ Moves(t, u)
  BY <1>1, TransferMoves
<1> HIDE DEF u
<1>3. /\ \A d : IsOut(u, d) + Bytes(u.buf, d) = IsOut(t, d) + Bytes(t.buf, d)
      /\ \A d : Bytes(u.buf, d) <= Bytes(t.buf, d)
      /\ Len(u.buf) <= Len(t.buf)
      /\ t.is_data_new => u.is_data_new /\ u.out = t.out /\ u.buf = t.buf
      /\ IdleIsCtl(t) => IdleIsCtl(u)
  BY <1>1, <1>2, MovesBytes, SMTT(30)
<1>4. /\ \A d : Bytes(t.buf, d) \in Nat /\ Bytes(u.buf, d) \in Nat
      /\ \A d \in Devices : t.waiting[d] \in Nat
  BY <1>1, <1>2, StateFacts
<1>5. Len(t.buf) \in Nat /\ Len(u.buf) \in Nat
  BY <1>1, <1>2, StateFacts
<1>6. Covered(t) => Covered(u)
  BY <1>2, <1>3, <1>4 DEF Covered
<1>7. Good(u)
  <2>1. Len(u.buf) <= BufferSize
    BY <1>3, <1>5, Sizes DEF Good
  <2> QED
    BY <1>2, <1>3, <1>6, <2>1 DEF Good, SameRest
<1>8. (Counted(t) => Counted(u)) /\ (Exact(t) => Exact(u))
  BY <1>2, <1>3 DEF Counted, Exact
<1>9. Kept(t, u)
  BY <1>2, <1>3 DEF Kept
<1>10. Within(t) => Within(u)
  <2> DEFINE a == Beyond(t.waiting["kbd"], KeyMax)
             b == Beyond(t.waiting["aux"], FrameLength)
             c == Bytes(t.buf, "ctl")
             e == Bytes(u.buf, "ctl")
  <2>1. a \in Nat /\ b \in Nat
    BY <1>4, Sizes DEF Beyond, Devices
  <2>2. c \in Nat /\ e \in Nat /\ e <= c
    BY <1>3, <1>4
  <2>3. (Within(t) <=> a + (b + c) <= MaxReplies) /\ (Within(u) <=> a + (b + e) <= MaxReplies)
    BY <1>2 DEF Within
  <2> HIDE DEF a, b, c, e
  <2> QED
    BY <2>1, <2>2, <2>3, Sizes
<1>11. Clear(t) => Clear(u)
  <2>1. Bytes(t.buf, "ctl") = 0 => Bytes(u.buf, "ctl") = 0
    BY <1>3, <1>4
  <2> QED
    BY <1>2, <1>8, <2>1 DEF Clear
<1>12. Flags(t, u)
  BY <1>2 DEF Flags, SameRest
<1>13. Serves(t, u)
  BY <1>2 DEF Serves, MouseServed, KbdServed, IsReady, SameRest
<1>14. Leads(t, u, K, K)
  BY <1>1, <1>2, MovesLeads DEF SameRest
<1>15. Leads(t, u, K, Numbers(u.keys))
  BY <1>2, <1>14 DEF SameRest
<1>16. Counts(t, u)
  BY <1>8, <1>9, <1>10, <1>11 DEF Counts
<1> QED
  BY <1>7, <1>9, <1>12, <1>13, <1>15, <1>16 DEF Rel, Soft, u

LEMMA QuieterHolds ==
  ASSUME NEW g, NEW t, NEW u, Holds(g, t), u \in State, Quieter(t, u)
  PROVE  Holds(g, u)
<1>1. Good(t)
  BY DEF Holds, Sound
<1> QED
  BY <1>1, QuieterRel, SoftHolds DEF Rel

(* What holds of a guest while a handler runs is about the bytes only.     *)
LEMMA SoundSame ==
  ASSUME NEW g, NEW t, NEW u, Sound(g, t), u \in State, SameBytes(t, u), InTurn(u.keys),
         Numbers(u.keys) \subseteq Numbers(t.keys), u.dump = t.dump,
         g = "gentle" => ~u.disabled["kbd"]
  PROVE  Sound(g, u)
<1>1. Good(t)
  BY DEF Sound
<1>2. Good(u) /\ Counts(t, u) /\ Leads(t, u, Numbers(t.keys), Numbers(u.keys))
  BY <1>1, SameBytesKeeps
<1> QED
  BY <1>2 DEF Sound, Counts, Leads

LEMMA DelayHandlerHolds ==
  ASSUME Inv, DelayHandler
  PROVE  Inv'
<1> DEFINE t == [s EXCEPT !.delay_expired = TRUE]
<1>1. Holds(guest, s) /\ s \in State
  BY DEF Inv, Holds, Sound, Good
<1>2. s' = Transfer(t) /\ guest' = guest
  BY DEF DelayHandler
<1>3. t \in State
  BY <1>1 DEF State
<1>4. Quieter(s, t)
  BY <1>1 DEF State, Quieter, SameBytes
<1> HIDE DEF t
<1>5. Holds(guest, t)
  BY <1>1, <1>3, <1>4, QuieterHolds
<1>6. Soft(t, Transfer(t))
  BY <1>5, TransferRel DEF Rel, Holds, Sound
<1>7. Holds(guest, s')
  BY <1>2, <1>5, <1>6, SoftHolds
<1> QED
  BY <1>2, <1>7 DEF Inv

LEMMA KbdDisabledTimerHolds ==
  ASSUME Inv, KbdDisabledTimer
  PROVE  Inv'
<1> DEFINE t == [s EXCEPT !.kbd_timer_expired = TRUE]
<1>1. Holds(guest, s) /\ s \in State
  BY DEF Inv, Holds, Sound, Good
<1>2. s' = t /\ guest' = guest
  BY DEF KbdDisabledTimer
<1>3. t \in State
  BY <1>1 DEF State
<1>4. Quieter(s, t)
  BY <1>1 DEF State, Quieter, SameBytes
<1> HIDE DEF t
<1>5. Holds(guest, s')
  BY <1>1, <1>2, <1>3, <1>4, QuieterHolds
<1> QED
  BY <1>2, <1>5 DEF Inv

LEMMA NoKeys == InTurn(<<>>) /\ Numbers(<<>>) = {}
  BY DEF InTurn, Numbers

LEMMA ClearKeysSoft ==
  ASSUME NEW t, Good(t)
  PROVE  Soft(t, ClearKeys(t)) /\ KbdServed(ClearKeys(t))
<1> DEFINE u == ClearKeys(t)
<1>1. t \in State
  BY DEF Good
<1>2. u \in State
  <2>1. <<>> \in Seq(Code)
    OBVIOUS
  <2> QED
    BY <1>1, <2>1 DEF ClearKeys, State
<1>3. /\ SameBytes(t, u) /\ u.keys = <<>> /\ ~u.overflowed /\ u.dump = t.dump
      /\ u.disabled = t.disabled /\ u.has_data = t.has_data
      /\ u.mouse_delay_expired = t.mouse_delay_expired
  BY <1>1 DEF ClearKeys, State, SameBytes
<1> HIDE DEF u
<1>4. Good(u) /\ Counts(t, u) /\ Leads(t, u, Numbers(t.keys), Numbers(u.keys))
  BY <1>2, <1>3, NoKeys, SameBytesKeeps
<1>5. Flags(t, u)
  BY <1>3 DEF Flags, SameBytes
<1>6. KbdServed(u) /\ (MouseServed(t) => MouseServed(u))
  BY <1>3 DEF KbdServed, MouseServed, IsReady, SameBytes
<1> QED
  BY <1>4, <1>5, <1>6 DEF Soft, Serves, u

LEMMA ClrBufferHolds ==
  ASSUME Inv, KEYBOARD_ClrBuffer
  PROVE  Inv'
<1>1. Holds(guest, s) /\ Good(s)
  BY DEF Inv, Holds, Sound
<1>2. s' = ClearKeys(s) /\ guest' = guest
  BY DEF KEYBOARD_ClrBuffer
<1>3. Holds(guest, s')
  BY <1>1, <1>2, ClearKeysSoft, SoftHolds
<1> QED
  BY <1>2, <1>3 DEF Inv

(* The mouse has something to send, or its delay is over.                  *)
LEMMA MouseMoves ==
  ASSUME NEW g, NEW t, NEW u, Holds(g, t), u \in State, SameBytes(t, u),
         u.keys = t.keys, u.overflowed = t.overflowed, u.dump = t.dump, u.disabled = t.disabled
  PROVE  Holds(g, SendMouseFrame(u))
<1>1. Sound(g, t) /\ (g = "gentle" => KbdServed(t)) /\ InTurn(t.keys)
  BY DEF Holds, Sound, Good
<1>2. g = "gentle" => ~u.disabled["kbd"]
  BY <1>1 DEF Sound
<1>3. Sound(g, u)
  BY <1>1, <1>2, SoundSame
<1>4. g = "gentle" => KbdServed(u)
  BY <1>1 DEF KbdServed, IsReady, SameBytes
<1>5. MouseTold(u, SendMouseFrame(u))
  BY <1>3, MouseSends DEF Sound
<1>6. Soft(u, SendMouseFrame(u)) /\ MouseServed(SendMouseFrame(u))
  BY <1>5 DEF MouseTold, Rel
<1>7. Sound(g, SendMouseFrame(u))
  BY <1>3, <1>6, SoftHolds
<1>8. g = "gentle" => KbdServed(SendMouseFrame(u))
  BY <1>2, <1>4, <1>6 DEF Soft, Serves
<1> QED
  BY <1>6, <1>7, <1>8 DEF Holds

LEMMA MouseEventHolds ==
  ASSUME Inv, MouseEvent
  PROVE  Inv'
<1> DEFINE t == [s EXCEPT !.has_data = TRUE]
<1>1. Holds(guest, s) /\ s \in State
  BY DEF Inv, Holds, Sound, Good
<1>2. s' = SendMouseFrame(t) /\ guest' = guest
  BY DEF MouseEvent
<1>3. t \in State
  BY <1>1 DEF State
<1>4. /\ SameBytes(s, t) /\ t.keys = s.keys /\ t.overflowed = s.overflowed /\ t.dump = s.dump
      /\ t.disabled = s.disabled
  BY <1>1 DEF State, SameBytes
<1> HIDE DEF t
<1>5. Holds(guest, s')
  BY <1>1, <1>2, <1>3, <1>4, MouseMoves
<1> QED
  BY <1>2, <1>5 DEF Inv

LEMMA MouseDelayHandlerHolds ==
  ASSUME Inv, MouseDelayHandler
  PROVE  Inv'
<1> DEFINE t == [s EXCEPT !.mouse_delay_expired = TRUE]
<1>1. Holds(guest, s) /\ s \in State
  BY DEF Inv, Holds, Sound, Good
<1>2. s' = SendMouseFrame(t) /\ guest' = guest
  BY DEF MouseDelayHandler
<1>3. t \in State
  BY <1>1 DEF State
<1>4. /\ SameBytes(s, t) /\ t.keys = s.keys /\ t.overflowed = s.overflowed /\ t.dump = s.dump
      /\ t.disabled = s.disabled
  BY <1>1 DEF State, SameBytes
<1> HIDE DEF t
<1>5. Holds(guest, s')
  BY <1>1, <1>2, <1>3, <1>4, MouseMoves
<1> QED
  BY <1>2, <1>5 DEF Inv

-----------------------------------------------------------------------------
(* A key is pressed.                                                       *)

LEMMA LineMore ==
  ASSUME NEW q \in Seq(Byte), NEW K \in SUBSET Nat, NEW f \in Nat, NEW m \in Nat, f <= m, NEW n \in Nat,
         Line(q, K, f, m), NEW K2, \A k \in K2 : k \in K \/ k \in m + 1..m + n
  PROVE  Line(q, K2, f, m + n)
<1>1. DOMAIN q = 1..Len(q) /\ \A i \in 1..Len(q) : q[i] \in Byte
  OBVIOUS
<1>2. \A i \in DOMAIN q : q[i].key \in Nat
  BY <1>1 DEF Byte
<1>3. /\ \A i \in DOMAIN q : q[i].key <= m /\ (q[i].key > 0 => q[i].key > f)
      /\ \A i, j \in DOMAIN q : i < j /\ q[j].key > 0 => q[i].key < q[j].key
      /\ \A k \in K : k > f /\ k <= m /\ \A i \in DOMAIN q : q[i].key < k
  BY DEF Line
<1>4. \A i \in DOMAIN q : q[i].key <= m + n
  BY <1>2, <1>3
<1>5. ASSUME NEW k \in K2 PROVE k > f /\ k <= m + n /\ \A i \in DOMAIN q : q[i].key < k
  <2>1. CASE k \in K
    BY <1>3, <2>1
  <2>2. CASE k \in m + 1..m + n
    <3>1. k \in Nat /\ k > m /\ k <= m + n
      BY <2>2
    <3> QED
      BY <1>2, <1>3, <3>1
  <2> QED
    BY <2>1, <2>2
<1> QED
  BY <1>3, <1>4, <1>5 DEF Line

LEMMA LinedMore ==
  ASSUME NEW t \in State, NEW u \in State, t.lastRead <= t.nextKey, NEW K \in SUBSET Nat, Lined(t, K),
         u.buf = t.buf, u.out = t.out, u.is_data_new = t.is_data_new, u.lastRead = t.lastRead,
         u.data_byte = t.data_byte, NEW n \in Nat, u.nextKey = t.nextKey + n,
         NEW K2, \A k \in K2 : k \in K \/ k \in t.nextKey + 1..t.nextKey + n
  PROVE  Lined(u, K2)
<1>1. t.buf \in Seq(Byte) /\ t.data_byte \in Nat /\ t.lastRead \in Nat /\ t.nextKey \in Nat
  BY StateFacts DEF State
<1>2. \A f \in Nat : f <= t.nextKey /\ Line(t.buf, K, f, t.nextKey) => Line(u.buf, K2, f, u.nextKey)
  BY <1>1, LineMore
<1>3. Line(u.buf, K2, u.lastRead, u.nextKey)
  BY <1>1, <1>2 DEF Lined
<1>4. ASSUME u.data_byte > 0
      PROVE  /\ u.data_byte >= u.lastRead /\ u.data_byte <= u.nextKey
             /\ Line(u.buf, K2, u.data_byte, u.nextKey)
  <2>1. t.data_byte >= t.lastRead /\ t.data_byte <= t.nextKey /\ Line(t.buf, K, t.data_byte, t.nextKey)
    BY <1>4 DEF Lined
  <2>2. t.data_byte <= t.nextKey + n
    BY <1>1, <2>1
  <2> QED
    BY <1>1, <1>2, <2>1, <2>2
<1>5. u.is_data_new => u.out.key = u.data_byte /\ (u.data_byte > 0 => u.data_byte > u.lastRead)
  BY DEF Lined
<1> QED
  BY <1>3, <1>4, <1>5 DEF Lined

(* A scancode with numbers beyond those of ks comes after ks.              *)
LEMMA AppendCode ==
  ASSUME NEW ks \in Seq(Code), InTurn(ks), NEW m \in Nat, \A k \in Numbers(ks) : k <= m,
         NEW n \in Nat, NEW c \in Code, \A i \in DOMAIN c : c[i].key \in m + 1..m + n
  PROVE  /\ Append(ks, c) \in Seq(Code) /\ InTurn(Append(ks, c)) /\ Append(ks, c) # <<>>
         /\ \A k \in Numbers(Append(ks, c)) : k \in Numbers(ks) \/ k \in m + 1..m + n
<1> DEFINE r == Append(ks, c)
           x == Len(ks) + 1
<1>1. /\ r \in Seq(Code) /\ r # <<>> /\ DOMAIN ks = 1..Len(ks) /\ DOMAIN r = 1..x /\ Len(ks) \in Nat
      /\ r[x] = c /\ \A i \in 1..Len(ks) : r[i] = ks[i]
  OBVIOUS
<1>2. \A k \in 1..Len(ks) : ks[k] \in Code
  OBVIOUS
<1> HIDE DEF r
<1>3. \A i \in 1..x : i = x \/ i \in 1..Len(ks)
  BY <1>1
<1>4. ASSUME NEW k \in 1..Len(ks), NEW i \in DOMAIN ks[k]
      PROVE  ks[k][i].key \in Numbers(ks) /\ ks[k][i].key \in Nat /\ ks[k][i].key <= m
  <2>1. ks[k][i].key \in Nat
    BY <1>2, CodeFacts
  <2>2. ks[k][i].key \in Numbers(ks)
    BY <1>1, <2>1 DEF Numbers
  <2> QED
    BY <2>1, <2>2
<1>5. InTurn(r)
  <2> SUFFICES ASSUME NEW k \in 1..x, NEW l \in 1..x, k < l, NEW i \in DOMAIN r[k], NEW j \in DOMAIN r[l]
               PROVE  r[k][i].key < r[l][j].key
    BY <1>1 DEF InTurn
  <2>1. k \in 1..Len(ks) /\ r[k] = ks[k]
    BY <1>1
  <2>2. CASE l = x
    <3>1. c[j].key \in m + 1..m + n /\ r[l] = c
      BY <1>1, <2>2
    <3>2. ks[k][i].key \in Nat /\ ks[k][i].key <= m
      BY <1>4, <2>1
    <3> QED
      BY <2>1, <3>1, <3>2
  <2>3. CASE l \in 1..Len(ks)
    BY <1>1, <2>1, <2>3 DEF InTurn
  <2> QED
    BY <1>3, <2>2, <2>3
<1>6. ASSUME NEW k \in Numbers(r) PROVE k \in Numbers(ks) \/ k \in m + 1..m + n
  <2>1. PICK l \in 1..x : \E i \in DOMAIN r[l] : r[l][i].key = k
    BY <1>1 DEF Numbers
  <2>2. CASE l = x
    BY <1>1, <2>1, <2>2
  <2>3. CASE l \in 1..Len(ks)
    BY <1>1, <1>4, <2>1, <2>3
  <2> QED
    BY <1>3, <2>2, <2>3
<1> QED
  BY <1>1, <1>5, <1>6 DEF r

(* The scancode after m numbers.                                           *)
Pressed(m, n) == [i \in 1..n |-> [from |-> "kbd", skip |-> FALSE, key |-> m + i]]

LEMMA PressedIs ==
  ASSUME NEW m \in Nat, NEW n \in KeyLengths
  PROVE  Pressed(m, n) \in Code /\ \A i \in DOMAIN Pressed(m, n) : Pressed(m, n)[i].key \in m + 1..m + n
<1> DEFINE c == Pressed(m, n)
<1>1. n \in Nat \ {0} /\ n <= KeyMax
  BY Sizes
<1>2. c \in Seq(Byte) /\ DOMAIN c = 1..n /\ Len(c) = n
  BY <1>1 DEF Pressed, Byte
<1>3. \A i \in 1..n : c[i].from = "kbd" /\ c[i].key = m + i
  BY DEF Pressed
<1> HIDE DEF c
<1>4. \A i \in 1..n : c[i].key \in m + 1..m + n /\ c[i].key > 0
  BY <1>1, <1>3
<1>5. \A i, j \in 1..n : i < j => c[i].key < c[j].key
  BY <1>1, <1>3
<1>6. c # <<>>
  BY <1>1, <1>2
<1>7. c \in Code
  BY <1>1, <1>2, <1>3, <1>4, <1>5, <1>6 DEF Code
<1> QED
  BY <1>2, <1>4, <1>7 DEF c

LEMMA KeyAddHolds ==
  ASSUME NEW g, NEW t, Holds(g, t), NEW n \in KeyLengths,
         NEW w, w = [t EXCEPT !.nextKey = @ + n]
  PROVE  Holds(g, KeyAdd(w, Pressed(t.nextKey, n)))
<1> DEFINE c == Pressed(t.nextKey, n)
           K == Numbers(t.keys)
<1>1. /\ Good(t) /\ t \in State /\ t.nextKey \in Nat /\ t.keys \in Seq(Code)
      /\ Lined(t, K) /\ t.lastRead <= t.nextKey /\ InTurn(t.keys) /\ K \in SUBSET Nat
  BY StateFacts DEF Holds, Sound, Good, Numbers
<1>2. n \in Nat
  BY Sizes
<1>3. w \in State /\ w.nextKey = t.nextKey + n
  <2> DEFINE z == t.nextKey + n
  <2>1. z \in Nat /\ w = [t EXCEPT !.nextKey = z]
    BY <1>1, <1>2
  <2> HIDE DEF z
  <2>2. w \in State /\ w.nextKey = z
    BY <1>1, <2>1 DEF State
  <2> QED
    BY <2>2 DEF z
<1>4. /\ w.buf = t.buf /\ w.out = t.out /\ w.is_data_new = t.is_data_new /\ w.waiting = t.waiting
      /\ w.lastRead = t.lastRead /\ w.keys = t.keys /\ w.dump = t.dump /\ w.disabled = t.disabled
      /\ w.overflowed = t.overflowed /\ w.has_data = t.has_data
      /\ w.mouse_delay_expired = t.mouse_delay_expired /\ w.data_byte = t.data_byte
  BY <1>1 DEF State
<1>5. c \in Code /\ \A i \in DOMAIN c : c[i].key \in t.nextKey + 1..t.nextKey + n
  BY <1>1, PressedIs
<1> HIDE DEF c
<1>6. ASSUME NEW v \in State, v.buf = w.buf, v.out = w.out, v.is_data_new = w.is_data_new,
             v.waiting = w.waiting, v.nextKey = w.nextKey, v.lastRead = w.lastRead,
             v.data_byte = w.data_byte,
             v.dump = w.dump, v.disabled = w.disabled, v.has_data = w.has_data,
             v.mouse_delay_expired = w.mouse_delay_expired, InTurn(v.keys),
             \A k \in Numbers(v.keys) : k \in K \/ k \in t.nextKey + 1..t.nextKey + n
      PROVE  Sound(g, v) /\ MouseServed(v) /\ (IsReady(v, "kbd") <=> IsReady(t, "kbd"))
  <2>1. Lined(v, Numbers(v.keys))
    BY <1>1, <1>2, <1>3, <1>4, <1>6, LinedMore
  <2>2. v.lastRead <= v.nextKey
    <3>1. t.lastRead \in Nat
      BY <1>1, StateFacts
    <3> QED
      BY <1>1, <1>2, <1>3, <1>4, <1>6, <3>1
  <2>3. Good(v)
    BY <1>1, <1>4, <1>6, <2>2 DEF Good, IdleIsCtl, Covered
  <2>4. \A d : IsOut(v, d) = IsOut(t, d)
    BY <1>4, <1>6 DEF IsOut
  <2>5. (Exact(t) => Exact(v)) /\ (Counted(t) => Counted(v)) /\ (Within(t) => Within(v))
    BY <1>4, <1>6, <2>4 DEF Exact, Counted, Within
  <2>6. Sound(g, v)
    BY <1>4, <1>6, <2>1, <2>3, <2>5 DEF Holds, Sound
  <2>7. MouseServed(v) /\ (IsReady(v, "kbd") <=> IsReady(t, "kbd"))
    BY <1>4, <1>6 DEF Holds, MouseServed, IsReady
  <2> QED
    BY <2>6, <2>7
<1>7. CASE w.overflowed
  <2>1. KeyAdd(w, c) = w
    BY <1>7 DEF KeyAdd
  <2>2. Sound(g, w) /\ MouseServed(w) /\ (IsReady(w, "kbd") <=> IsReady(t, "kbd"))
    BY <1>1, <1>3, <1>4, <1>6
  <2>3. KbdServed(t) => KbdServed(w)
    BY <1>4, <2>2 DEF KbdServed
  <2> QED
    BY <2>1, <2>2, <2>3 DEF Holds, c
<1>8. CASE ~w.overflowed /\ Len(w.keys) = KbdBufferSize
  <2> DEFINE v == [w EXCEPT !.keys = <<>>, !.overflowed = TRUE]
  <2>1. KeyAdd(w, c) = v
    BY <1>8 DEF KeyAdd
  <2>2. v \in State
    <3>1. <<>> \in Seq(Code)
      OBVIOUS
    <3> QED
      BY <1>3, <3>1 DEF State
  <2>3. /\ v.buf = w.buf /\ v.out = w.out /\ v.is_data_new = w.is_data_new /\ v.waiting = w.waiting
        /\ v.lastRead = w.lastRead /\ v.nextKey = w.nextKey /\ v.keys = <<>> /\ v.dump = w.dump
        /\ v.disabled = w.disabled /\ v.has_data = w.has_data
        /\ v.mouse_delay_expired = w.mouse_delay_expired /\ v.data_byte = w.data_byte
    BY <1>3 DEF State
  <2> HIDE DEF v
  <2>4. Sound(g, v) /\ MouseServed(v) /\ (IsReady(v, "kbd") <=> IsReady(t, "kbd"))
    BY <1>6, <2>2, <2>3, NoKeys
  <2>5. t.keys # <<>>
    BY <1>4, <1>8, Sizes
  <2>6. KbdServed(t) => KbdServed(v)
    BY <2>4, <2>5 DEF KbdServed
  <2> QED
    BY <2>1, <2>4, <2>6 DEF Holds, c
<1>9. CASE ~w.overflowed /\ Len(w.keys) # KbdBufferSize
  <2> DEFINE ks == Append(w.keys, c)
             v == [w EXCEPT !.keys = ks]
  <2>1. KeyAdd(w, c) = SendScancode(v)
    BY <1>9 DEF KeyAdd
  <2>2. \A k \in K : k <= t.nextKey
    BY <1>1 DEF Lined, Line
  <2>3. /\ ks \in Seq(Code) /\ InTurn(ks) /\ ks # <<>>
        /\ \A k \in Numbers(ks) : k \in K \/ k \in t.nextKey + 1..t.nextKey + n
    BY <1>1, <1>2, <1>4, <1>5, <2>2, AppendCode
  <2> HIDE DEF ks
  <2>4. v \in State
    BY <1>3, <2>3 DEF State
  <2>5. /\ v.buf = w.buf /\ v.out = w.out /\ v.is_data_new = w.is_data_new /\ v.waiting = w.waiting
        /\ v.lastRead = w.lastRead /\ v.nextKey = w.nextKey /\ v.keys = ks /\ v.dump = w.dump
        /\ v.disabled = w.disabled /\ v.has_data = w.has_data
        /\ v.mouse_delay_expired = w.mouse_delay_expired /\ v.data_byte = w.data_byte
    BY <1>3 DEF State
  <2> HIDE DEF v
  <2>6. Sound(g, v) /\ MouseServed(v)
    BY <1>6, <2>3, <2>4, <2>5
  <2>7. KbdTold(v, SendScancode(v))
    BY <2>6, KbdSends DEF Sound
  <2>8. Soft(v, SendScancode(v)) /\ KbdServed(SendScancode(v))
    BY <2>3, <2>5, <2>7 DEF KbdTold, Rel
  <2>9. Sound(g, SendScancode(v)) /\ MouseServed(SendScancode(v))
    BY <2>6, <2>8, SoftHolds DEF Soft, Serves
  <2> QED
    BY <2>1, <2>8, <2>9 DEF Holds, c
<1> QED
  BY <1>7, <1>8, <1>9

LEMMA AddKeyHolds ==
  ASSUME Inv, KEYBOARD_AddKey
  PROVE  Inv'
<1>1. Holds(guest, s) /\ s \in State /\ guest' = guest
  BY DEF Inv, Holds, Sound, Good, KEYBOARD_AddKey
<1>2. PICK n \in KeyLengths, r \in BOOLEAN :
        s' = KeyAdd([s EXCEPT !.repeating = r, !.nextKey = @ + n], Scancode(n))
  BY DEF KEYBOARD_AddKey
<1> DEFINE t == [s EXCEPT !.repeating = r]
           w == [t EXCEPT !.nextKey = @ + n]
           x == [s EXCEPT !.repeating = r, !.nextKey = @ + n]
<1>3. t \in State
  BY <1>1 DEF State
<1>4. Quieter(s, t)
  BY <1>1 DEF State, Quieter, SameBytes
<1>5. x = w
  BY <1>1 DEF State
<1>6. Holds(guest, t)
  BY <1>1, <1>3, <1>4, QuieterHolds
<1>7. Scancode(n) = Pressed(t.nextKey, n)
  BY <1>4 DEF Scancode, Pressed, Quieter, SameBytes
<1> HIDE DEF t
<1>8. Holds(guest, KeyAdd(w, Pressed(t.nextKey, n)))
  BY <1>6, KeyAddHolds
<1>9. Holds(guest, s')
  BY <1>2, <1>5, <1>7, <1>8
<1> QED
  BY <1>1, <1>9 DEF Inv

LEMMA TypematicHolds ==
  ASSUME Inv, TypematicTick
  PROVE  Inv'
<1> DEFINE r == IF s.keys = <<>> THEN Reenable(s) ELSE s
<1>1. Holds(guest, s) /\ s \in State /\ guest' = guest
  BY DEF Inv, Holds, Sound, Good, TypematicTick
<1>2. PICK n \in KeyLengths :
        \/ s' = KeyAdd([r EXCEPT !.nextKey = @ + n], Scancode(n))
        \/ s' = r
  BY DEF TypematicTick
<1>3. Holds(guest, r) /\ r.nextKey = s.nextKey
  <2>1. Reenable(s) \in State /\ Quieter(s, Reenable(s))
    BY <1>1, ReenableIs
  <2> QED
    BY <1>1, <2>1, QuieterHolds DEF Quieter, SameBytes
<1> HIDE DEF r
<1>4. Scancode(n) = Pressed(r.nextKey, n)
  BY <1>3 DEF Scancode, Pressed
<1>5. Holds(guest, KeyAdd([r EXCEPT !.nextKey = @ + n], Pressed(r.nextKey, n)))
  BY <1>3, KeyAddHolds
<1>6. Holds(guest, s')
  BY <1>2, <1>3, <1>4, <1>5
<1> QED
  BY <1>1, <1>6 DEF Inv

-----------------------------------------------------------------------------
(* The guest reads a byte.                                                 *)

(* What holds between the steps of a handler even when the byte that is    *)
(* read has been counted off.                                              *)
Mid(g, t) ==
  /\ Good(t)
  /\ g # "ram" /\ ~t.dump => Within(t)
  /\ g = "gentle" => ~t.dump /\ ~t.disabled["kbd"]
  /\ Lined(t, Numbers(t.keys))
  /\ MouseServed(t) /\ (g = "gentle" => KbdServed(t))

LEMMA HoldsIsMid ==
  ASSUME NEW g, NEW t, Holds(g, t)
  PROVE  Mid(g, t) /\ Counted(t) /\ (g # "ram" => Exact(t))
  BY DEF Holds, Sound, Mid

(* The bytes counted are those in the buffer.                              *)
Drained(t) == \A d \in Devices : t.waiting[d] = Bytes(t.buf, d)

(* During a dump no device is ready.                                       *)
LEMMA NotifyKeeps ==
  ASSUME NEW t, Good(t), NEW aux \in BOOLEAN, NEW kbd \in BOOLEAN, Within(t) \/ t.dump
  PROVE  Kept(t, NotifyReady(t, aux, kbd))
<1>1. CASE Within(t)
  BY <1>1, NotifyTells DEF AllTold, Rel
<1>2. CASE t.dump
  <2>1. t \in State /\ Reenable(t) \in State /\ Quieter(t, Reenable(t))
    BY ReenableIs DEF Good
  <2>2. NotifyReady(t, aux, kbd) = IF kbd THEN Reenable(t) ELSE t
    <3>1. ~IsReady(t, "aux") /\ ~IsReady(t, "kbd") /\ ~IsReady(Reenable(t), "kbd")
      BY <1>2, <2>1 DEF IsReady, Quieter
    <3> QED
      BY <3>1 DEF NotifyReady, NotifyReadyBy
  <2>3. Kept(t, Reenable(t)) /\ Kept(t, t)
    BY <2>1, QuieterRel DEF Kept
  <2> QED
    BY <2>2, <2>3
<1> QED
  BY <1>1, <1>2

LEMMA CountReadIs ==
  ASSUME NEW t, Good(t), NEW d \in Devices, t.is_data_new, t.out.from = d,
         1 + Bytes(t.buf, d) <= t.waiting[d]
  PROVE  LET v == CountRead(t, d)
         IN  /\ Good(v) /\ (Within(t) => Within(v))
             /\ v.waiting = [t.waiting EXCEPT ![d] = @ - 1]
             /\ v.buf = t.buf /\ v.out = t.out /\ v.is_data_new = t.is_data_new
             /\ v.data_byte = t.data_byte /\ SameRest(t, v)
<1> DEFINE w == [t.waiting EXCEPT ![d] = @ - 1]
           v == [t EXCEPT !.waiting = w]
<1>1. CountRead(t, d) = v
  BY DEF CountRead
<1>2. t \in State /\ t.waiting \in [Devices -> Nat]
  BY StateFacts DEF Good
<1>3. Bytes(t.buf, d) \in Nat /\ t.waiting[d] \in Nat
  BY <1>2, StateFacts
<1>4. t.waiting[d] - 1 \in Nat /\ Bytes(t.buf, d) <= t.waiting[d] - 1
  BY <1>3
<1>5. w \in [Devices -> Nat] /\ \A e \in Devices : w[e] = IF e = d THEN t.waiting[d] - 1 ELSE t.waiting[e]
  BY <1>2, <1>4
<1> HIDE DEF w
<1>6. v \in State
  BY <1>2, <1>5 DEF State
<1>7. /\ v.waiting = w /\ v.buf = t.buf /\ v.out = t.out /\ v.is_data_new = t.is_data_new
      /\ v.data_byte = t.data_byte
  BY <1>2 DEF State
<1>8. SameRest(t, v)
  BY <1>2 DEF State, SameRest
<1> HIDE DEF v
<1>9. Covered(v)
  <2> SUFFICES ASSUME NEW e \in Devices PROVE Bytes(v.buf, e) <= v.waiting[e]
    BY DEF Covered
  <2>1. CASE e = d
    BY <1>4, <1>5, <1>7, <2>1
  <2>2. CASE e # d
    BY <1>5, <1>7, <2>2 DEF Good, Covered
  <2> QED
    BY <2>1, <2>2
<1>10. Good(v)
  BY <1>6, <1>7, <1>8, <1>9 DEF Good, IdleIsCtl, SameRest
<1>11. Within(t) => Within(v)
  <2> DEFINE a == t.waiting["kbd"]
             b == t.waiting["aux"]
             x == w["kbd"]
             y == w["aux"]
             c == Bytes(t.buf, "ctl")
  <2>1. a \in Nat /\ b \in Nat /\ c \in Nat /\ x \in Nat /\ y \in Nat
    BY <1>2, <1>5, StateFacts DEF Devices
  <2>2. x <= a /\ y <= b
    BY <1>2, <1>5 DEF Devices
  <2>3. /\ Within(t) <=> Beyond(a, KeyMax) + (Beyond(b, FrameLength) + c) <= MaxReplies
        /\ Within(v) <=> Beyond(x, KeyMax) + (Beyond(y, FrameLength) + c) <= MaxReplies
    BY <1>7 DEF Within
  <2> HIDE DEF a, b, c, x, y
  <2>4. /\ Beyond(a, KeyMax) \in Nat /\ Beyond(b, FrameLength) \in Nat
        /\ Beyond(x, KeyMax) \in Nat /\ Beyond(y, FrameLength) \in Nat
        /\ Beyond(x, KeyMax) <= Beyond(a, KeyMax) /\ Beyond(y, FrameLength) <= Beyond(b, FrameLength)
    BY <2>1, <2>2, Sizes DEF Beyond
  <2> QED
    BY <2>1, <2>3, <2>4, Sizes
<1> QED
  BY <1>1, <1>7, <1>8, <1>10, <1>11 DEF w

(* One byte of d is counted off and d is told.                             *)
LEMMA ReadOne ==
  ASSUME NEW g, NEW t, Mid(g, t), NEW d \in Devices, t.is_data_new, t.out.from = d,
         1 + Bytes(t.buf, d) <= t.waiting[d],
         NEW aux \in BOOLEAN, NEW kbd \in BOOLEAN, aux = (d = "aux"), kbd = (d = "kbd")
  PROVE  LET u == NotifyReady(CountRead(t, d), aux, kbd)
         IN  /\ Mid(g, u) /\ u.nextKey = t.nextKey /\ u.lastRead = t.lastRead
             /\ Leads(t, u, Numbers(t.keys), Numbers(u.keys))
             /\ (u.is_data_new /\ u.out = t.out) \/ Exact(u)
             /\ g # "ram" => u.is_data_new /\ u.out = t.out /\ (Exact(t) => Drained(u))
<1> DEFINE v == CountRead(t, d)
           u == NotifyReady(v, aux, kbd)
<1>1. Good(t) /\ t \in State
  BY DEF Mid, Good
<1>2. /\ Good(v) /\ (Within(t) => Within(v))
      /\ v.waiting = [t.waiting EXCEPT ![d] = @ - 1]
      /\ v.buf = t.buf /\ v.out = t.out /\ v.is_data_new = t.is_data_new
      /\ v.data_byte = t.data_byte /\ SameRest(t, v)
  BY <1>1, CountReadIs, ZenonT(30)
<1> HIDE DEF v
<1>3. AllTold(v, u, aux, kbd)
  BY <1>2, NotifyTells
<1>4. g # "ram" => Kept(v, u)
  <2>1. g # "ram" => Within(v) \/ v.dump
    BY <1>2 DEF Mid, SameRest
  <2> QED
    BY <1>2, <2>1, NotifyKeeps
<1> HIDE DEF u
<1>5. Soft(v, u)
  BY <1>3 DEF AllTold, Rel
<1>6. Good(u) /\ Flags(v, u) /\ Counts(v, u) /\ Leads(v, u, Numbers(v.keys), Numbers(u.keys))
  BY <1>5 DEF Soft
<1>7. u.nextKey = t.nextKey /\ u.lastRead = t.lastRead /\ v.nextKey = t.nextKey /\ v.keys = t.keys
  BY <1>2, <1>6 DEF Flags, SameRest
<1>8. Leads(t, v, Numbers(t.keys), Numbers(t.keys))
  BY <1>2 DEF Leads, Lined, SameRest
<1>9. Leads(t, u, Numbers(t.keys), Numbers(u.keys))
  BY <1>6, <1>7, <1>8, LeadsOn
<1>10. t.waiting \in [Devices -> Nat] /\ d \in Devices
  BY <1>1, StateFacts
<1>11. MouseServed(u)
  <2>1. CASE aux
    BY <1>3, <2>1 DEF AllTold
  <2>2. CASE ~aux
    <3>1. v.waiting["aux"] = t.waiting["aux"]
      BY <1>2, <1>10, <2>2 DEF Devices
    <3>2. MouseServed(v)
      BY <1>2, <3>1 DEF Mid, MouseServed, IsReady, SameRest
    <3> QED
      BY <1>3, <3>2 DEF AllTold
  <2> QED
    BY <2>1, <2>2
<1>12. g = "gentle" => KbdServed(u)
  <2>1. CASE kbd
    BY <1>3, <2>1 DEF AllTold
  <2>2. CASE ~kbd
    <3>1. v.waiting["kbd"] = t.waiting["kbd"]
      BY <1>2, <1>10, <2>2 DEF Devices
    <3>2. g = "gentle" => KbdServed(v) /\ ~v.disabled["kbd"]
      BY <1>2, <3>1 DEF Mid, KbdServed, IsReady, SameRest
    <3> QED
      BY <1>3, <3>2 DEF AllTold
  <2> QED
    BY <2>1, <2>2
<1>13. Mid(g, u)
  <2>1. g # "ram" /\ ~u.dump => Within(u)
    BY <1>2, <1>6 DEF Mid, Flags, Counts, SameRest
  <2>2. g = "gentle" => ~u.dump /\ ~u.disabled["kbd"]
    BY <1>2, <1>6 DEF Mid, Flags, SameRest
  <2>3. Lined(u, Numbers(u.keys))
    BY <1>9 DEF Mid, Leads
  <2> QED
    BY <1>6, <1>11, <1>12, <2>1, <2>2, <2>3 DEF Mid
<1>14. Kept(v, u) => u.is_data_new /\ u.out = t.out
  BY <1>2 DEF Kept
<1>15. (u.is_data_new /\ u.out = t.out) \/ Exact(u)
  BY <1>6, <1>14 DEF Counts
<1>16. ASSUME Kept(v, u), Exact(t) PROVE Drained(u)
  <2> SUFFICES ASSUME NEW e \in Devices PROVE u.waiting[e] = Bytes(u.buf, e)
    BY DEF Drained
  <2>1. IsOut(t, e) = (IF e = d THEN 1 ELSE 0) /\ IsOut(t, e) + Bytes(t.buf, e) = t.waiting[e]
    BY <1>16 DEF IsOut, Exact
  <2>2. v.waiting[e] = IF e = d THEN t.waiting[e] - 1 ELSE t.waiting[e]
    BY <1>2, <1>10
  <2>3. u.waiting[e] + Bytes(v.buf, e) = v.waiting[e] + Bytes(u.buf, e)
    BY <1>2, <1>16 DEF Kept
  <2> DEFINE a == t.waiting[e]
             b == v.waiting[e]
             c == u.waiting[e]
             x == Bytes(t.buf, e)
             y == Bytes(u.buf, e)
  <2>4. a \in Nat /\ c \in Nat /\ x \in Nat /\ y \in Nat
    BY <1>1, <1>6, StateFacts DEF Good
  <2>5. (IF e = d THEN 1 ELSE 0) + x = a /\ b = (IF e = d THEN a - 1 ELSE a) /\ c + x = b + y
    BY <1>2, <2>1, <2>2, <2>3
  <2> HIDE DEF a, b, c, x, y
  <2>6. c = y
    <3>1. CASE e = d
      BY <2>4, <2>5, <3>1
    <3>2. CASE e # d
      BY <2>4, <2>5, <3>2
    <3> QED
      BY <3>1, <3>2
  <2> QED
    BY <2>6 DEF c, y
<1> QED
  BY <1>4, <1>7, <1>9, <1>13, <1>14, <1>15, <1>16 DEF u, v

(* The output byte has been read: the next one may come.  The last number  *)
(* that was read becomes that of the data byte, if it has one.             *)
Taken(t, l) == [t EXCEPT !.is_data_new = FALSE, !.out = Reply("ctl"), !.lastRead = l]

LEMMA TakenHolds ==
  ASSUME NEW g, NEW t, Mid(g, t), g # "ram" => Drained(t), NEW l, l = GivenTo(t)
  PROVE  Holds(g, Taken(t, l))
<1> DEFINE u == Taken(t, l)
<1>1. t \in State /\ t.lastRead <= t.nextKey /\ Lined(t, Numbers(t.keys))
  BY DEF Mid, Good
<1>2. t.lastRead \in Nat /\ t.data_byte \in Nat /\ t.nextKey \in Nat
  BY <1>1 DEF State
<1>3. /\ l \in Nat /\ l <= t.nextKey /\ (t.data_byte > 0 => l = t.data_byte)
      /\ Line(t.buf, Numbers(t.keys), l, t.nextKey)
  BY <1>1, <1>2 DEF GivenTo, Lined
<1>4. Reply("ctl") \in Byte /\ Reply("ctl").from = "ctl"
  BY DEF Reply, Byte
<1>5. u \in State
  BY <1>1, <1>4, <1>3 DEF Taken, State
<1>6. ~u.is_data_new /\ u.out = Reply("ctl") /\ u.lastRead = l
  BY <1>1 DEF Taken, State
<1>7. /\ u.buf = t.buf /\ u.waiting = t.waiting /\ u.disabled = t.disabled /\ u.dump = t.dump
      /\ u.keys = t.keys /\ u.overflowed = t.overflowed /\ u.has_data = t.has_data
      /\ u.mouse_delay_expired = t.mouse_delay_expired /\ u.nextKey = t.nextKey
      /\ u.data_byte = t.data_byte
  BY <1>1 DEF Taken, State
<1> HIDE DEF u
<1>8. Good(u)
  BY <1>4, <1>5, <1>6, <1>7, <1>3 DEF Mid, Good, IdleIsCtl, Covered
<1>9. /\ \A d : IsOut(u, d) = 0 /\ Bytes(u.buf, d) \in Nat
      /\ \A d \in Devices : Bytes(u.buf, d) <= u.waiting[d]
  BY <1>5, <1>6, <1>8, StateFacts DEF IsOut, Good, Covered
<1>10. Counted(u)
  BY <1>9 DEF Counted
<1>11. g # "ram" => Exact(u)
  BY <1>7, <1>9 DEF Drained, Exact
<1>12. Lined(u, Numbers(u.keys))
  BY <1>1, <1>6, <1>7, <1>2, <1>3 DEF Lined
<1>13. Sound(g, u)
  BY <1>7, <1>8, <1>10, <1>11, <1>12 DEF Mid, Sound, Within
<1>14. MouseServed(u) /\ (g = "gentle" => KbdServed(u))
  BY <1>7 DEF Mid, MouseServed, KbdServed, IsReady
<1> QED
  BY <1>13, <1>14 DEF Holds, u

(* The last byte of a dump is read.                                        *)
Undumped(t) == [t EXCEPT !.dump = FALSE]

LEMMA DumpEnds ==
  ASSUME NEW g, NEW t, Holds(g, t), t.is_data_new, t.buf = <<>>
  PROVE  LET u == NotifyReady(Undumped(t), TRUE, TRUE)
         IN  /\ Holds(g, u) /\ u.nextKey = t.nextKey /\ u.lastRead = t.lastRead
             /\ Leads(t, u, Numbers(t.keys), Numbers(u.keys))
             /\ g # "ram" => Kept(t, u)
<1> DEFINE v == Undumped(t)
           u == NotifyReady(v, TRUE, TRUE)
<1>1. Good(t) /\ t \in State /\ InTurn(t.keys)
  BY DEF Holds, Sound, Good
<1>2. v \in State
  BY <1>1 DEF Undumped, State
<1>3. SameBytes(t, v) /\ v.keys = t.keys /\ ~v.dump /\ v.disabled = t.disabled
  BY <1>1 DEF Undumped, State, SameBytes
<1> HIDE DEF v
<1>4. /\ Good(v) /\ Counts(t, v) /\ Kept(t, v)
      /\ Leads(t, v, Numbers(t.keys), Numbers(v.keys))
  BY <1>1, <1>2, <1>3, SameBytesKeeps
<1>5. g # "ram" => Within(v)
  <2> SUFFICES ASSUME Exact(v) PROVE Within(v)
    BY <1>4 DEF Holds, Sound, Counts
  <2>1. v.buf = <<>>
    BY <1>3 DEF SameBytes
  <2>2. \A d : Bytes(v.buf, d) = 0 /\ IsOut(v, d) \in {0, 1}
    BY <2>1, BytesEmpty DEF IsOut
  <2>3. v.waiting["kbd"] \in {0, 1} /\ v.waiting["aux"] \in {0, 1}
    BY <2>2 DEF Exact, Devices
  <2>4. KeyMax >= 1 /\ FrameLength >= 1 /\ MaxReplies >= 1
    BY Sizes
  <2>5. Clear(v)
    BY <2>2, <2>3, <2>4, Sizes DEF Clear
  <2> QED
    BY <1>2, <2>5, ClearIsWithin
<1>6. Sound(g, v)
  BY <1>3, <1>4, <1>5 DEF Holds, Sound, Counts, Leads
<1>7. AllTold(v, u, TRUE, TRUE)
  BY <1>4, NotifyTells
<1> HIDE DEF u
<1>8. Rel(v, u) /\ MouseServed(u) /\ KbdServed(u)
  BY <1>7 DEF AllTold
<1>9. Holds(g, u)
  BY <1>6, <1>8, SoftHolds DEF Holds, Rel
<1>10. u.nextKey = t.nextKey /\ u.lastRead = t.lastRead /\ v.nextKey = t.nextKey
  BY <1>3, <1>8 DEF Rel, Soft, Flags, SameBytes
<1>11. Leads(t, u, Numbers(t.keys), Numbers(u.keys))
  <2>1. Leads(v, u, Numbers(v.keys), Numbers(u.keys))
    BY <1>8 DEF Rel, Soft
  <2> QED
    BY <1>4, <1>10, <2>1, LeadsOn
<1>12. g # "ram" => Kept(t, u)
  <2>1. u \in State
    BY <1>8 DEF Rel, Soft, Good
  <2> QED
    BY <1>1, <1>2, <1>4, <1>5, <1>8, <2>1, KeptOn DEF Rel
<1> QED
  BY <1>9, <1>10, <1>11, <1>12 DEF u, v

LEMMA ReadHolds ==
  ASSUME Inv, read_data_port
  PROVE  Inv'
<1> DEFINE a == IF s.dump /\ s.buf = <<>> THEN NotifyReady(Undumped(s), TRUE, TRUE) ELSE s
           b == IF a.out.from = "aux" THEN NotifyReady(CountRead(a, "aux"), TRUE, FALSE) ELSE a
           c == IF b.out.from = "kbd" THEN NotifyReady(CountRead(b, "kbd"), FALSE, TRUE) ELSE b
           l == GivenTo(c)
           g == guest
<1>1. /\ s.is_data_new /\ guest' = guest
      /\ s' = Transfer(Taken(c, l))
  <2>1. NotifyOfRead(s) = c
    BY DEF NotifyOfRead, Undumped
  <2> HIDE DEF c
  <2> QED
    BY <2>1 DEF read_data_port, Taken
<1>2. Holds(g, s) /\ s \in State /\ Good(s) /\ Lined(s, Numbers(s.keys))
  BY DEF Inv, Holds, Sound, Good
<1> HIDE DEF g
<1>3. /\ Holds(g, a) /\ a.nextKey = s.nextKey /\ a.lastRead = s.lastRead
      /\ Leads(s, a, Numbers(s.keys), Numbers(a.keys))
      /\ g # "ram" => Kept(s, a)
  <2>1. CASE s.dump /\ s.buf = <<>>
    BY <1>1, <1>2, <2>1, DumpEnds
  <2>2. CASE ~(s.dump /\ s.buf = <<>>)
    BY <1>2, <2>2 DEF Leads, Kept
  <2> QED
    BY <2>1, <2>2
<1> HIDE DEF a
<1>4. Mid(g, a) /\ Counted(a) /\ (g # "ram" => Exact(a)) /\ IdleIsCtl(a) /\ a \in State
  BY <1>3, HoldsIsMid DEF Mid, Good
<1>5. ASSUME NEW d \in Devices, a.out.from = d
      PROVE  a.is_data_new /\ 1 + Bytes(a.buf, d) <= a.waiting[d]
  <2>1. a.is_data_new
    BY <1>4, <1>5 DEF IdleIsCtl, Devices
  <2>2. IsOut(a, d) = 1
    BY <1>5, <2>1 DEF IsOut
  <2> QED
    BY <1>4, <2>1, <2>2 DEF Counted
<1>6. "aux" \in Devices /\ "kbd" \in Devices
  BY DEF Devices
<1>7. /\ Mid(g, b) /\ b.nextKey = s.nextKey /\ b.lastRead = s.lastRead
      /\ Leads(s, b, Numbers(s.keys), Numbers(b.keys))
      /\ a.out.from = "aux" => (b.is_data_new /\ b.out = a.out) \/ Exact(b)
      /\ a.out.from = "aux" /\ g # "ram" => b.out = a.out /\ Drained(b)
      /\ a.out.from # "aux" => b = a
  <2>1. CASE a.out.from = "aux"
    <3> DEFINE u == NotifyReady(CountRead(a, "aux"), TRUE, FALSE)
    <3>1. /\ Mid(g, u) /\ u.nextKey = a.nextKey /\ u.lastRead = a.lastRead
          /\ Leads(a, u, Numbers(a.keys), Numbers(u.keys))
          /\ (u.is_data_new /\ u.out = a.out) \/ Exact(u)
          /\ g # "ram" => u.is_data_new /\ u.out = a.out /\ (Exact(a) => Drained(u))
      <4>1. a.is_data_new /\ 1 + Bytes(a.buf, "aux") <= a.waiting["aux"]
        BY <1>5, <1>6, <2>1
      <4>2. TRUE = ("aux" = "aux") /\ FALSE = ("aux" = "kbd")
        OBVIOUS
      <4> QED
        BY <1>4, <1>6, <2>1, <4>1, <4>2, ReadOne
    <3>2. b = u
      BY <2>1
    <3> HIDE DEF u, b
    <3>3. Leads(s, u, Numbers(s.keys), Numbers(u.keys))
      BY <1>3, <3>1, LeadsOn
    <3> QED
      BY <1>3, <1>4, <2>1, <3>1, <3>2, <3>3
  <2>2. CASE a.out.from # "aux"
    BY <1>3, <1>4, <2>2
  <2> QED
    BY <2>1, <2>2
<1> HIDE DEF b
<1>8. /\ Mid(g, c) /\ c.nextKey = s.nextKey /\ c.lastRead = s.lastRead
      /\ Leads(s, c, Numbers(s.keys), Numbers(c.keys))
      /\ g # "ram" => Drained(c)
  <2>1. CASE b.out.from = "kbd"
    <3> DEFINE u == NotifyReady(CountRead(b, "kbd"), FALSE, TRUE)
    <3>1. b.is_data_new /\ 1 + Bytes(b.buf, "kbd") <= b.waiting["kbd"]
      <4>1. CASE a.out.from # "aux"
        <5>1. b = a /\ a.out.from = "kbd"
          BY <1>7, <2>1, <4>1
        <5> QED
          BY <1>5, <1>6, <5>1
      <4>2. CASE a.out.from = "aux"
        <5>1. Exact(b)
          BY <1>7, <2>1, <4>2
        <5>2. b.is_data_new
          BY <1>7, <2>1 DEF Mid, Good, IdleIsCtl
        <5>3. IsOut(b, "kbd") = 1
          BY <2>1, <5>2 DEF IsOut
        <5>4. 1 + Bytes(b.buf, "kbd") = b.waiting["kbd"] /\ b \in State
          BY <1>6, <1>7, <5>1, <5>3 DEF Exact, Mid, Good
        <5>5. b.waiting["kbd"] \in Nat
          BY <1>6, <5>4, StateFacts
        <5> QED
          BY <5>2, <5>4, <5>5
      <4> QED
        BY <4>1, <4>2
    <3>2. /\ Mid(g, u) /\ u.nextKey = b.nextKey /\ u.lastRead = b.lastRead
          /\ Leads(b, u, Numbers(b.keys), Numbers(u.keys))
          /\ (u.is_data_new /\ u.out = b.out) \/ Exact(u)
          /\ g # "ram" => u.is_data_new /\ u.out = b.out /\ (Exact(b) => Drained(u))
      <4>1. FALSE = ("kbd" = "aux") /\ TRUE = ("kbd" = "kbd")
        OBVIOUS
      <4>2. Mid(g, b)
        BY <1>7
      <4> QED
        BY <1>6, <2>1, <3>1, <4>1, <4>2, ReadOne
    <3>3. c = u
      BY <2>1
    <3> HIDE DEF u, c
    <3>4. Leads(s, u, Numbers(s.keys), Numbers(u.keys))
      BY <1>7, <3>2, LeadsOn
    <3>5. g # "ram" => Exact(b)
      BY <1>4, <1>7, <2>1
    <3> QED
      BY <1>7, <3>2, <3>3, <3>4, <3>5
  <2>2. CASE b.out.from # "kbd"
    <3>1. c = b
      BY <2>2
    <3>2. g # "ram" => Drained(b)
      <4>1. CASE a.out.from = "aux"
        BY <1>7, <4>1
      <4>2. CASE a.out.from # "aux"
        <5>1. b = a
          BY <1>7, <4>2
        <5>2. \A d \in Devices : IsOut(b, d) = 0 /\ Bytes(b.buf, d) \in Nat
          BY <1>4, <2>2, <4>2, <5>1, StateFacts DEF IsOut, Devices
        <5> QED
          BY <1>4, <5>1, <5>2 DEF Exact, Drained
      <4> QED
        BY <4>1, <4>2
    <3> QED
      BY <1>7, <3>1, <3>2
  <2> QED
    BY <2>1, <2>2
<1> HIDE DEF c
<1> HIDE DEF l
<1>9. Holds(g, Taken(c, l))
  BY <1>8, TakenHolds DEF l
<1>10. Soft(Taken(c, l), Transfer(Taken(c, l)))
  BY <1>9, TransferRel DEF Holds, Sound, Rel
<1>11. Holds(g, s')
  BY <1>1, <1>9, <1>10, SoftHolds
<1> QED
  BY <1>1, <1>11 DEF Inv, g

(* The previous byte is returned again.                                    *)
LEMMA ReadAgainHolds ==
  ASSUME Inv, ReadAgain
  PROVE  Inv'
<1> DEFINE g == guest
           t == s
           l == GivenTo(t)
           u == [t EXCEPT !.lastRead = l]
<1>1. Holds(g, t) /\ Good(t) /\ t \in State /\ Lined(t, Numbers(t.keys)) /\ t.lastRead <= t.nextKey
  BY DEF Inv, Holds, Sound, Good
<1>2. ~t.is_data_new /\ guest' = guest /\ s' = u
  BY DEF ReadAgain
<1>3. t.lastRead \in Nat /\ t.data_byte \in Nat /\ t.nextKey \in Nat
  BY <1>1 DEF State
<1>4. /\ l \in Nat /\ l <= t.nextKey /\ (t.data_byte > 0 => l = t.data_byte)
      /\ Line(t.buf, Numbers(t.keys), l, t.nextKey)
  BY <1>1, <1>3 DEF GivenTo, Lined
<1> HIDE DEF g, t, l
<1>5. u \in State
  BY <1>1, <1>4 DEF State
<1>6. u.lastRead = l /\ u.data_byte = t.data_byte
  BY <1>1 DEF State
<1>7. /\ u.buf = t.buf /\ u.out = t.out /\ u.is_data_new = t.is_data_new
      /\ u.waiting = t.waiting /\ u.disabled = t.disabled /\ u.dump = t.dump
      /\ u.keys = t.keys /\ u.overflowed = t.overflowed /\ u.has_data = t.has_data
      /\ u.mouse_delay_expired = t.mouse_delay_expired /\ u.nextKey = t.nextKey
  BY <1>1 DEF State
<1> HIDE DEF u
<1>8. Good(u)
  BY <1>1, <1>4, <1>5, <1>6, <1>7 DEF Good, IdleIsCtl, Covered
<1>9. Lined(u, Numbers(u.keys))
  BY <1>1, <1>2, <1>3, <1>4, <1>6, <1>7 DEF Lined
<1>10. \A d : IsOut(u, d) = IsOut(t, d)
  BY <1>7 DEF IsOut
<1>11. Counted(u) /\ (g # "ram" => Exact(u)) /\ (Within(t) => Within(u))
  BY <1>1, <1>7, <1>10 DEF Holds, Sound, Counted, Exact, Within
<1>12. Sound(g, u)
  BY <1>1, <1>7, <1>8, <1>9, <1>11 DEF Holds, Sound
<1>13. MouseServed(u) /\ (g = "gentle" => KbdServed(u))
  BY <1>1, <1>7 DEF Holds, MouseServed, KbdServed, IsReady
<1> QED
  BY <1>1, <1>2, <1>12, <1>13 DEF Inv, Holds, g

-----------------------------------------------------------------------------
(* The guest writes: what a handler does before it tells the devices.      *)

(* Neither device has anything new to send.                                *)
Between(r, x) ==
  /\ x.keys = r.keys /\ x.overflowed = r.overflowed
  /\ (x.has_data => r.has_data) /\ x.mouse_delay_expired = r.mouse_delay_expired

LEMMA BetweenOn ==
  ASSUME NEW t, NEW u, NEW v, Between(t, u), Between(u, v)
  PROVE  Between(t, v)
  BY DEF Between

LEMMA NotifyAfter ==
  ASSUME NEW g, NEW r, NEW x, Sound(g, x), Between(r, x), MouseServed(r), g = "gentle" => KbdServed(r)
  PROVE  Holds(g, NotifyReady(x, ~IsReady(r, "aux"), ~IsReady(r, "kbd")))
<1> DEFINE aux == ~IsReady(r, "aux")
           kbd == ~IsReady(r, "kbd")
           u == NotifyReady(x, aux, kbd)
<1>1. aux \in BOOLEAN /\ kbd \in BOOLEAN /\ Good(x)
  BY DEF IsReady, Sound
<1>2. aux \/ MouseServed(x)
  BY DEF MouseServed, Between
<1>3. g = "gentle" => kbd \/ (~x.disabled["kbd"] /\ KbdServed(x))
  BY DEF KbdServed, Between, Sound
<1> HIDE DEF aux, kbd
<1>4. AllTold(x, u, aux, kbd)
  BY <1>1, NotifyTells
<1> HIDE DEF u
<1>5. Soft(x, u) /\ MouseServed(u) /\ (g = "gentle" => KbdServed(u))
  BY <1>2, <1>3, <1>4 DEF AllTold, Rel
<1>6. Sound(g, u)
  BY <1>5, SoftHolds
<1> QED
  BY <1>5, <1>6 DEF Holds, u, aux, kbd

LEMMA EmptiedSound ==
  ASSUME NEW g, NEW t, Good(t), Lined(t, Numbers(t.keys)),
         g = "gentle" => ~t.dump /\ ~t.disabled["kbd"]
  PROVE  Sound(g, Emptied(t)) /\ Between(t, Emptied(t))
<1>1. /\ Good(Emptied(t)) /\ Clear(Emptied(t)) /\ Within(Emptied(t)) /\ Counted(Emptied(t))
      /\ Leads(t, Emptied(t), Numbers(t.keys), Numbers(t.keys)) /\ SameRest(t, Emptied(t))
  BY EmptiedIs
<1>2. Lined(Emptied(t), Numbers(Emptied(t).keys))
  BY <1>1 DEF Leads, SameRest
<1> QED
  BY <1>1, <1>2 DEF Sound, Clear, SameRest, Between

(* Replies of x have been added, or x is disabled.                         *)
Answers(t, u, x, n) ==
  /\ Good(u) /\ SameRest(t, u)
  /\ Leads(t, u, Numbers(t.keys), Numbers(u.keys))
  /\ (Counted(t) => Counted(u)) /\ (Exact(t) => Exact(u))
  /\ \A d \in Devices : IsReady(u, d) => IsReady(t, d)
  /\ u = t \/ Grows(t, u, x, n)

LEMMA GrowsAnswers ==
  ASSUME NEW t, NEW u, Good(t), NEW x, NEW n \in Nat, Grows(t, u, x, n),
         Leads(t, u, Numbers(t.keys), Numbers(t.keys)), Len(t.buf) + n <= BufferSize
  PROVE  Answers(t, u, x, n)
<1>1. t \in State /\ u \in State /\ SameRest(t, u)
  BY DEF Good, Grows
<1>2. Len(u.buf) <= BufferSize
  <2>1. Len(u.buf) \in Nat /\ Len(t.buf) \in Nat /\ Len(u.buf) <= Len(t.buf) + n
    BY <1>1, StateFacts DEF Grows
  <2> QED
    BY <2>1, Sizes
<1>3. Good(u)
  BY <1>1, <1>2 DEF Good, Grows, SameRest
<1>4. ASSUME NEW d \in Devices, u.waiting[d] = 0 PROVE t.waiting[d] = 0
  <2>1. u.waiting[d] = t.waiting[d] + (IF d = x THEN n ELSE 0) /\ t.waiting[d] \in Nat
    BY <1>1, StateFacts DEF Grows
  <2> QED
    BY <1>4, <2>1
<1>5. \A d \in Devices : IsReady(u, d) => IsReady(t, d)
  BY <1>1, <1>4 DEF IsReady, SameRest
<1>6. Leads(t, u, Numbers(t.keys), Numbers(u.keys))
  BY <1>1 DEF SameRest
<1> QED
  BY <1>1, <1>3, <1>5, <1>6 DEF Answers, Grows

LEMMA AnswersNot ==
  ASSUME NEW t, Good(t), NEW x, NEW n
  PROVE  Answers(t, t, x, n)
  BY DEF Answers, SameRest, Leads

LEMMA AddAnswers ==
  ASSUME NEW t, Good(t), NEW x, NEW q, Plain(q, x), Len(t.buf) + Len(q) <= BufferSize
  PROVE  Answers(t, BufferAddAll(t, q), x, Len(q))
<1> DEFINE u == BufferAddAll(t, q)
           n == Len(q)
           K == Numbers(t.keys)
<1>1. q \in Seq(Byte) /\ (\A i \in DOMAIN q : q[i].from = x) /\ n \in Nat
  BY DEF Plain
<1>2. CASE Blocked(t, x)
  <2>1. u = t
    BY <1>1, <1>2, AddBlocked
  <2> QED
    BY <2>1, AnswersNot
<1>3. CASE ~Blocked(t, x)
  <2>1. t \in State /\ K \in SUBSET Nat
    BY DEF Good, Numbers
  <2>2. Grows(t, u, x, n) /\ Leads(t, u, K, K)
    BY <1>3, <2>1, AddPlain
  <2> HIDE DEF u
  <2>3. Len(t.buf) + n <= BufferSize
    OBVIOUS
  <2> HIDE DEF n
  <2>4. Answers(t, u, x, n)
    BY <1>1, <2>2, <2>3, GrowsAnswers
  <2> QED
    BY <2>4 DEF u, n
<1> QED
  BY <1>2, <1>3

LEMMA ReplyIs ==
  ASSUME NEW x \in {"ctl", "kbd", "aux"}
  PROVE  Reply(x) \in Byte /\ Reply(x).from = x /\ Reply(x).key = 0
  BY DEF Reply, Byte

LEMMA OneAnswers ==
  ASSUME NEW t, Good(t), NEW x \in {"ctl", "kbd", "aux"}, Len(t.buf) + 1 <= BufferSize
  PROVE  Answers(t, BufferAdd(t, Reply(x)), x, 1)
<1> DEFINE b == Reply(x)
           u == BufferAdd(t, b)
           K == Numbers(t.keys)
<1>1. b \in Byte /\ b.from = x /\ b.key = 0
  BY ReplyIs
<1> HIDE DEF b
<1>2. CASE Blocked(t, x)
  <2>1. u = t
    BY <1>1, <1>2 DEF BufferAdd, Blocked
  <2> QED
    BY <2>1, AnswersNot DEF b
<1>3. CASE ~Blocked(t, x)
  <2>1. t \in State /\ K \in SUBSET Nat /\ Takes(b, K, K)
    BY <1>1 DEF Good, Numbers, Takes
  <2>2. Grows(t, u, x, 1) /\ Leads(t, u, K, K)
    BY <1>1, <1>3, <2>1, BufferAddGrows, BufferAddLeads
  <2> HIDE DEF u
  <2>3. Answers(t, u, x, 1)
    BY <2>2, GrowsAnswers
  <2> QED
    BY <2>3 DEF u, b
<1> QED
  BY <1>2, <1>3

LEMMA RepliesAre ==
  ASSUME NEW x \in {"ctl", "kbd", "aux"}, NEW n \in Nat
  PROVE  Plain(Replies(x, n), x) /\ Len(Replies(x, n)) = n
<1>1. Reply(x) \in Byte /\ Reply(x).from = x /\ Reply(x).key = 0
  BY ReplyIs
<1>2. Replies(x, n) \in Seq(Byte) /\ Len(Replies(x, n)) = n /\ DOMAIN Replies(x, n) = 1..n
  BY <1>1 DEF Replies
<1>3. \A i \in 1..n : Replies(x, n)[i] = Reply(x)
  BY DEF Replies
<1> QED
  BY <1>1, <1>2, <1>3 DEF Plain

(* A poll: the acknowledgement and a frame.                                *)
LEMMA PollIs ==
  /\ Plain(Replies("aux", 1) \o MouseFrame, "aux")
  /\ Len(Replies("aux", 1) \o MouseFrame) = 1 + FrameLength
<1> DEFINE p == Replies("aux", 1)
           q == MouseFrame
           r == p \o q
<1>1. Plain(p, "aux") /\ Len(p) = 1 /\ Plain(q, "aux") /\ Len(q) = FrameLength
  BY RepliesAre, MouseFrameIs
<1>2. FrameLength \in Nat
  BY Sizes
<1> HIDE DEF p, q
<1>3. p \in Seq(Byte) /\ q \in Seq(Byte) /\ DOMAIN p = 1..1 /\ DOMAIN q = 1..FrameLength
  BY <1>1 DEF Plain
<1>4. /\ r \in Seq(Byte) /\ Len(r) = Len(p) + Len(q)
      /\ \A i \in 1..Len(p) + Len(q) : r[i] = IF i <= Len(p) THEN p[i] ELSE q[i - Len(p)]
  BY <1>3, ConcatProperties
<1>5. /\ r \in Seq(Byte) /\ Len(r) = 1 + FrameLength
      /\ \A i \in 1..1 + FrameLength : r[i] = IF i <= 1 THEN p[i] ELSE q[i - 1]
  BY <1>1, <1>2, <1>4
<1> HIDE DEF r
<1>6. ASSUME NEW i \in 1..1 + FrameLength PROVE r[i].from = "aux" /\ r[i].key = 0
  <2>1. CASE i = 1
    <3>1. r[i] = p[1] /\ 1 \in DOMAIN p
      BY <1>3, <1>5, <2>1
    <3> QED
      BY <1>1, <3>1 DEF Plain
  <2>2. CASE i # 1
    <3>1. ~(i <= 1) /\ i - 1 \in 1..FrameLength
      BY <1>2, <2>2
    <3>2. r[i] = q[i - 1] /\ i - 1 \in DOMAIN q
      BY <1>3, <1>5, <3>1
    <3> QED
      BY <1>1, <3>2 DEF Plain
  <2> QED
    BY <2>1, <2>2
<1>7. DOMAIN r = 1..1 + FrameLength
  BY <1>5
<1> QED
  BY <1>5, <1>6, <1>7 DEF Plain, r, p, q

LEMMA AnswersWithin ==
  ASSUME NEW t, NEW u, Good(t), Clear(t), NEW x, NEW n \in Nat, Answers(t, u, x, n),
         n <= MaxReplies \/ (x = "aux" /\ t.waiting["aux"] = 0 /\ n <= 1 + FrameLength)
  PROVE  Within(u)
<1>1. t \in State /\ u \in State
  BY DEF Good, Answers
<1>2. CASE u = t
  BY <1>1, <1>2, ClearIsWithin
<1>3. CASE Grows(t, u, x, n)
  <2> DEFINE wk == t.waiting["kbd"]
             wa == t.waiting["aux"]
             vk == u.waiting["kbd"]
             va == u.waiting["aux"]
             c == Bytes(t.buf, "ctl")
             e == Bytes(u.buf, "ctl")
  <2>1. wk \in Nat /\ wa \in Nat /\ vk \in Nat /\ va \in Nat /\ c \in Nat /\ e \in Nat
    BY <1>1, StateFacts DEF Devices
  <2>2. wk <= KeyMax /\ wa <= FrameLength /\ c = 0
    BY DEF Clear
  <2>3. /\ vk = wk + (IF "kbd" = x THEN n ELSE 0) /\ va = wa + (IF "aux" = x THEN n ELSE 0)
        /\ e <= c + (IF x = "ctl" THEN n ELSE 0)
    BY <1>3 DEF Grows, Devices
  <2>4. Within(u) <=> Beyond(vk, KeyMax) + (Beyond(va, FrameLength) + e) <= MaxReplies
    BY DEF Within
  <2>5. n <= MaxReplies \/ (x = "aux" /\ wa = 0 /\ n <= 1 + FrameLength)
    OBVIOUS
  <2> HIDE DEF wk, wa, vk, va, c, e
  <2>6. /\ Beyond(vk, KeyMax) \in Nat /\ Beyond(va, FrameLength) \in Nat
        /\ x # "kbd" => Beyond(vk, KeyMax) = 0
        /\ x # "aux" => Beyond(va, FrameLength) = 0
        /\ x # "ctl" => e = 0
    BY <2>1, <2>2, <2>3, Sizes DEF Beyond
  <2>7. CASE x = "kbd"
    BY <2>1, <2>2, <2>3, <2>4, <2>5, <2>6, <2>7, Sizes DEF Beyond
  <2>8. CASE x = "aux"
    BY <2>1, <2>2, <2>3, <2>4, <2>5, <2>6, <2>8, Sizes DEF Beyond
  <2>9. CASE x # "kbd" /\ x # "aux"
    <3>1. e <= MaxReplies
      BY <2>1, <2>2, <2>3, <2>5, <2>9, Sizes
    <3> QED
      BY <2>1, <2>4, <2>6, <2>9, <3>1, Sizes
  <2> QED
    BY <2>7, <2>8, <2>9
<1> QED
  BY <1>2, <1>3 DEF Answers

LEMMA AnswersSound ==
  ASSUME NEW g, NEW t, NEW u, Sound(g, t), NEW x, NEW n, Answers(t, u, x, n),
         g # "ram" /\ ~t.dump => Within(u)
  PROVE  Sound(g, u) /\ Between(t, u)
<1>1. Lined(u, Numbers(u.keys))
  BY DEF Sound, Answers, Leads
<1>2. Sound(g, u)
  BY <1>1 DEF Sound, Answers, SameRest
<1> QED
  BY <1>2 DEF Answers, SameRest, Between

(* The buffer is thrown away and the controller answers.                   *)
LEMMA AnswerSound ==
  ASSUME NEW g, NEW t, Sound(g, t), NEW n \in 0..MaxReplies
  PROVE  Sound(g, Answer(t, n)) /\ Between(t, Answer(t, n))
<1> DEFINE e == Emptied(t)
           q == Replies("ctl", n)
           u == BufferAddAll(e, q)
<1>1. Good(t) /\ Lined(t, Numbers(t.keys)) /\ (g = "gentle" => ~t.dump /\ ~t.disabled["kbd"])
  BY DEF Sound
<1>2. Answer(t, n) = u
  BY <1>1, FlushQuietly DEF Answer
<1>3. Sound(g, e) /\ Between(t, e) /\ Good(e) /\ Clear(e) /\ e.buf = <<>>
  BY <1>1, EmptiedSound, EmptiedIs
<1>4. Plain(q, "ctl") /\ Len(q) = n /\ n \in Nat /\ n <= MaxReplies
  BY RepliesAre, Sizes
<1> HIDE DEF e, q
<1>5. Len(e.buf) + Len(q) <= BufferSize
  BY <1>3, <1>4, Sizes
<1>6. Answers(e, u, "ctl", n)
  BY <1>3, <1>4, <1>5, AddAnswers
<1> HIDE DEF u
<1>7. Within(u)
  BY <1>3, <1>4, <1>6, AnswersWithin
<1>8. Sound(g, u) /\ Between(e, u)
  BY <1>3, <1>6, <1>7, AnswersSound
<1> QED
  BY <1>2, <1>3, <1>8, BetweenOn

(* The ports are enabled or disabled.                                      *)
Ported(t, x, z) == [t EXCEPT !.disabled = x, !.kbd_timer_expired = z]

LEMMA PortedSound ==
  ASSUME NEW g, NEW t, Sound(g, t), NEW x \in [Devices -> BOOLEAN], NEW z \in BOOLEAN,
         g = "gentle" => ~x["kbd"]
  PROVE  Sound(g, Ported(t, x, z)) /\ Between(t, Ported(t, x, z))
<1> DEFINE u == Ported(t, x, z)
<1>1. t \in State /\ InTurn(t.keys)
  BY DEF Sound, Good
<1>2. u \in State
  BY <1>1 DEF Ported, State
<1>3. SameBytes(t, u) /\ u.keys = t.keys /\ u.dump = t.dump /\ u.disabled = x
  BY <1>1 DEF Ported, State, SameBytes
<1>4. Between(t, u)
  BY <1>1 DEF Ported, State, Between
<1> HIDE DEF u
<1>5. Sound(g, u)
  BY <1>1, <1>2, <1>3, SoundSame
<1> QED
  BY <1>4, <1>5 DEF u

LEMMA PortedIs ==
  ASSUME NEW t \in State
  PROVE  /\ t.disabled \in [Devices -> BOOLEAN] /\ t.kbd_timer_expired \in BOOLEAN
         /\ DisableKbd(t) = Ported(t, [t.disabled EXCEPT !["kbd"] = TRUE], FALSE)
         /\ [t EXCEPT !.disabled["aux"] = TRUE] =
              Ported(t, [t.disabled EXCEPT !["aux"] = TRUE], t.kbd_timer_expired)
         /\ [t EXCEPT !.disabled["aux"] = FALSE] =
              Ported(t, [t.disabled EXCEPT !["aux"] = FALSE], t.kbd_timer_expired)
         /\ [t EXCEPT !.disabled["kbd"] = FALSE] =
              Ported(t, [t.disabled EXCEPT !["kbd"] = FALSE], t.kbd_timer_expired)
<1>1. t.disabled \in [Devices -> BOOLEAN] /\ t.kbd_timer_expired \in BOOLEAN
  BY DEF State
<1>2. DisableKbd(t) = Ported(t, [t.disabled EXCEPT !["kbd"] = TRUE], FALSE)
  BY DEF DisableKbd, RestartKbdTimer, Ported, State
<1>3. [t EXCEPT !.disabled["aux"] = TRUE] =
        Ported(t, [t.disabled EXCEPT !["aux"] = TRUE], t.kbd_timer_expired)
  BY DEF Ported, State
<1>4. [t EXCEPT !.disabled["aux"] = FALSE] =
        Ported(t, [t.disabled EXCEPT !["aux"] = FALSE], t.kbd_timer_expired)
  BY DEF Ported, State
<1>5. [t EXCEPT !.disabled["kbd"] = FALSE] =
        Ported(t, [t.disabled EXCEPT !["kbd"] = FALSE], t.kbd_timer_expired)
  BY DEF Ported, State
<1> QED
  BY <1>1, <1>2, <1>3, <1>4, <1>5

LEMMA DisableSound ==
  ASSUME NEW g, NEW t, Sound(g, t)
  PROVE  /\ g # "gentle" => Sound(g, DisableKbd(t)) /\ Between(t, DisableKbd(t))
         /\ Sound(g, [t EXCEPT !.disabled["aux"] = TRUE]) /\ Between(t, [t EXCEPT !.disabled["aux"] = TRUE])
         /\ Sound(g, [t EXCEPT !.disabled["aux"] = FALSE]) /\ Between(t, [t EXCEPT !.disabled["aux"] = FALSE])
         /\ Sound(g, [t EXCEPT !.disabled["kbd"] = FALSE]) /\ Between(t, [t EXCEPT !.disabled["kbd"] = FALSE])
<1>1. t \in State
  BY DEF Sound, Good
<1>2. t.disabled \in [Devices -> BOOLEAN] /\ t.kbd_timer_expired \in BOOLEAN
  BY <1>1, PortedIs
<1> DEFINE a == [t.disabled EXCEPT !["kbd"] = TRUE]
           b == [t.disabled EXCEPT !["aux"] = TRUE]
           c == [t.disabled EXCEPT !["aux"] = FALSE]
           d == [t.disabled EXCEPT !["kbd"] = FALSE]
           z == t.kbd_timer_expired
<1>3. /\ a \in [Devices -> BOOLEAN] /\ b \in [Devices -> BOOLEAN] /\ c \in [Devices -> BOOLEAN]
      /\ d \in [Devices -> BOOLEAN]
      /\ b["kbd"] = t.disabled["kbd"] /\ c["kbd"] = t.disabled["kbd"] /\ ~d["kbd"]
  BY <1>2 DEF Devices
<1>4. /\ DisableKbd(t) = Ported(t, a, FALSE)
      /\ [t EXCEPT !.disabled["aux"] = TRUE] = Ported(t, b, z)
      /\ [t EXCEPT !.disabled["aux"] = FALSE] = Ported(t, c, z)
      /\ [t EXCEPT !.disabled["kbd"] = FALSE] = Ported(t, d, z)
  BY <1>1, PortedIs
<1> HIDE DEF a, b, c, d, z
<1>5. z \in BOOLEAN /\ (g = "gentle" => ~t.disabled["kbd"])
  BY <1>2 DEF Sound, z
<1>6. g # "gentle" => Sound(g, Ported(t, a, FALSE)) /\ Between(t, Ported(t, a, FALSE))
  BY <1>3, PortedSound
<1>7. Sound(g, Ported(t, b, z)) /\ Between(t, Ported(t, b, z))
  BY <1>3, <1>5, PortedSound
<1>8. Sound(g, Ported(t, c, z)) /\ Between(t, Ported(t, c, z))
  BY <1>3, <1>5, PortedSound, SMTT(30)
<1>9. Sound(g, Ported(t, d, z)) /\ Between(t, Ported(t, d, z))
  BY <1>3, <1>5, PortedSound
<1> QED
  BY <1>4, <1>6, <1>7, <1>8, <1>9

-----------------------------------------------------------------------------
(* Commands of the controller.                                             *)

(* A field that no property is about changes.                              *)
LEMMA SoundAside ==
  ASSUME NEW g, NEW t, Sound(g, t), NEW u \in State, SameBytes(t, u), u.keys = t.keys,
         u.dump = t.dump, u.disabled = t.disabled
  PROVE  Sound(g, u)
<1>1. InTurn(t.keys) /\ (g = "gentle" => ~t.disabled["kbd"])
  BY DEF Sound, Good
<1> QED
  BY <1>1, SoundSame

LEMMA DumpSound ==
  ASSUME NEW g, NEW t, Sound(g, t), g # "gentle"
  PROVE  LET u == BufferAddAll([Flush(t, TRUE) EXCEPT !.dump = TRUE], Replies("ctl", DumpLength))
         IN  Sound(g, u) /\ Between(t, u)
<1> DEFINE e == Emptied(t)
           d == [e EXCEPT !.dump = TRUE]
           q == Replies("ctl", DumpLength)
           u == BufferAddAll(d, q)
<1>1. Good(t) /\ Lined(t, Numbers(t.keys))
  BY DEF Sound
<1>2. Flush(t, TRUE) = e
  BY <1>1, FlushQuietly
<1>3. Sound(g, e) /\ Between(t, e) /\ Good(e) /\ Exact(e) /\ e.buf = <<>> /\ e \in State
  BY <1>1, EmptiedSound, EmptiedIs DEF Clear, Good
<1>4. Plain(q, "ctl") /\ Len(q) = DumpLength
  BY RepliesAre, Sizes
<1> HIDE DEF e, q
<1>5. d \in State
  BY <1>3 DEF State
<1>6. SameBytes(e, d) /\ d.keys = e.keys /\ d.dump
  BY <1>3 DEF State, SameBytes
<1>7. Between(e, d)
  BY <1>3 DEF State, Between
<1> HIDE DEF d
<1>8. /\ Good(d) /\ Counts(e, d)
      /\ Leads(e, d, Numbers(e.keys), Numbers(d.keys))
  BY <1>3, <1>5, <1>6, SameBytesKeeps DEF Good
<1>9. Sound(g, d)
  BY <1>3, <1>6, <1>8 DEF Sound, Counts, Leads
<1>10. Len(d.buf) + Len(q) <= BufferSize
  <2>1. Len(d.buf) = 0
    BY <1>3, <1>6 DEF SameBytes
  <2> QED
    BY <1>4, <2>1, Sizes
<1>11. Answers(d, u, "ctl", Len(q))
  BY <1>4, <1>8, <1>10, AddAnswers
<1> HIDE DEF u
<1>12. Sound(g, u) /\ Between(d, u)
  BY <1>6, <1>9, <1>11, AnswersSound
<1>13. Between(t, u)
  BY <1>3, <1>7, <1>12, BetweenOn
<1> QED
  BY <1>2, <1>12, <1>13 DEF u, d, q

LEMMA ReadRamSound ==
  ASSUME NEW t, Sound("ram", t)
  PROVE  LET u == IF Len(t.buf) >= BufferSize THEN Flush(t, TRUE) ELSE BufferAdd(t, Reply("ctl"))
         IN  Sound("ram", u) /\ Between(t, u)
<1>1. Good(t) /\ Lined(t, Numbers(t.keys)) /\ Len(t.buf) \in Nat
  BY StateFacts DEF Sound, Good
<1>2. CASE Len(t.buf) >= BufferSize
  <2>1. Flush(t, TRUE) = Emptied(t)
    BY <1>1, FlushQuietly
  <2>2. Sound("ram", Emptied(t)) /\ Between(t, Emptied(t))
    <3> DEFINE g == "ram"
    <3>1. g # "gentle"
      OBVIOUS
    <3> HIDE DEF g
    <3>2. Sound(g, Emptied(t)) /\ Between(t, Emptied(t))
      BY <1>1, <3>1, EmptiedSound
    <3> QED
      BY <3>2 DEF g
  <2> QED
    BY <1>2, <2>1, <2>2
<1>3. CASE ~(Len(t.buf) >= BufferSize)
  <2> DEFINE u == BufferAdd(t, Reply("ctl"))
  <2>1. Len(t.buf) + 1 <= BufferSize
    BY <1>1, <1>3, Sizes
  <2>2. Answers(t, u, "ctl", 1)
    BY <1>1, <2>1, OneAnswers
  <2> HIDE DEF u
  <2>3. Sound("ram", u) /\ Between(t, u)
    BY <2>2, AnswersSound
  <2> QED
    BY <1>3, <2>3 DEF u
<1> QED
  BY <1>2, <1>3

LEMMA ExecuteSound ==
  ASSUME NEW g, NEW t, Sound(g, t), NEW c \in Commands, c = "ReadRam" => g = "ram",
         g = "gentle" => c \notin DisablingKbd /\ c # "DiagnosticDump"
  PROVE  Sound(g, execute_command(t, c)) /\ Between(t, execute_command(t, c))
<1> DEFINE u == execute_command(t, c)
<1>1. t \in State
  BY DEF Sound, Good
<1> 1 \in 0..MaxReplies /\ MaxReplies \in 0..MaxReplies
  BY Sizes
<1>2. CASE c \in WithParameter
  <2> DEFINE v == [t EXCEPT !.command = c]
  <2>1. u = v
    BY <1>2 DEF execute_command, WithParameter
  <2>2. v \in State
    BY <1>1, <1>2 DEF State
  <2>3. SameBytes(t, v) /\ v.keys = t.keys /\ v.dump = t.dump /\ v.disabled = t.disabled
    BY <1>1 DEF State, SameBytes
  <2>4. Between(t, v)
    BY <1>1 DEF State, Between
  <2> HIDE DEF v
  <2> QED
    BY <2>1, <2>2, <2>3, <2>4, SoundAside
<1>3. CASE c = "Read"
  <2>1. u = Answer(t, 1)
    BY <1>3 DEF execute_command, WithParameter
  <2> QED
    BY <2>1, AnswerSound
<1>4. CASE c = "ReadRam"
  <2>1. u = IF Len(t.buf) >= BufferSize THEN Flush(t, TRUE) ELSE BufferAdd(t, Reply("ctl"))
    BY <1>4 DEF execute_command, WithParameter
  <2>2. g = "ram"
    BY <1>4
  <2> QED
    BY <2>1, <2>2, ReadRamSound
<1>5. CASE c = "DisablePortAux"
  <2> DEFINE v == [t EXCEPT !.disabled["aux"] = TRUE]
  <2>1. u = v
    BY <1>5 DEF execute_command, WithParameter
  <2>2. Sound(g, v) /\ Between(t, v)
    BY DisableSound
  <2> HIDE DEF v
  <2> QED
    BY <2>1, <2>2
<1>6. CASE c = "EnablePortAux"
  <2> DEFINE v == [t EXCEPT !.disabled["aux"] = FALSE]
  <2>1. u = v
    BY <1>6 DEF execute_command, WithParameter
  <2>2. Sound(g, v) /\ Between(t, v)
    BY DisableSound
  <2> HIDE DEF v
  <2> QED
    BY <2>1, <2>2
<1> DEFINE a == [t EXCEPT !.disabled["aux"] = TRUE]
<1>7. Sound(g, a) /\ Between(t, a)
  BY DisableSound
<1> HIDE DEF a
<1>8. CASE c = "TestPortAux"
  <2>1. u = Answer(a, 1)
    BY <1>8 DEF execute_command, WithParameter, a
  <2>2. Sound(g, Answer(a, 1)) /\ Between(a, Answer(a, 1))
    BY <1>7, AnswerSound
  <2> QED
    BY <1>7, <2>1, <2>2, BetweenOn
<1>9. CASE c = "TestController"
  <2> DEFINE k == DisableKbd(a)
  <2>1. u = Answer(k, 1)
    BY <1>9 DEF execute_command, WithParameter, a
  <2>2. g # "gentle"
    BY <1>9 DEF DisablingKbd
  <2>3. Sound(g, k) /\ Between(a, k)
    BY <1>7, <2>2, DisableSound
  <2> HIDE DEF k
  <2>4. Sound(g, Answer(k, 1)) /\ Between(k, Answer(k, 1))
    BY <2>3, AnswerSound
  <2>5. Between(t, k)
    BY <1>7, <2>3, BetweenOn
  <2> QED
    BY <2>1, <2>4, <2>5, BetweenOn
<1>10. CASE c = "TestPortKbd"
  <2> DEFINE k == DisableKbd(t)
  <2>1. u = Answer(k, 1)
    BY <1>10 DEF execute_command, WithParameter
  <2>2. g # "gentle"
    BY <1>10 DEF DisablingKbd
  <2>3. Sound(g, k) /\ Between(t, k)
    BY <2>2, DisableSound
  <2> HIDE DEF k
  <2>4. Sound(g, Answer(k, 1)) /\ Between(k, Answer(k, 1))
    BY <2>3, AnswerSound
  <2> QED
    BY <2>1, <2>3, <2>4, BetweenOn
<1>11. CASE c = "DiagnosticDump"
  <2>1. u = BufferAddAll([Flush(t, TRUE) EXCEPT !.dump = TRUE], Replies("ctl", DumpLength))
    BY <1>11 DEF execute_command, WithParameter
  <2>2. g # "gentle"
    BY <1>11
  <2> QED
    BY <2>1, <2>2, DumpSound
<1>12. CASE c = "DisablePortKbd"
  <2>1. u = DisableKbd(t)
    BY <1>12 DEF execute_command, WithParameter
  <2>2. g # "gentle"
    BY <1>12 DEF DisablingKbd
  <2> QED
    BY <2>1, <2>2, DisableSound
<1>13. CASE c = "EnablePortKbd"
  <2> DEFINE v == [t EXCEPT !.disabled["kbd"] = FALSE]
  <2>1. u = v
    BY <1>13 DEF execute_command, WithParameter
  <2>2. Sound(g, v) /\ Between(t, v)
    BY DisableSound
  <2> HIDE DEF v
  <2> QED
    BY <2>1, <2>2
<1>14. CASE c = "ReadFwCopyright"
  <2>1. u = Answer(t, MaxReplies)
    BY <1>14 DEF execute_command, WithParameter
  <2> QED
    BY <2>1, AnswerSound
<1> QED
  BY <1>2, <1>3, <1>4, <1>5, <1>6, <1>8, <1>9, <1>10, <1>11, <1>12, <1>13, <1>14
     DEF Commands, DisablingKbd

(* What a write to a port notes first.                                     *)
Noted(t, z, w) == [t EXCEPT !.command = "none", !.kbd_timer_expired = z, !.writes = w]

LEMMA NotedIs ==
  ASSUME NEW t \in State, NEW z \in BOOLEAN, NEW w \in Nat
  PROVE  /\ Noted(t, z, w) \in State /\ Quieter(t, Noted(t, z, w)) /\ Between(t, Noted(t, z, w))
         /\ Noted(t, z, w).disabled = t.disabled
<1>1. Noted(t, z, w) \in State
  BY DEF Noted, State
<1>2. Between(t, Noted(t, z, w)) /\ Noted(t, z, w).disabled = t.disabled
  BY DEF Noted, State, Between
<1>3. Quieter(t, Noted(t, z, w))
  BY DEF Noted, State, Quieter, SameBytes
<1> QED
  BY <1>1, <1>2, <1>3

LEMMA CommandHolds ==
  ASSUME Inv, NEW c \in Commands, write_command_port(c)
  PROVE  Inv'
<1> DEFINE g == guest
           r == Reenable(s)
           d == IF r.dump THEN Flush(Undumped(r), TRUE) ELSE r
           z == d.kbd_timer_expired /\ ~d.disabled["kbd"]
           w == IF c = "ReadRam" THEN d.writes ELSE d.writes + 1
           e == Noted(d, z, w)
           x == execute_command(e, c)
<1>1. /\ guest' = guest /\ c \notin Forbidden
      /\ s' = NotifyReady(x, ~IsReady(r, "aux"), ~IsReady(r, "kbd"))
  BY DEF write_command_port, Undumped, Noted
<1>2. g \in {"gentle", "disabling", "ram"} /\ Holds(g, s) /\ s \in State
  BY DEF Inv, Holds, Sound, Good
<1>3. c = "ReadRam" => g = "ram"
  BY <1>1, <1>2 DEF Forbidden
<1>4. g = "gentle" => c \notin DisablingKbd /\ c # "DiagnosticDump"
  BY <1>1 DEF Forbidden
<1> HIDE DEF g
<1>5. Holds(g, r) /\ r \in State
  BY <1>2, ReenableIs, QuieterHolds
<1> HIDE DEF r
<1>6. /\ Good(r) /\ Sound(g, r) /\ Lined(r, Numbers(r.keys)) /\ MouseServed(r)
      /\ g = "gentle" => ~r.dump /\ ~r.disabled["kbd"] /\ KbdServed(r)
  BY <1>5 DEF Holds, Sound
<1>7. Sound(g, d) /\ Between(r, d)
  <2>1. CASE ~r.dump
    BY <1>6, <2>1 DEF Between
  <2>2. CASE r.dump
    <3> DEFINE v == Undumped(r)
    <3>1. v \in State
      BY <1>5 DEF Undumped, State
    <3>2. SameBytes(r, v) /\ v.keys = r.keys /\ ~v.dump /\ v.disabled = r.disabled /\ Between(r, v)
      BY <1>5 DEF Undumped, State, SameBytes, Between
    <3>3. d = Flush(v, TRUE)
      BY <2>2
    <3> HIDE DEF v
    <3>4. Good(v) /\ Leads(r, v, Numbers(r.keys), Numbers(v.keys))
      BY <1>6, <3>1, <3>2, SameBytesKeeps DEF Good
    <3>5. Lined(v, Numbers(v.keys))
      BY <1>6, <3>4 DEF Leads
    <3>6. d = Emptied(v)
      BY <3>3, <3>4, FlushQuietly
    <3>7. Sound(g, Emptied(v)) /\ Between(v, Emptied(v))
      BY <1>6, <2>2, <3>2, <3>4, <3>5, EmptiedSound
    <3> QED
      BY <3>2, <3>6, <3>7, BetweenOn
  <2> QED
    BY <2>1, <2>2
<1> HIDE DEF d
<1>8. d \in State /\ z \in BOOLEAN /\ w \in Nat
  <2>1. d \in State
    BY <1>7 DEF Sound, Good
  <2>2. d.writes \in Nat /\ d.kbd_timer_expired \in BOOLEAN /\ d.disabled \in [Devices -> BOOLEAN]
    BY <2>1 DEF State
  <2> QED
    BY <2>1, <2>2 DEF Devices
<1> HIDE DEF z, w
<1>9. e \in State /\ Quieter(d, e) /\ Between(d, e) /\ e.disabled = d.disabled
  BY <1>8, NotedIs
<1> HIDE DEF e
<1>10. Sound(g, e)
  BY <1>7, <1>9, SoundAside DEF Quieter
<1>11. Sound(g, x) /\ Between(e, x)
  BY <1>3, <1>4, <1>10, ExecuteSound
<1> HIDE DEF x
<1>12. Between(r, x)
  <2>1. Between(r, e)
    BY <1>7, <1>9, BetweenOn
  <2> QED
    BY <1>11, <2>1, BetweenOn
<1>13. Holds(g, s')
  BY <1>1, <1>6, <1>11, <1>12, NotifyAfter
<1> QED
  BY <1>1, <1>2, <1>13 DEF Inv, g

-----------------------------------------------------------------------------
(* Parameters and bytes for the keyboard.                                  *)

LEMMA RepliedSound ==
  ASSUME NEW g, NEW t, Sound(g, t), Clear(t), t.buf = <<>>, t.waiting["aux"] = 0,
         NEW v \in State, SameBytes(t, v), v.keys = t.keys, v.dump = t.dump, v.disabled = t.disabled,
         Between(t, v), NEW x, NEW q, Plain(q, x),
         Len(q) <= MaxReplies \/ (x = "aux" /\ Len(q) <= 1 + FrameLength)
  PROVE  Sound(g, BufferAddAll(v, q)) /\ Between(t, BufferAddAll(v, q))
<1> DEFINE u == BufferAddAll(v, q)
           n == Len(q)
<1>1. Good(t) /\ InTurn(t.keys)
  BY DEF Sound, Good
<1>2. Sound(g, v)
  BY SoundAside
<1>3. Good(v) /\ Clear(v) /\ v.waiting["aux"] = 0 /\ v.buf = <<>>
  BY <1>1, SameBytesKeeps DEF Counts, SameBytes
<1>4. n \in Nat /\ Len(v.buf) + n <= BufferSize
  <2>1. n \in Nat /\ Len(v.buf) = 0
    BY <1>3 DEF Plain
  <2>2. n <= MaxReplies \/ n <= 1 + FrameLength
    OBVIOUS
  <2> HIDE DEF n
  <2> QED
    BY <2>1, <2>2, Sizes
<1>5. Answers(v, u, x, n)
  BY <1>3, <1>4, AddAnswers
<1> HIDE DEF u
<1>6. Within(u)
  BY <1>3, <1>4, <1>5, AnswersWithin
<1>7. Sound(g, u) /\ Between(v, u)
  BY <1>2, <1>5, <1>6, AnswersSound
<1> QED
  BY <1>7, BetweenOn DEF u

LEMMA MousePortSound ==
  ASSUME NEW g, NEW t, Sound(g, t), Clear(t), t.buf = <<>>, t.waiting["aux"] = 0,
         NEW x \in MousePortWrite(t)
  PROVE  Sound(g, x) /\ Between(t, x)
<1>1. t \in State
  BY DEF Sound, Good
<1>2. CASE \E r \in BOOLEAN, n \in 1..MaxReplies : x = MouseReplies(t, r, n)
  <2>1. PICK r \in BOOLEAN, n \in 1..MaxReplies : x = MouseReplies(t, r, n)
    BY <1>2
  <2> DEFINE v == [t EXCEPT !.delay_expired = FALSE, !.reporting = r]
             q == Replies("aux", n)
  <2>2. v \in State
    BY <1>1 DEF State
  <2>3. SameBytes(t, v) /\ v.keys = t.keys /\ v.dump = t.dump /\ v.disabled = t.disabled
    BY <1>1 DEF State, SameBytes
  <2>4. Between(t, v)
    BY <1>1 DEF State, Between
  <2>5. n \in Nat /\ n <= MaxReplies
    BY Sizes
  <2>6. Plain(q, "aux") /\ Len(q) <= MaxReplies
    BY <2>5, RepliesAre
  <2>7. x = BufferAddAll(v, q)
    BY <2>1 DEF MouseReplies
  <2> HIDE DEF v, q
  <2> QED
    BY <2>2, <2>3, <2>4, <2>6, <2>7, RepliedSound
<1>3. CASE x = MousePoll(t)
  <2> DEFINE v == [t EXCEPT !.delay_expired = FALSE, !.has_data = FALSE]
             q == Replies("aux", 1) \o MouseFrame
  <2>1. v \in State
    BY <1>1 DEF State
  <2>2. SameBytes(t, v) /\ v.keys = t.keys /\ v.dump = t.dump /\ v.disabled = t.disabled
    BY <1>1 DEF State, SameBytes
  <2>3. Between(t, v)
    BY <1>1 DEF State, Between
  <2>4. Plain(q, "aux") /\ Len(q) = 1 + FrameLength
    BY PollIs
  <2>5. x = BufferAddAll(v, q)
    BY <1>3 DEF MousePoll
  <2> HIDE DEF v, q
  <2>6. Len(q) <= 1 + FrameLength
    BY <2>4, Sizes
  <2> QED
    BY <2>1, <2>2, <2>3, <2>4, <2>5, <2>6, RepliedSound
<1> QED
  BY <1>2, <1>3 DEF MousePortWrite

LEMMA ParameterSound ==
  ASSUME guest \in {"gentle", "disabling", "ram"}, NEW t, Sound(guest, t), Clear(t), t.buf = <<>>,
         t.waiting["aux"] = 0, NEW c \in WithParameter, NEW x \in ExecuteWith(t, c)
  PROVE  Sound(guest, x) /\ Between(t, x)
<1>1. t \in State /\ Good(t)
  BY DEF Sound, Good
<1>2. Len(t.buf) + 1 <= BufferSize
  BY Sizes
<1>3. CASE c = "WriteByteConfig"
  <2>1. PICK k \in KbdPorts, a \in BOOLEAN : x = SetPorts(t, k, a)
    BY <1>3 DEF ExecuteWith
  <2> DEFINE y == [[t.disabled EXCEPT !["kbd"] = k] EXCEPT !["aux"] = a]
             z == t.kbd_timer_expired
  <2>2. t.disabled \in [Devices -> BOOLEAN] /\ z \in BOOLEAN
    BY <1>1, PortedIs
  <2>3. k \in BOOLEAN /\ (guest = "gentle" => ~k)
    BY DEF KbdPorts
  <2>4. y \in [Devices -> BOOLEAN] /\ y["kbd"] = k
    BY <2>2, <2>3 DEF Devices
  <2>5. x = Ported(t, y, z)
    BY <1>1, <2>1 DEF Ported, SetPorts, State
  <2> HIDE DEF y, z
  <2> QED
    BY <2>2, <2>3, <2>4, <2>5, PortedSound
<1>4. ASSUME NEW d \in Devices, x = BufferAdd(t, Reply(d)) PROVE Sound(guest, x) /\ Between(t, x)
  <2>1. d \in {"ctl", "kbd", "aux"}
    BY DEF Devices
  <2>2. Answers(t, x, d, 1)
    BY <1>1, <1>2, <1>4, <2>1, OneAnswers
  <2>3. 1 <= MaxReplies
    BY Sizes
  <2>4. Within(x)
    BY <1>1, <2>2, <2>3, AnswersWithin
  <2> QED
    BY <2>2, <2>4, AnswersSound
<1>5. CASE c = "SimulateInputKbd"
  <2>1. x = BufferAdd(t, Reply("kbd")) /\ "kbd" \in Devices
    BY <1>5 DEF ExecuteWith, Devices
  <2> QED
    BY <1>4, <2>1
<1>6. CASE c = "SimulateInputAux"
  <2>1. x = BufferAdd(t, Reply("aux")) /\ "aux" \in Devices
    BY <1>6 DEF ExecuteWith, Devices
  <2> QED
    BY <1>4, <2>1
<1>7. CASE c = "WriteAux"
  <2>1. x \in MousePortWrite(t)
    BY <1>7 DEF ExecuteWith
  <2> QED
    BY <2>1, MousePortSound
<1>8. CASE c = "Write"
  <2>1. x = t
    BY <1>8 DEF ExecuteWith
  <2> QED
    BY <2>1 DEF Between
<1> QED
  BY <1>3, <1>5, <1>6, <1>7, <1>8 DEF WithParameter

LEMMA WriteParameterHolds ==
  ASSUME Inv, WriteParameter
  PROVE  Inv'
<1> DEFINE z == s.kbd_timer_expired /\ ~s.disabled["kbd"]
           w == s.writes + 1
           e == Noted(s, z, w)
           r == Reenable(e)
           f == Flush(r, TRUE)
<1>1. guest' = guest /\ s.command # "none"
  BY DEF WriteParameter
<1>2. PICK x \in ExecuteWith(f, s.command) : s' = NotifyReady(x, ~IsReady(r, "aux"), ~IsReady(r, "kbd"))
  BY DEF WriteParameter, Noted
<1>3. guest \in {"gentle", "disabling", "ram"} /\ Holds(guest, s) /\ s \in State
  BY DEF Inv, Holds, Sound, Good
<1>4. s.command \in WithParameter /\ z \in BOOLEAN /\ w \in Nat
  <2>1. /\ s.command \in WithParameter \cup {"none"} /\ s.kbd_timer_expired \in BOOLEAN
        /\ s.disabled \in [Devices -> BOOLEAN] /\ s.writes \in Nat
    BY <1>3 DEF State
  <2> QED
    BY <1>1, <2>1 DEF Devices
<1> HIDE DEF z, w
<1>5. e \in State /\ Quieter(s, e)
  BY <1>3, <1>4, NotedIs
<1> HIDE DEF e
<1>6. Holds(guest, e)
  BY <1>3, <1>5, QuieterHolds
<1>7. Holds(guest, r)
  BY <1>5, <1>6, ReenableIs, QuieterHolds
<1> HIDE DEF r
<1>8. /\ Good(r) /\ Lined(r, Numbers(r.keys)) /\ MouseServed(r)
      /\ guest = "gentle" => ~r.dump /\ ~r.disabled["kbd"] /\ KbdServed(r)
  BY <1>7 DEF Holds, Sound
<1>9. f = Emptied(r)
  BY <1>8, FlushQuietly
<1>10. Sound(guest, f) /\ Between(r, f)
  BY <1>8, <1>9, EmptiedSound
<1>11. Clear(f) /\ f.buf = <<>> /\ f.waiting["aux"] = 0
  BY <1>8, <1>9, EmptiedIs DEF Devices
<1> HIDE DEF f
<1>12. Sound(guest, x) /\ Between(f, x)
  BY <1>3, <1>4, <1>10, <1>11, ParameterSound
<1>13. Between(r, x)
  BY <1>10, <1>12, BetweenOn
<1>14. Holds(guest, s')
  BY <1>2, <1>8, <1>12, <1>13, NotifyAfter
<1> QED
  BY <1>1, <1>3, <1>14 DEF Inv

(* The keyboard port is enabled and its replies are on their way.          *)
LEMMA WriteToKeyboardHolds ==
  ASSUME Inv, WriteToKeyboard
  PROVE  Inv'
<1> DEFINE t == [s EXCEPT !.disabled["kbd"] = FALSE, !.writes = @ + 1]
           f == Flush(t, FALSE)
           v == [f EXCEPT !.delay_expired = FALSE]
<1>1. guest' = guest
  BY DEF WriteToKeyboard
<1>2. PICK n \in 0..MaxReplies :
        \/ s' = BufferAddAll(v, Replies("kbd", n))
        \/ \E scan \in BOOLEAN : s' = ClearKeys([BufferAddAll(v, Replies("kbd", n)) EXCEPT !.is_scanning = scan])
  BY DEF WriteToKeyboard
<1>3. /\ guest \in {"gentle", "disabling", "ram"} /\ Holds(guest, s) /\ Sound(guest, s) /\ s \in State
      /\ InTurn(s.keys)
  BY DEF Inv, Holds, Sound, Good
<1>4. /\ t \in State /\ SameBytes(s, t) /\ t.keys = s.keys /\ t.dump = s.dump /\ ~t.disabled["kbd"]
      /\ t.disabled["aux"] = s.disabled["aux"] /\ t.overflowed = s.overflowed
      /\ t.has_data = s.has_data /\ t.mouse_delay_expired = s.mouse_delay_expired
  <2> DEFINE x == [s.disabled EXCEPT !["kbd"] = FALSE]
             w == s.writes + 1
             y == [s EXCEPT !.disabled = x, !.writes = w]
  <2>1. s.disabled \in [Devices -> BOOLEAN] /\ s.writes \in Nat
    BY <1>3, StateFacts
  <2>2. x \in [Devices -> BOOLEAN] /\ ~x["kbd"] /\ x["aux"] = s.disabled["aux"] /\ w \in Nat
    BY <2>1 DEF Devices
  <2>3. t = y
    BY <1>3 DEF State
  <2> HIDE DEF x, w, t
  <2>4. y \in State
    BY <1>3, <2>2 DEF State
  <2>5. SameBytes(s, y) /\ y.keys = s.keys /\ y.dump = s.dump /\ y.disabled = x
    BY <1>3 DEF State, SameBytes
  <2>6. /\ y.overflowed = s.overflowed
        /\ y.has_data = s.has_data /\ y.mouse_delay_expired = s.mouse_delay_expired
    BY <1>3 DEF State
  <2> QED
    BY <2>2, <2>3, <2>4, <2>5, <2>6
<1> HIDE DEF t
<1>5. Holds(guest, t)
  <2>1. Sound(guest, t)
    BY <1>3, <1>4, SoundSame
  <2>2. MouseServed(t)
    BY <1>3, <1>4 DEF Holds, MouseServed, IsReady, SameBytes
  <2>3. guest = "gentle" => KbdServed(t)
    BY <1>3, <1>4 DEF Holds, Sound, KbdServed, IsReady, SameBytes
  <2> QED
    BY <2>1, <2>2, <2>3 DEF Holds
<1>6. Soft(t, f) /\ Clear(f)
  BY <1>5, FlushIs DEF Holds, Sound
<1> HIDE DEF f
<1>7. Holds(guest, f) /\ f \in State /\ Good(f)
  BY <1>5, <1>6, SoftHolds DEF Holds, Sound, Good
<1>8. v \in State
  BY <1>7 DEF State
<1>9. Quieter(f, v)
  BY <1>7 DEF State, Quieter, SameBytes
<1> HIDE DEF v
<1>10. Holds(guest, v) /\ Sound(guest, v) /\ Good(v)
  BY <1>7, <1>8, <1>9, QuieterHolds DEF Holds, Sound
<1>11. Clear(v)
  BY <1>6, <1>7, <1>8, <1>9, QuieterRel DEF Rel, Soft, Counts
<1> DEFINE q == Replies("kbd", n)
           h == BufferAddAll(v, q)
<1>12. n \in Nat /\ n <= MaxReplies /\ Plain(q, "kbd") /\ Len(q) = n
  BY Sizes, RepliesAre
<1> HIDE DEF q
<1>13. Len(v.buf) + Len(q) <= BufferSize
  <2> DEFINE l == Len(v.buf)
  <2>1. l \in Nat /\ l + MaxReplies <= BufferSize
    BY <1>8, <1>11, StateFacts, ClearIsWithin
  <2> HIDE DEF l
  <2>2. l + n <= BufferSize
    BY <1>12, <2>1, Sizes
  <2> QED
    BY <1>12, <2>2 DEF l
<1>14. Answers(v, h, "kbd", n)
  BY <1>10, <1>12, <1>13, AddAnswers
<1> HIDE DEF h
<1>15. Within(h)
  BY <1>10, <1>11, <1>12, <1>14, AnswersWithin
<1>16. Holds(guest, h)
  <2>1. Sound(guest, h)
    BY <1>10, <1>14, <1>15, AnswersSound
  <2>2. SameRest(v, h) /\ (IsReady(h, "aux") => IsReady(v, "aux")) /\ (IsReady(h, "kbd") => IsReady(v, "kbd"))
    BY <1>14 DEF Answers, Devices
  <2>3. MouseServed(h) /\ (guest = "gentle" => KbdServed(h))
    BY <1>10, <2>2 DEF Holds, MouseServed, KbdServed, SameRest
  <2> QED
    BY <2>1, <2>3 DEF Holds
<1>17. ASSUME NEW scan \in BOOLEAN PROVE Holds(guest, ClearKeys([h EXCEPT !.is_scanning = scan]))
  <2> DEFINE y == [h EXCEPT !.is_scanning = scan]
  <2>1. h \in State
    BY <1>16 DEF Holds, Sound, Good
  <2>2. y \in State
    BY <2>1 DEF State
  <2>3. Quieter(h, y)
    BY <2>1 DEF State, Quieter, SameBytes
  <2> HIDE DEF y
  <2>4. Holds(guest, y)
    BY <1>16, <2>2, <2>3, QuieterHolds
  <2>5. Soft(y, ClearKeys(y))
    BY <2>4, ClearKeysSoft DEF Holds, Sound
  <2>6. Holds(guest, ClearKeys(y))
    BY <2>4, <2>5, SoftHolds
  <2> QED
    BY <2>6 DEF y
<1>18. Holds(guest, s')
  <2>1. \/ s' = h
        \/ \E scan \in BOOLEAN : s' = ClearKeys([h EXCEPT !.is_scanning = scan])
    BY <1>2 DEF h, q
  <2> QED
    BY <1>16, <1>17, <2>1
<1> QED
  BY <1>1, <1>3, <1>18 DEF Inv

-----------------------------------------------------------------------------
LEMMA InitHolds ==
  ASSUME Init
  PROVE  Inv
<1>1. Reply("ctl") \in Byte /\ Reply("ctl").from = "ctl"
  BY DEF Reply, Byte
<1>2. <<>> \in Seq(Byte) /\ <<>> \in Seq(Code) /\ 0 \in Nat
  OBVIOUS
<1>3. [d \in Devices |-> 0] \in [Devices -> Nat] /\ [d \in Devices |-> FALSE] \in [Devices -> BOOLEAN]
  OBVIOUS
<1>4. s \in State
  BY <1>1, <1>2, <1>3 DEF Init, State
<1>5. /\ s.buf = <<>> /\ ~s.is_data_new /\ s.out = Reply("ctl") /\ s.keys = <<>>
      /\ s.waiting = [d \in Devices |-> 0] /\ s.disabled = [d \in Devices |-> FALSE]
      /\ ~s.dump /\ ~s.overflowed /\ ~s.has_data /\ s.nextKey = 0 /\ s.lastRead = 0
      /\ s.data_byte = 0
  BY DEF Init
<1>6. \A d \in Devices : s.waiting[d] = 0 /\ Bytes(s.buf, d) = 0 /\ IsOut(s, d) = 0
  BY <1>5, BytesEmpty DEF IsOut
<1>7. Bytes(s.buf, "ctl") = 0 /\ Len(s.buf) = 0 /\ ~s.disabled["kbd"]
  BY <1>5, BytesEmpty DEF Devices
<1>8. Exact(s) /\ Counted(s) /\ Covered(s)
  BY <1>6 DEF Exact, Counted, Covered
<1>9. Clear(s)
  BY <1>6, <1>7, <1>8, Sizes DEF Clear, Devices
<1>10. Within(s)
  BY <1>4, <1>9, ClearIsWithin
<1>11. Good(s)
  BY <1>1, <1>4, <1>5, <1>7, <1>8, NoKeys, Sizes DEF Good, IdleIsCtl
<1>12. Lined(s, Numbers(s.keys))
  BY <1>5, NoKeys DEF Lined, Line
<1>13. MouseServed(s) /\ KbdServed(s)
  BY <1>5 DEF MouseServed, KbdServed
<1>14. guest \in {"gentle", "disabling", "ram"}
  BY DEF Init
<1> QED
  BY <1>5, <1>7, <1>8, <1>10, <1>11, <1>12, <1>13, <1>14 DEF Inv, Holds, Sound

LEMMA NextHolds ==
  ASSUME Inv, [Next]_vars
  PROVE  Inv'
<1>1. CASE UNCHANGED vars
  BY <1>1 DEF vars, Inv
<1>2. CASE read_data_port
  BY <1>2, ReadHolds
<1>3. CASE WriteParameter
  BY <1>3, WriteParameterHolds
<1>4. CASE WriteToKeyboard
  BY <1>4, WriteToKeyboardHolds
<1>5. CASE \E c \in Commands : write_command_port(c)
  BY <1>5, CommandHolds
<1>6. CASE KEYBOARD_AddKey
  BY <1>6, AddKeyHolds
<1>7. CASE TypematicTick
  BY <1>7, TypematicHolds
<1>8. CASE KEYBOARD_ClrBuffer
  BY <1>8, ClrBufferHolds
<1>9. CASE MouseEvent
  BY <1>9, MouseEventHolds
<1>10. CASE DelayHandler
  BY <1>10, DelayHandlerHolds
<1>11. CASE KbdDisabledTimer
  BY <1>11, KbdDisabledTimerHolds
<1>12. CASE MouseDelayHandler
  BY <1>12, MouseDelayHandlerHolds
<1>13. CASE ReadAgain
  BY <1>13, ReadAgainHolds
<1> QED
  BY <1>1, <1>2, <1>3, <1>4, <1>5, <1>6, <1>7, <1>8, <1>9, <1>10, <1>11, <1>12, <1>13 DEF Next

(* The controller, the keyboard and the mouse, with any guest, stay in the *)
(* states that their handlers count on.                                    *)
THEOREM Invariance == Spec => []Inv
  BY InitHolds, NextHolds, PTL DEF Spec

-----------------------------------------------------------------------------
(* The bytes on their way, with the output byte in front.                  *)

LEMMA OnTheWayIs ==
  ASSUME NEW t \in State
  PROVE  /\ ~t.is_data_new => OnTheWay(t) = t.buf
         /\ t.is_data_new =>
              /\ OnTheWay(t) \in Seq(Byte) /\ Len(OnTheWay(t)) = 1 + Len(t.buf)
              /\ OnTheWay(t)[1] = t.out
              /\ \A i \in 1..Len(t.buf) : OnTheWay(t)[i + 1] = t.buf[i]
<1>1. t.buf \in Seq(Byte) /\ t.out \in Byte /\ Len(t.buf) \in Nat /\ <<>> \in Seq(Byte)
  BY StateFacts
<1>2. ~t.is_data_new => OnTheWay(t) = t.buf
  BY <1>1, ConcatEmptySeq DEF OnTheWay
<1>3. ASSUME t.is_data_new
      PROVE  /\ OnTheWay(t) \in Seq(Byte) /\ Len(OnTheWay(t)) = 1 + Len(t.buf)
             /\ OnTheWay(t)[1] = t.out
             /\ \A i \in 1..Len(t.buf) : OnTheWay(t)[i + 1] = t.buf[i]
  <2> DEFINE p == <<t.out>>
             q == t.buf
             r == p \o q
  <2>1. OnTheWay(t) = r
    BY <1>3 DEF OnTheWay
  <2>2. p \in Seq(Byte) /\ Len(p) = 1 /\ p[1] = t.out /\ q \in Seq(Byte) /\ Len(q) \in Nat
    BY <1>1
  <2> HIDE DEF p, q
  <2>3. /\ r \in Seq(Byte) /\ Len(r) = Len(p) + Len(q)
        /\ \A i \in 1..Len(p) + Len(q) : r[i] = IF i <= Len(p) THEN p[i] ELSE q[i - Len(p)]
    BY <2>2, ConcatProperties
  <2>4. \A i \in 1..1 + Len(q) : r[i] = IF i <= 1 THEN p[i] ELSE q[i - 1]
    BY <2>2, <2>3
  <2> HIDE DEF r
  <2>5. r[1] = t.out
    BY <2>2, <2>4
  <2>6. ASSUME NEW i \in 1..Len(q) PROVE r[i + 1] = q[i]
    <3>1. i + 1 \in 1..1 + Len(q) /\ ~(i + 1 <= 1) /\ (i + 1) - 1 = i
      BY <2>2
    <3> QED
      BY <2>4, <3>1
  <2> QED
    BY <2>1, <2>2, <2>3, <2>5, <2>6 DEF q
<1> QED
  BY <1>2, <1>3

LEMMA BytesOnTheWay ==
  ASSUME NEW t \in State, NEW d
  PROVE  Bytes(OnTheWay(t), d) = IsOut(t, d) + Bytes(t.buf, d)
<1>1. t.buf \in Seq(Byte) /\ Len(t.buf) \in Nat /\ Bytes(t.buf, d) \in Nat
  BY StateFacts
<1>2. CASE ~t.is_data_new
  BY <1>1, <1>2, OnTheWayIs DEF IsOut
<1>3. CASE t.is_data_new
  <2> DEFINE p == OnTheWay(t)
             q == t.buf
             r == Tail(p)
  <2>1. /\ p \in Seq(Byte) /\ Len(p) = 1 + Len(q) /\ p[1] = t.out
        /\ \A i \in 1..Len(q) : p[i + 1] = q[i]
    BY <1>3, OnTheWayIs
  <2>2. q \in Seq(Byte) /\ Len(q) \in Nat
    BY <1>1
  <2> HIDE DEF p, q
  <2>3. p # <<>>
    BY <2>1, <2>2
  <2>4. /\ Head(p) = t.out /\ r \in Seq(Byte) /\ Len(r) = Len(p) - 1
        /\ \A i \in 1..Len(p) - 1 : r[i] = p[i + 1]
    BY <2>1, <2>3, HeadAndTail
  <2>5. Len(r) = Len(q) /\ \A i \in 1..Len(q) : r[i] = q[i]
    BY <2>1, <2>2, <2>4
  <2> HIDE DEF r
  <2>6. r = q
    BY <2>2, <2>4, <2>5, SeqEqual
  <2>7. Bytes(p, d) = (IF Head(p).from = d THEN 1 ELSE 0) + Bytes(Tail(p), d)
    BY <2>1, <2>3, BytesTail
  <2>8. IsOut(t, d) = IF t.out.from = d THEN 1 ELSE 0
    BY <1>3 DEF IsOut
  <2> QED
    BY <2>4, <2>6, <2>7, <2>8 DEF p, q, r
<1> QED
  BY <1>2, <1>3

LEMMA LineOnTheWay ==
  ASSUME NEW t \in State, NEW K \in SUBSET Nat, Lined(t, K)
  PROVE  Line(OnTheWay(t), K, t.lastRead, t.nextKey) /\ OnTheWay(t) \in Seq(Byte)
<1>1. t.buf \in Seq(Byte) /\ Len(t.buf) \in Nat /\ t.out \in Byte /\ t.lastRead \in Nat /\ t.nextKey \in Nat
  BY StateFacts
<1>2. CASE ~t.is_data_new
  BY <1>1, <1>2, OnTheWayIs DEF Lined
<1>3. CASE t.is_data_new
  <2> DEFINE p == OnTheWay(t)
             q == t.buf
             m == 1 + Len(q)
             f == t.lastRead
             n == t.nextKey
             o == t.out.key
  <2>1. /\ p \in Seq(Byte) /\ Len(p) = m /\ p[1] = t.out
        /\ \A i \in 1..Len(q) : p[i + 1] = q[i]
    BY <1>3, OnTheWayIs
  <2>2. Len(q) \in Nat /\ DOMAIN q = 1..Len(q) /\ DOMAIN p = 1..m
    BY <1>1, <2>1
  <2>3. o \in Nat /\ f \in Nat /\ n \in Nat /\ \A i \in 1..Len(q) : q[i].key \in Nat
    <3>1. \A i \in 1..Len(q) : q[i] \in Byte
      BY <1>1
    <3> QED
      BY <1>1, <3>1 DEF Byte
  <2>4. /\ Line(q, K, f, n)
        /\ o > 0 => o > f /\ o <= n /\ Line(q, K, o, n)
    BY <1>3 DEF Lined
  <2> HIDE DEF p, q, f, n, o
  <2>5. /\ \A i \in 1..Len(q) : q[i].key <= n /\ (q[i].key > 0 => q[i].key > f /\ q[i].key > o)
        /\ \A i, j \in 1..Len(q) : i < j /\ q[j].key > 0 => q[i].key < q[j].key
        /\ \A k \in K : k > f /\ k <= n /\ k > o /\ \A i \in 1..Len(q) : q[i].key < k
    <3>1. /\ \A i \in 1..Len(q) : q[i].key <= n /\ (q[i].key > 0 => q[i].key > f)
          /\ \A i, j \in 1..Len(q) : i < j /\ q[j].key > 0 => q[i].key < q[j].key
          /\ \A k \in K : k > f /\ k <= n /\ \A i \in 1..Len(q) : q[i].key < k
      BY <2>2, <2>4 DEF Line
    <3>2. CASE o = 0
      <4>1. \A k \in K : k > o
        BY <2>3, <3>1, <3>2
      <4> QED
        BY <2>3, <3>1, <3>2, <4>1
    <3>3. CASE o > 0
      <4>1. /\ \A i \in 1..Len(q) : q[i].key > 0 => q[i].key > o
            /\ \A k \in K : k > o
        BY <2>2, <2>4, <3>3 DEF Line
      <4> QED
        BY <3>1, <4>1
    <3> QED
      BY <2>3, <3>2, <3>3
  <2>6. o <= n /\ (o > 0 => o > f)
    BY <2>3, <2>4
  <2>7. \A i \in 1..m : i = 1 \/ (i - 1 \in 1..Len(q) /\ p[i] = q[i - 1])
    <3> SUFFICES ASSUME NEW i \in 1..m, i # 1 PROVE i - 1 \in 1..Len(q) /\ p[i] = q[i - 1]
      OBVIOUS
    <3>1. i - 1 \in 1..Len(q) /\ (i - 1) + 1 = i
      BY <2>2
    <3>2. p[(i - 1) + 1] = q[i - 1]
      BY <2>1, <3>1
    <3> QED
      BY <3>1, <3>2
  <2>8. p[1].key = o
    BY <2>1 DEF o
  <2>9. \A i \in 1..m : p[i].key <= n /\ (p[i].key > 0 => p[i].key > f)
    BY <2>5, <2>6, <2>7, <2>8
  <2>10. ASSUME NEW i \in 1..m, NEW j \in 1..m, i < j, p[j].key > 0 PROVE p[i].key < p[j].key
    <3>1. j - 1 \in 1..Len(q) /\ p[j] = q[j - 1]
      BY <2>2, <2>7, <2>10
    <3>2. CASE i = 1
      BY <2>3, <2>5, <2>8, <2>10, <3>1, <3>2
    <3>3. CASE i # 1
      <4>1. i - 1 \in 1..Len(q) /\ p[i] = q[i - 1] /\ i - 1 < j - 1
        BY <2>2, <2>7, <2>10, <3>3
      <4> QED
        BY <2>5, <2>10, <3>1, <4>1
    <3> QED
      BY <3>2, <3>3
  <2>11. \A k \in K : k > f /\ k <= n /\ \A i \in 1..m : p[i].key < k
    BY <2>3, <2>5, <2>7, <2>8
  <2> QED
    BY <2>1, <2>2, <2>9, <2>10, <2>11 DEF Line, p, f, n
<1> QED
  BY <1>2, <1>3

-----------------------------------------------------------------------------
(* The counters of the bytes of the keyboard and of the mouse are exactly  *)
(* what is on its way: a device is told to send as soon as, and only when, *)
(* its last frame has been read or thrown away.                            *)
THEOREM CountersAreExact == Spec => []WaitingCounts
<1>1. Inv => WaitingCounts
  <2> SUFFICES ASSUME Inv, guest # "ram", NEW d \in Devices
               PROVE  s.waiting[d] = Bytes(OnTheWay(s), d)
    BY DEF WaitingCounts
  <2>1. s \in State /\ Exact(s)
    BY DEF Inv, Holds, Sound, Good
  <2> QED
    BY <2>1, BytesOnTheWay DEF Exact
<1> QED
  BY <1>1, Invariance, PTL

(* The guest reads the bytes of scancodes in the order of the keys,        *)
(* whatever is flushed and whoever else sends.                             *)
THEOREM KeysStayInOrder == Spec => []KeysInOrder
<1>1. Inv => KeysInOrder
  <2> SUFFICES ASSUME Inv PROVE KeysInOrder
    OBVIOUS
  <2> DEFINE p == OnTheWay(s)
             ks == s.keys
             K == Numbers(ks)
             f == s.lastRead
  <2>1. s \in State /\ Lined(s, K) /\ InTurn(ks)
    BY DEF Inv, Holds, Sound, Good
  <2>2. K \in SUBSET Nat /\ ks \in Seq(Code) /\ f \in Nat
    BY <2>1, StateFacts DEF Numbers
  <2>3. Line(p, K, f, s.nextKey) /\ p \in Seq(Byte)
    BY <2>1, <2>2, LineOnTheWay
  <2> HIDE DEF K
  <2>4. DOMAIN p = 1..Len(p) /\ Len(p) \in Nat /\ DOMAIN ks = 1..Len(ks) /\ Len(ks) \in Nat
    BY <2>2, <2>3
  <2>5. Rising(p, f)
    <3> SUFFICES ASSUME NEW i \in DOMAIN p, p[i].key > 0
                 PROVE  p[i].key > f /\ \A j \in 1..i - 1 : p[j].key < p[i].key
      BY DEF Rising
    <3>1. \A j \in 1..i - 1 : j \in DOMAIN p /\ j < i
      BY <2>4
    <3> QED
      BY <2>3, <3>1 DEF Line
  <2>6. ASSUME NEW k \in DOMAIN ks
        PROVE  /\ Rising(ks[k], f) /\ Precede(p, ks[k])
               /\ \A j \in 1..k - 1 : Precede(ks[j], ks[k])
    <3>1. ks[k] \in Code
      BY <2>2, <2>4
    <3>2. /\ DOMAIN ks[k] = 1..Len(ks[k]) /\ Len(ks[k]) \in Nat
          /\ \A i \in 1..Len(ks[k]) : ks[k][i].key \in Nat
          /\ \A i, j \in 1..Len(ks[k]) : i < j => ks[k][i].key < ks[k][j].key
      BY <3>1, CodeFacts
    <3>3. \A i \in DOMAIN ks[k] : ks[k][i].key \in K
      BY <3>2 DEF K, Numbers
    <3>4. Rising(ks[k], f)
      <4> SUFFICES ASSUME NEW i \in DOMAIN ks[k]
                   PROVE  ks[k][i].key > f /\ \A j \in 1..i - 1 : ks[k][j].key < ks[k][i].key
        BY DEF Rising
      <4>1. \A j \in 1..i - 1 : j \in 1..Len(ks[k]) /\ j < i
        BY <3>2
      <4> QED
        BY <2>3, <3>2, <3>3, <4>1 DEF Line
    <3>5. Precede(p, ks[k])
      BY <2>3, <3>3 DEF Line, Precede
    <3>6. \A j \in 1..k - 1 : Precede(ks[j], ks[k])
      <4>1. \A j \in 1..k - 1 : j \in DOMAIN ks /\ j < k
        BY <2>4
      <4> QED
        BY <2>1, <4>1 DEF InTurn, Precede
    <3> QED
      BY <3>4, <3>5, <3>6
  <2>7. ASSUME s.data_byte > 0 PROVE s.data_byte >= f /\ Rising(s.buf, s.data_byte)
    <3> DEFINE q == s.buf
               h == s.data_byte
    <3>1. q \in Seq(Byte)
      BY <2>1, StateFacts
    <3>2. h >= f /\ Line(q, K, h, s.nextKey)
      BY <2>1, <2>7 DEF Lined
    <3> HIDE DEF h, q
    <3>3. DOMAIN q = 1..Len(q) /\ Len(q) \in Nat
      BY <3>1
    <3> SUFFICES ASSUME NEW i \in DOMAIN q, q[i].key > 0
                 PROVE  q[i].key > h /\ \A j \in 1..i - 1 : q[j].key < q[i].key
      BY <3>2 DEF Rising, q, h
    <3>4. \A j \in 1..i - 1 : j \in DOMAIN q /\ j < i
      BY <3>3
    <3> QED
      BY <3>2, <3>4 DEF Line
  <2> QED
    BY <2>5, <2>6, <2>7 DEF KeysInOrder
<1> QED
  BY <1>1, Invariance, PTL

(* No device sits on a frame while the controller is ready for it.         *)
THEOREM NobodyIsStranded == Spec => []NotStranded
<1>1. Inv => NotStranded
  BY DEF Inv, Holds, MouseServed, KbdServed, NotStranded
<1> QED
  BY <1>1, Invariance, PTL

(* A byte is only added where there is room: the flush of                  *)
(* enforce_buffer_space leaves enough of it, whatever the devices that it  *)
(* tells send at once.                                                     *)
THEOREM BufferIsNeverOverfull == Spec => [](Len(s.buf) <= BufferSize)
<1>1. Inv => Len(s.buf) <= BufferSize
  BY DEF Inv, Holds, Sound, Good
<1> QED
  BY <1>1, Invariance, PTL

(* What read_data_port asserts: with any guest, the one that overflows     *)
(* the buffer included, the byte it is called to read is counted.          *)
THEOREM ReadBytesAreCounted ==
  Spec => [](s.is_data_new => \A d \in Devices : s.out.from = d => s.waiting[d] > 0)
<1>1. Inv => (s.is_data_new => \A d \in Devices : s.out.from = d => s.waiting[d] > 0)
  <2> SUFFICES ASSUME Inv, s.is_data_new, NEW d \in Devices, s.out.from = d
               PROVE  s.waiting[d] > 0
    OBVIOUS
  <2>1. s \in State /\ IsOut(s, d) + Bytes(s.buf, d) <= s.waiting[d] /\ IsOut(s, d) = 1
    BY DEF Inv, Holds, Sound, Good, Counted, IsOut
  <2>2. Bytes(s.buf, d) \in Nat /\ s.waiting[d] \in Nat
    BY <2>1, StateFacts
  <2> QED
    BY <2>1, <2>2
<1> QED
  BY <1>1, Invariance, PTL

=============================================================================
