--------------------------- MODULE RWQueueProofs ---------------------------
(***************************************************************************)
(* Proofs about RWQueue for any number of threads, any capacity and any    *)
(* batch sizes.                                                            *)
(***************************************************************************)
EXTENDS RWQueue, SequenceTheorems, TLAPS

(* The conjuncts of the inductive invariant: which pc values belong to     *)
(* which kind of thread, and what a thread in the middle of a call knows.  *)
Roles ==
  /\ \A p \in Producers :
       pc[p] \in {"idle", "lock", "blocked", "woken", "notify", "return"}
  /\ \A c \in Consumers : pc[c] \in {"idle", "lock", "blocked", "woken", "notify"}
  /\ \A s \in Stoppers : pc[s] \in {"idle", "stop_lock", "stop_items", "stop_room"}

ProducerCalls ==
  \A p \in Producers :
    /\ pc[p] \in {"lock", "blocked", "woken"} => remaining[p] >= 1
    /\ pc[p] \in {"blocked", "woken"} => num_items[p] = 1
    /\ pc[p] \in {"idle", "return"} => remaining[p] = 0
    /\ is_running \/ remaining[p] > 0 => remaining[p] = Len(data[p])

ConsumerCalls ==
  \A c \in Consumers :
    /\ pc[c] \in {"lock", "blocked", "woken"} => remaining[c] >= 1
    /\ pc[c] \in {"blocked", "woken"} => num_items[c] = 1
    /\ pc[c] = "idle" => remaining[c] = 0
    /\ \/ Len(data[c]) + remaining[c] = requested[c]
       \/ remaining[c] = 0 /\ ~is_running /\ queue = <<>>

IInv == TypeOK /\ Roles /\ ProducerCalls /\ ConsumerCalls /\ CapacityRespected

-----------------------------------------------------------------------------
(* Splitting a sequence where a chunk of n items ends.                     *)
LEMMA ChunkSplit ==
  ASSUME NEW S, NEW s \in Seq(S), NEW n \in 1..Len(s)
  PROVE  /\ SubSeq(s, 1, n) \in Seq(S)
         /\ Len(SubSeq(s, 1, n)) = n
         /\ SubSeq(s, n + 1, Len(s)) \in Seq(S)
         /\ Len(SubSeq(s, n + 1, Len(s))) = Len(s) - n
         /\ SubSeq(s, 1, n) \o SubSeq(s, n + 1, Len(s)) = s
<1>1. Len(s) \in Nat /\ \A i \in 1..Len(s) : s[i] \in S
  BY LenProperties, ElementOfSeq
<1>2. /\ SubSeq(s, 1, n) \in Seq(S)
      /\ Len(SubSeq(s, 1, n)) = n
  BY <1>1, SubSeqProperties
<1>3. /\ SubSeq(s, n + 1, Len(s)) \in Seq(S)
      /\ Len(SubSeq(s, n + 1, Len(s))) = Len(s) - n
  BY <1>1, SubSeqProperties
<1>4. SubSeq(s, 1, n) \o SubSeq(s, n + 1, Len(s)) = SubSeq(s, 1, Len(s))
  BY <1>1, ConcatAdjacentSubSeq
<1> QED
  BY <1>2, <1>3, <1>4, SubSeqFull

(* A chunk has at least one item, at most what is asked for, and more than *)
(* what is available only if nothing is available.                         *)
LEMMA ChunkBounds ==
  ASSUME NEW left \in Nat \ {0}, NEW available \in Int
  PROVE  /\ Chunk(left, available) \in 1..left
         /\ Chunk(left, available) <= available \/ Chunk(left, available) = 1
  BY DEF Chunk

LEMMA InitIInv == Init => IInv
<1> SUFFICES ASSUME Init PROVE IInv
  OBVIOUS
<1> USE DEF Init, Threads
<1>1. TypeOK
  BY EmptySeq DEF TypeOK, PCs, Item
<1>2. Roles
  BY DEF Roles
<1>3. ProducerCalls
  BY EmptySeq DEF ProducerCalls
<1>4. ConsumerCalls
  BY EmptySeq DEF ConsumerCalls
<1>5. CapacityRespected
  BY EmptySeq, BoundAssumption DEF CapacityRespected
<1> QED
  BY <1>1, <1>2, <1>3, <1>4, <1>5 DEF IInv

-----------------------------------------------------------------------------
(* The critical section of an enqueue preserves the invariant.             *)
LEMMA InsertOrWaitIInv ==
  ASSUME IInv, NEW p \in Producers, NEW n \in 1..remaining[p],
         pc[p] \in {"lock", "woken"},
         n <= Capacity - Len(queue) \/ n = 1,
         InsertOrWait(p, n)
  PROVE  IInv'
<1> USE ThreadAssumption, BoundAssumption DEF IInv, Threads
<1>1. /\ p \in Threads /\ p \notin Consumers /\ p \notin Stoppers
      /\ remaining[p] \in Nat /\ n \in Nat \ {0}
      /\ data[p] \in Seq(Item) /\ Len(data[p]) \in Nat /\ Len(queue) \in Nat
  BY LenProperties DEF TypeOK
<1>2. CASE CanEnqueue(n) /\ is_running /\ Insert(p, n)
           /\ pc' = [pc EXCEPT ![p] = "notify"]
  <2>1. remaining[p] = Len(data[p])
    BY <1>2 DEF ProducerCalls
  <2>2. n \in 1..Len(data[p])
    BY <2>1
  <2>3. /\ queue' = queue \o SubSeq(data[p], 1, n)
        /\ data' = [data EXCEPT ![p] = SubSeq(data[p], n + 1, Len(data[p]))]
        /\ remaining' = [remaining EXCEPT ![p] = remaining[p] - n]
    BY <1>2 DEF Insert
  <2>4. /\ SubSeq(data[p], 1, n) \in Seq(Item)
        /\ Len(SubSeq(data[p], 1, n)) = n
        /\ SubSeq(data[p], n + 1, Len(data[p])) \in Seq(Item)
        /\ Len(SubSeq(data[p], n + 1, Len(data[p]))) = Len(data[p]) - n
    BY <1>1, <2>2, ChunkSplit
  <2>5. queue' \in Seq(Item) /\ Len(queue') = Len(queue) + n
    BY <2>3, <2>4, ConcatProperties DEF TypeOK
  <2>6. TypeOK'
    <3>1. remaining' \in [Threads -> Nat]
      BY <1>1, <2>3 DEF TypeOK
    <3>2. data' \in [Threads -> Seq(Item)]
      BY <1>1, <2>3, <2>4 DEF TypeOK
    <3>3. pc' \in [Threads -> PCs] /\ num_items' \in [Threads -> Nat]
      BY <1>1, <1>2 DEF TypeOK, InsertOrWait, PCs
    <3> QED
      BY <2>5, <3>1, <3>2, <3>3 DEF TypeOK, InsertOrWait
  <2>7. Roles'
    BY <1>1, <1>2 DEF Roles, TypeOK
  <2>8. ProducerCalls'
    BY <1>1, <1>2, <2>1, <2>2, <2>3, <2>4
       DEF ProducerCalls, TypeOK, InsertOrWait
  <2>9. ConsumerCalls'
    BY <1>1, <1>2, <2>3 DEF ConsumerCalls, TypeOK, InsertOrWait
  <2>10. CapacityRespected'
    BY <1>1, <1>2, <2>5 DEF CapacityRespected, CanEnqueue
  <2> QED
    BY <2>6, <2>7, <2>8, <2>9, <2>10
<1>3. CASE ~is_running /\ Insert(p, n) /\ pc' = [pc EXCEPT ![p] = "notify"]
  <2>1. /\ remaining' = [remaining EXCEPT ![p] = 0]
        /\ UNCHANGED <<queue, data>>
    BY <1>3 DEF Insert
  <2>2. TypeOK'
    BY <1>1, <1>3, <2>1 DEF TypeOK, InsertOrWait, PCs
  <2>3. Roles'
    BY <1>1, <1>3 DEF Roles, TypeOK
  <2>4. ProducerCalls'
    BY <1>1, <1>3, <2>1 DEF ProducerCalls, TypeOK, InsertOrWait
  <2>5. ConsumerCalls'
    BY <1>1, <1>3, <2>1 DEF ConsumerCalls, TypeOK, InsertOrWait
  <2> QED
    BY <2>1, <2>2, <2>3, <2>4, <2>5 DEF CapacityRespected
<1>4. CASE /\ ~CanEnqueue(n)
           /\ pc' = [pc EXCEPT ![p] = "blocked"]
           /\ UNCHANGED <<queue, remaining, data>>
  <2>1. n = 1
    BY <1>1, <1>4 DEF CanEnqueue
  <2>2. TypeOK'
    BY <1>1, <1>4 DEF TypeOK, InsertOrWait, PCs
  <2>3. Roles'
    BY <1>1, <1>4 DEF Roles, TypeOK
  <2>4. ProducerCalls'
    BY <1>1, <1>4, <2>1 DEF ProducerCalls, TypeOK, InsertOrWait
  <2>5. ConsumerCalls'
    BY <1>1, <1>4 DEF ConsumerCalls, TypeOK, InsertOrWait
  <2> QED
    BY <1>4, <2>2, <2>3, <2>4, <2>5 DEF CapacityRespected
<1> QED
  BY <1>2, <1>3, <1>4 DEF InsertOrWait, Insert

(* The critical section of a dequeue preserves the invariant.              *)
LEMMA RemoveOrWaitIInv ==
  ASSUME IInv, NEW c \in Consumers, NEW n \in 1..remaining[c],
         pc[c] \in {"lock", "woken"},
         n <= Len(queue) \/ n = 1,
         RemoveOrWait(c, n)
  PROVE  IInv'
<1> USE ThreadAssumption, BoundAssumption DEF IInv, Threads
<1>1. /\ c \in Threads /\ c \notin Producers /\ c \notin Stoppers
      /\ remaining[c] \in Nat /\ n \in Nat \ {0}
      /\ data[c] \in Seq(Item) /\ Len(data[c]) \in Nat /\ Len(queue) \in Nat
      /\ queue \in Seq(Item) /\ taken \in Seq(Item)
  BY LenProperties DEF TypeOK
<1>2. CASE CanDequeue(n) /\ (is_running \/ queue # <<>>) /\ Remove(c, n)
           /\ pc' = [pc EXCEPT ![c] = "notify"]
  <2>1. n \in 1..Len(queue)
    <3>1. CASE is_running
      BY <1>1, <1>2, <3>1 DEF CanDequeue
    <3>2. CASE queue # <<>>
      BY <1>1, <3>2, EmptySeq
    <3> QED
      BY <1>2, <3>1, <3>2
  <2>2. /\ queue' = SubSeq(queue, n + 1, Len(queue))
        /\ data' = [data EXCEPT ![c] = data[c] \o SubSeq(queue, 1, n)]
        /\ taken' = taken \o SubSeq(queue, 1, n)
        /\ remaining' = [remaining EXCEPT ![c] = remaining[c] - n]
    BY <1>2 DEF Remove
  <2>3. /\ SubSeq(queue, 1, n) \in Seq(Item)
        /\ Len(SubSeq(queue, 1, n)) = n
        /\ queue' \in Seq(Item) /\ Len(queue') = Len(queue) - n
    BY <1>1, <2>1, <2>2, ChunkSplit
  <2>4. /\ data[c] \o SubSeq(queue, 1, n) \in Seq(Item)
        /\ Len(data[c] \o SubSeq(queue, 1, n)) = Len(data[c]) + n
        /\ taken' \in Seq(Item)
    BY <1>1, <2>2, <2>3, ConcatProperties
  <2>5. TypeOK'
    <3>1. remaining' \in [Threads -> Nat]
      BY <1>1, <2>2 DEF TypeOK
    <3>2. data' \in [Threads -> Seq(Item)]
      BY <1>1, <2>2, <2>4 DEF TypeOK
    <3>3. pc' \in [Threads -> PCs] /\ num_items' \in [Threads -> Nat]
      BY <1>1, <1>2 DEF TypeOK, RemoveOrWait, PCs
    <3> QED
      BY <2>3, <2>4, <3>1, <3>2, <3>3 DEF TypeOK, RemoveOrWait
  <2>6. Roles'
    BY <1>1, <1>2 DEF Roles, TypeOK
  <2>7. ProducerCalls'
    BY <1>1, <1>2, <2>2 DEF ProducerCalls, TypeOK, RemoveOrWait
  <2>8. ConsumerCalls'
    <3> SUFFICES ASSUME NEW d \in Consumers
                 PROVE  /\ pc'[d] \in {"lock", "blocked", "woken"} => remaining'[d] >= 1
                        /\ pc'[d] \in {"blocked", "woken"} => num_items'[d] = 1
                        /\ pc'[d] = "idle" => remaining'[d] = 0
                        /\ \/ Len(data'[d]) + remaining'[d] = requested'[d]
                           \/ remaining'[d] = 0 /\ ~is_running' /\ queue' = <<>>
      BY DEF ConsumerCalls
    <3>1. CASE d = c
      <4>1. Len(data[c]) + remaining[c] = requested[c]
        BY <1>1, <1>2 DEF ConsumerCalls
      <4> QED
        BY <1>1, <1>2, <2>2, <2>4, <3>1, <4>1 DEF TypeOK, RemoveOrWait
    <3>2. CASE d # c
      <4>1. \/ Len(data[d]) + remaining[d] = requested[d]
            \/ remaining[d] = 0 /\ ~is_running /\ queue = <<>>
        BY DEF ConsumerCalls
      <4>2. queue # <<>>
        BY <1>1, <2>1, EmptySeq
      <4> QED
        BY <1>1, <1>2, <2>2, <3>2, <4>1, <4>2
           DEF ConsumerCalls, TypeOK, RemoveOrWait
    <3> QED
      BY <3>1, <3>2
  <2>9. CapacityRespected'
    BY <1>1, <2>1, <2>3 DEF CapacityRespected
  <2> QED
    BY <2>5, <2>6, <2>7, <2>8, <2>9
<1>3. CASE ~is_running /\ queue = <<>> /\ Remove(c, n)
           /\ pc' = [pc EXCEPT ![c] = "notify"]
  <2>1. /\ remaining' = [remaining EXCEPT ![c] = 0]
        /\ UNCHANGED <<queue, data, taken>>
    BY <1>3 DEF Remove
  <2>2. TypeOK'
    BY <1>1, <1>3, <2>1 DEF TypeOK, RemoveOrWait, PCs
  <2>3. Roles'
    BY <1>1, <1>3 DEF Roles, TypeOK
  <2>4. ProducerCalls'
    BY <1>1, <1>3, <2>1 DEF ProducerCalls, TypeOK, RemoveOrWait
  <2>5. ConsumerCalls'
    BY <1>1, <1>3, <2>1 DEF ConsumerCalls, TypeOK, RemoveOrWait
  <2> QED
    BY <2>1, <2>2, <2>3, <2>4, <2>5 DEF CapacityRespected
<1>4. CASE /\ ~CanDequeue(n)
           /\ pc' = [pc EXCEPT ![c] = "blocked"]
           /\ UNCHANGED <<queue, remaining, data, taken>>
  <2>1. n = 1
    BY <1>1, <1>4 DEF CanDequeue
  <2>2. TypeOK'
    BY <1>1, <1>4 DEF TypeOK, RemoveOrWait, PCs
  <2>3. Roles'
    BY <1>1, <1>4 DEF Roles, TypeOK
  <2>4. ProducerCalls'
    BY <1>1, <1>4 DEF ProducerCalls, TypeOK, RemoveOrWait
  <2>5. ConsumerCalls'
    BY <1>1, <1>4, <2>1 DEF ConsumerCalls, TypeOK, RemoveOrWait
  <2> QED
    BY <1>4, <2>2, <2>3, <2>4, <2>5 DEF CapacityRespected
<1> QED
  BY <1>2, <1>3, <1>4 DEF RemoveOrWait, Remove

(* notify_one changes nothing but two program counters.                    *)
LEMMA NotifyOnePc ==
  ASSUME IInv, NEW t \in Threads, NEW next \in PCs, NEW W \in SUBSET Threads,
         \A w \in W : pc[w] = "blocked",
         NotifyOne(W, t, next), pc[t] # "blocked"
  PROVE  /\ pc' \in [Threads -> PCs]
         /\ pc'[t] = next
         /\ \A u \in Threads \ {t} :
              pc'[u] = pc[u] \/ (u \in W /\ pc[u] = "blocked" /\ pc'[u] = "woken")
  BY ZenonT(20) DEF NotifyOne, IInv, TypeOK, PCs

LEMMA NextIInv == IInv /\ [Next]_vars => IInv'
<1> SUFFICES ASSUME IInv, [Next]_vars PROVE IInv'
  OBVIOUS
<1> USE ThreadAssumption, BoundAssumption
<1>1. ASSUME NEW p \in Producers, NEW n \in Nat \ {0}, BeginEnqueue(p, n)
      PROVE  IInv'
  <2> DEFINE batch == [i \in 1..n |-> <<p, offered[p] + i>>]
  <2>1. p \in Threads /\ p \notin Consumers /\ p \notin Stoppers /\ offered[p] \in Nat
    BY DEF IInv, TypeOK, Threads
  <2>2. batch \in Seq(Item) /\ Len(batch) = n
    <3>1. \A i \in 1..n : <<p, offered[p] + i>> \in Item
      BY <2>1 DEF Item
    <3>2. batch \in Seq(Item)
      BY <3>1, IsASeq
    <3> QED
      BY <3>2, LenProperties
  <2>3. data' = [data EXCEPT ![p] = batch]
    BY <1>1 DEF BeginEnqueue
  <2> HIDE DEF batch
  <2>4. TypeOK'
    <3>1. offered' \in [Producers -> Nat]
      BY <1>1, <2>1 DEF IInv, TypeOK, BeginEnqueue
    <3>2. data' \in [Threads -> Seq(Item)]
      BY <2>1, <2>2, <2>3 DEF IInv, TypeOK
    <3>3. requested' \in [Threads -> Nat] /\ remaining' \in [Threads -> Nat]
      BY <1>1, <2>1 DEF IInv, TypeOK, BeginEnqueue
    <3>4. pc' \in [Threads -> PCs]
      BY <1>1, <2>1 DEF IInv, TypeOK, BeginEnqueue, PCs
    <3> QED
      BY <1>1, <3>1, <3>2, <3>3, <3>4 DEF IInv, TypeOK, BeginEnqueue
  <2>5. Roles'
    BY <1>1, <2>1 DEF IInv, Roles, TypeOK, BeginEnqueue, Threads
  <2>6. ProducerCalls'
    BY <1>1, <2>1, <2>2, <2>3, SMTT(20)
       DEF IInv, ProducerCalls, TypeOK, BeginEnqueue, Threads
  <2>7. ConsumerCalls'
    BY <1>1, <2>1, <2>3 DEF IInv, ConsumerCalls, TypeOK, BeginEnqueue, Threads
  <2> QED
    BY <1>1, <2>4, <2>5, <2>6, <2>7 DEF IInv, CapacityRespected, BeginEnqueue
<1>2. ASSUME NEW p \in Producers, EnqueueLock(p)
      PROVE  IInv'
  <2>1. remaining[p] \in Nat \ {0} /\ Capacity - Len(queue) \in Int
    BY <1>2, LenProperties DEF IInv, TypeOK, ProducerCalls, EnqueueLock, Threads
  <2> QED
    BY <1>2, <2>1, ChunkBounds, InsertOrWaitIInv DEF EnqueueLock
<1>3. ASSUME NEW p \in Producers, EnqueueWoken(p)
      PROVE  IInv'
  <2>1. num_items[p] = 1 /\ num_items[p] \in 1..remaining[p]
    BY <1>3 DEF IInv, TypeOK, ProducerCalls, EnqueueWoken, Threads
  <2> QED
    BY <1>3, <2>1, InsertOrWaitIInv DEF EnqueueWoken
<1>4. ASSUME NEW p \in Producers, EnqueueNotify(p)
      PROVE  IInv'
  <2> DEFINE next == IF remaining[p] > 0 THEN "lock" ELSE "return"
  <2>1. /\ p \in Threads /\ p \notin Consumers /\ p \notin Stoppers
        /\ next \in PCs /\ next \in {"lock", "return"}
        /\ WaitingForItems \in SUBSET Threads /\ pc[p] # "blocked"
        /\ \A w \in WaitingForItems : pc[w] = "blocked" /\ w \in Consumers
    BY <1>4 DEF Threads, PCs, WaitingForItems, EnqueueNotify
  <2>2. NotifyOne(WaitingForItems, p, next)
    BY <1>4 DEF EnqueueNotify
  <2>3. next = "lock" => remaining[p] > 0
    OBVIOUS
  <2>4. next = "return" => remaining[p] = 0
    BY <2>1 DEF IInv, TypeOK
  <2> HIDE DEF next
  <2>5. /\ pc' \in [Threads -> PCs]
        /\ pc'[p] = next
        /\ \A u \in Threads \ {p} : pc'[u] = pc[u]
             \/ (u \in WaitingForItems /\ pc[u] = "blocked" /\ pc'[u] = "woken")
    BY <2>1, <2>2, NotifyOnePc
  <2>6. TypeOK'
    BY <1>4, <2>5 DEF IInv, TypeOK, EnqueueNotify
  <2>7. Roles'
    BY <2>1, <2>5 DEF IInv, Roles, Threads
  <2>8. ProducerCalls'
    BY <1>4, <2>1, <2>3, <2>4, <2>5
       DEF IInv, ProducerCalls, TypeOK, EnqueueNotify, Threads
  <2>9. ConsumerCalls'
    BY <1>4, <2>1, <2>5 DEF IInv, ConsumerCalls, TypeOK, EnqueueNotify, Threads
  <2> QED
    BY <1>4, <2>6, <2>7, <2>8, <2>9 DEF IInv, CapacityRespected, EnqueueNotify
<1>5. ASSUME NEW p \in Producers, EnqueueReturn(p)
      PROVE  IInv'
  <2>1. p \in Threads /\ p \notin Consumers /\ p \notin Stoppers
    BY DEF Threads
  <2>2. TypeOK'
    BY <1>5, <2>1, EmptySeq DEF IInv, TypeOK, EnqueueReturn, PCs
  <2>3. Roles'
    BY <1>5, <2>1 DEF IInv, Roles, TypeOK, EnqueueReturn, Threads
  <2>4. ProducerCalls'
    BY <1>5, <2>1, EmptySeq DEF IInv, ProducerCalls, TypeOK, EnqueueReturn, Threads
  <2>5. ConsumerCalls'
    BY <1>5, <2>1 DEF IInv, ConsumerCalls, TypeOK, EnqueueReturn, Threads
  <2> QED
    BY <1>5, <2>2, <2>3, <2>4, <2>5 DEF IInv, CapacityRespected, EnqueueReturn
<1>6. ASSUME NEW c \in Consumers, NEW n \in Nat \ {0}, BeginDequeue(c, n)
      PROVE  IInv'
  <2>1. c \in Threads /\ c \notin Producers /\ c \notin Stoppers
    BY DEF Threads
  <2>2. TypeOK'
    BY <1>6, <2>1, EmptySeq DEF IInv, TypeOK, BeginDequeue, PCs
  <2>3. Roles'
    BY <1>6, <2>1 DEF IInv, Roles, TypeOK, BeginDequeue, Threads
  <2>4. ProducerCalls'
    BY <1>6, <2>1 DEF IInv, ProducerCalls, TypeOK, BeginDequeue, Threads
  <2>5. ConsumerCalls'
    BY <1>6, <2>1, EmptySeq DEF IInv, ConsumerCalls, TypeOK, BeginDequeue, Threads
  <2> QED
    BY <1>6, <2>2, <2>3, <2>4, <2>5 DEF IInv, CapacityRespected, BeginDequeue
<1>7. ASSUME NEW c \in Consumers, DequeueLock(c)
      PROVE  IInv'
  <2>1. remaining[c] \in Nat \ {0} /\ Len(queue) \in Int
    BY <1>7, LenProperties DEF IInv, TypeOK, ConsumerCalls, DequeueLock, Threads
  <2> QED
    BY <1>7, <2>1, ChunkBounds, RemoveOrWaitIInv DEF DequeueLock
<1>8. ASSUME NEW c \in Consumers, DequeueWoken(c)
      PROVE  IInv'
  <2>1. num_items[c] = 1 /\ num_items[c] \in 1..remaining[c]
    BY <1>8 DEF IInv, TypeOK, ConsumerCalls, DequeueWoken, Threads
  <2> QED
    BY <1>8, <2>1, RemoveOrWaitIInv DEF DequeueWoken
<1>9. ASSUME NEW c \in Consumers, DequeueNotify(c)
      PROVE  IInv'
  <2> DEFINE next == IF remaining[c] > 0 THEN "lock" ELSE "idle"
  <2>1. /\ c \in Threads /\ c \notin Producers /\ c \notin Stoppers
        /\ next \in PCs /\ next \in {"lock", "idle"}
        /\ WaitingForRoom \in SUBSET Threads /\ pc[c] # "blocked"
        /\ \A w \in WaitingForRoom : pc[w] = "blocked" /\ w \in Producers
    BY <1>9 DEF Threads, PCs, WaitingForRoom, DequeueNotify
  <2>2. NotifyOne(WaitingForRoom, c, next)
    BY <1>9 DEF DequeueNotify
  <2>3. next = "lock" => remaining[c] > 0
    OBVIOUS
  <2>4. next = "idle" => remaining[c] = 0
    BY <2>1 DEF IInv, TypeOK
  <2> HIDE DEF next
  <2>5. /\ pc' \in [Threads -> PCs]
        /\ pc'[c] = next
        /\ \A u \in Threads \ {c} : pc'[u] = pc[u]
             \/ (u \in WaitingForRoom /\ pc[u] = "blocked" /\ pc'[u] = "woken")
    BY <2>1, <2>2, NotifyOnePc
  <2>6. ret' \in [Threads -> BOOLEAN]
    <3> DEFINE r == IF remaining[c] > 0 THEN ret[c] ELSE data[c] # <<>>
    <3>1. r \in BOOLEAN
      BY <2>1 DEF IInv, TypeOK
    <3>2. ret' = [ret EXCEPT ![c] = r]
      BY <1>9 DEF DequeueNotify
    <3> HIDE DEF r
    <3> QED
      BY <2>1, <3>1, <3>2 DEF IInv, TypeOK
  <2>7. TypeOK'
    BY <1>9, <2>5, <2>6 DEF IInv, TypeOK, DequeueNotify
  <2>8. Roles'
    BY <2>1, <2>5 DEF IInv, Roles, Threads
  <2>9. ProducerCalls'
    BY <1>9, <2>1, <2>5 DEF IInv, ProducerCalls, TypeOK, DequeueNotify, Threads
  <2>10. ConsumerCalls'
    BY <1>9, <2>1, <2>3, <2>4, <2>5
       DEF IInv, ConsumerCalls, TypeOK, DequeueNotify, Threads
  <2> QED
    BY <1>9, <2>7, <2>8, <2>9, <2>10 DEF IInv, CapacityRespected, DequeueNotify
<1>10. ASSUME NEW s \in Stoppers, Stop(s) \/ StopLock(s)
       PROVE  IInv'
  <2>1. s \in Threads /\ s \notin Producers /\ s \notin Consumers
    BY DEF Threads
  <2>2. TypeOK'
    BY <1>10, <2>1 DEF IInv, TypeOK, Stop, StopLock, PCs
  <2>3. Roles'
    BY <1>10, <2>1 DEF IInv, Roles, TypeOK, Stop, StopLock, Threads
  <2>4. ProducerCalls'
    BY <1>10, <2>1 DEF IInv, ProducerCalls, TypeOK, Stop, StopLock, Threads
  <2>5. ConsumerCalls'
    BY <1>10, <2>1 DEF IInv, ConsumerCalls, TypeOK, Stop, StopLock, Threads
  <2> QED
    BY <1>10, <2>2, <2>3, <2>4, <2>5 DEF IInv, CapacityRespected, Stop, StopLock
<1>11. ASSUME NEW s \in Stoppers, StopNotifyItems(s) \/ StopNotifyRoom(s)
       PROVE  IInv'
  <2>1. s \in Threads /\ s \notin Producers /\ s \notin Consumers
    BY DEF Threads
  <2>2. /\ pc' \in [Threads -> PCs]
        /\ pc'[s] \in {"idle", "stop_room"}
        /\ \A u \in Threads \ {s} :
             pc'[u] = pc[u] \/ (pc[u] = "blocked" /\ pc'[u] = "woken")
    BY <1>11, <2>1 DEF IInv, TypeOK, StopNotifyItems, StopNotifyRoom, NotifyAll,
                       WaitingForItems, WaitingForRoom, PCs
  <2>3. UNCHANGED <<queue, is_running, requested, remaining, num_items, data, ret,
                    offered, taken>>
    BY <1>11 DEF StopNotifyItems, StopNotifyRoom
  <2>4. TypeOK'
    BY <2>2, <2>3 DEF IInv, TypeOK
  <2>5. Roles'
    BY <2>1, <2>2 DEF IInv, Roles, Threads
  <2>6. ProducerCalls'
    BY <2>1, <2>2, <2>3 DEF IInv, ProducerCalls, Threads
  <2>7. ConsumerCalls'
    BY <2>1, <2>2, <2>3 DEF IInv, ConsumerCalls, Threads
  <2> QED
    BY <2>3, <2>4, <2>5, <2>6, <2>7 DEF IInv, CapacityRespected
<1>12. ASSUME NEW t \in Threads, SpuriousWakeup(t)
       PROVE  IInv'
  <2>1. TypeOK'
    BY <1>12 DEF IInv, TypeOK, SpuriousWakeup, PCs
  <2>2. Roles'
    BY <1>12 DEF IInv, Roles, TypeOK, SpuriousWakeup, Threads
  <2>3. ProducerCalls'
    BY <1>12 DEF IInv, ProducerCalls, TypeOK, SpuriousWakeup, Threads
  <2>4. ConsumerCalls'
    BY <1>12 DEF IInv, ConsumerCalls, TypeOK, SpuriousWakeup, Threads
  <2> QED
    BY <1>12, <2>1, <2>2, <2>3, <2>4 DEF IInv, CapacityRespected, SpuriousWakeup
<1>13. CASE UNCHANGED vars
  BY <1>13 DEF vars, IInv, TypeOK, Roles, ProducerCalls, ConsumerCalls,
               CapacityRespected
<1>14. 1 \in Nat \ {0} /\ \A n \in 1..MaxBatch : n \in Nat \ {0}
  OBVIOUS
<1> QED
  BY <1>1, <1>2, <1>3, <1>4, <1>5, <1>6, <1>7, <1>8, <1>9, <1>10, <1>11, <1>12,
     <1>13, <1>14
     DEF Next, Enqueue, BulkEnqueue, ProducerStep, Dequeue, BulkDequeue,
         ConsumerStep, StopperStep

THEOREM Invariance == Spec => []IInv
  BY InitIInv, NextIInv, PTL DEF Spec

(* Every variable keeps its type; in particular num_remaining, an unsigned *)
(* count in the code, never underflows in either bulk loop.                *)
THEOREM TypeCorrect == Spec => []TypeOK
  BY Invariance, PTL DEF IInv

(* The queue never holds more items than its capacity.                     *)
THEOREM NeverOverfull == Spec => []CapacityRespected
  BY Invariance, PTL DEF IInv

(* A dequeue call returns short only from a queue stopped and drained.     *)
THEOREM ShortCallsMeanDrained == Spec => []ShortOnlyWhenDrained
<1>1. IInv => ShortOnlyWhenDrained
  <2> SUFFICES ASSUME IInv, NEW c \in Consumers, pc[c] = "idle",
                      Len(data[c]) < requested[c]
               PROVE  ~is_running /\ queue = <<>>
    BY DEF ShortOnlyWhenDrained
  <2>1. remaining[c] = 0
    BY DEF IInv, ConsumerCalls
  <2>2. Len(data[c]) \in Nat /\ requested[c] \in Nat
    BY LenProperties DEF IInv, TypeOK, Threads
  <2> QED
    BY <2>1, <2>2 DEF IInv, ConsumerCalls
<1> QED
  BY <1>1, Invariance, PTL

-----------------------------------------------------------------------------
(* A thread blocks only where its condition is false.                      *)
LEMMA BlockedMeansEmpty ==
  ASSUME IInv, NEW c \in Consumers, DequeueLock(c) \/ DequeueWoken(c),
         pc'[c] = "blocked"
  PROVE  /\ is_running /\ queue = <<>>
         /\ UNCHANGED <<queue, is_running>>
         /\ pc' = [pc EXCEPT ![c] = "blocked"]
<1>1. c \in Threads /\ queue \in Seq(Item) /\ Len(queue) \in Nat
  BY LenProperties DEF IInv, TypeOK, Threads
<1>2. PICK n \in Nat : /\ RemoveOrWait(c, n)
                       /\ n <= Len(queue) \/ n = 1
  <2>1. CASE DequeueLock(c)
    <3>1. remaining[c] \in Nat \ {0} /\ Len(queue) \in Int
      BY <1>1, <2>1 DEF IInv, TypeOK, ConsumerCalls, DequeueLock
    <3>2. Chunk(remaining[c], Len(queue)) \in Nat
      BY <3>1 DEF Chunk
    <3>3. RemoveOrWait(c, Chunk(remaining[c], Len(queue)))
      BY <2>1 DEF DequeueLock
    <3> QED
      BY <3>1, <3>2, <3>3, ChunkBounds
  <2>2. CASE DequeueWoken(c)
    <3>1. num_items[c] = 1
      BY <2>2 DEF IInv, ConsumerCalls, DequeueWoken
    <3> QED
      BY <2>2, <3>1 DEF DequeueWoken
  <2> QED
    BY <2>1, <2>2
<1>3. pc' # [pc EXCEPT ![c] = "notify"]
  BY <1>1 DEF IInv, TypeOK
<1>4. ~CanDequeue(n) /\ UNCHANGED queue /\ pc' = [pc EXCEPT ![c] = "blocked"]
  BY <1>2, <1>3 DEF RemoveOrWait
<1>5. is_running /\ Len(queue) = 0
  BY <1>1, <1>2, <1>4 DEF CanDequeue
<1> QED
  BY <1>1, <1>2, <1>4, <1>5, EmptySeq DEF RemoveOrWait

LEMMA BlockedMeansFull ==
  ASSUME IInv, NEW p \in Producers, EnqueueLock(p) \/ EnqueueWoken(p),
         pc'[p] = "blocked"
  PROVE  /\ is_running /\ Len(queue) = Capacity
         /\ UNCHANGED <<queue, is_running>>
         /\ pc' = [pc EXCEPT ![p] = "blocked"]
<1>1. /\ p \in Threads /\ Len(queue) \in Nat /\ Capacity \in Nat
      /\ Len(queue) <= Capacity
  BY LenProperties, BoundAssumption DEF IInv, TypeOK, Threads, CapacityRespected
<1>2. PICK n \in Nat : /\ InsertOrWait(p, n)
                       /\ n <= Capacity - Len(queue) \/ n = 1
  <2>1. CASE EnqueueLock(p)
    <3>1. remaining[p] \in Nat \ {0} /\ Capacity - Len(queue) \in Int
      BY <1>1, <2>1 DEF IInv, TypeOK, ProducerCalls, EnqueueLock
    <3>2. Chunk(remaining[p], Capacity - Len(queue)) \in Nat
      BY <3>1 DEF Chunk
    <3>3. InsertOrWait(p, Chunk(remaining[p], Capacity - Len(queue)))
      BY <2>1 DEF EnqueueLock
    <3> QED
      BY <3>1, <3>2, <3>3, ChunkBounds
  <2>2. CASE EnqueueWoken(p)
    <3>1. num_items[p] = 1
      BY <2>2 DEF IInv, ProducerCalls, EnqueueWoken
    <3> QED
      BY <2>2, <3>1 DEF EnqueueWoken
  <2> QED
    BY <2>1, <2>2
<1>3. pc' # [pc EXCEPT ![p] = "notify"]
  BY <1>1 DEF IInv, TypeOK
<1>4. ~CanEnqueue(n) /\ UNCHANGED queue /\ pc' = [pc EXCEPT ![p] = "blocked"]
  BY <1>2, <1>3 DEF InsertOrWait
<1> QED
  BY <1>1, <1>2, <1>4 DEF InsertOrWait, CanEnqueue

(* What the critical sections do when they do not block.                   *)
LEMMA EnqueueSection ==
  ASSUME IInv, NEW p \in Producers, EnqueueLock(p) \/ EnqueueWoken(p)
  PROVE  /\ UNCHANGED is_running
         /\ ~is_running => UNCHANGED queue
         /\ \/ pc' = [pc EXCEPT ![p] = "notify"]
            \/ pc' = [pc EXCEPT ![p] = "blocked"] /\ UNCHANGED queue
  BY DEF EnqueueLock, EnqueueWoken, InsertOrWait, Insert

LEMMA DequeueSection ==
  ASSUME IInv, NEW c \in Consumers, DequeueLock(c) \/ DequeueWoken(c)
  PROVE  /\ UNCHANGED is_running
         /\ \/ pc' = [pc EXCEPT ![c] = "notify"]
            \/ pc' = [pc EXCEPT ![c] = "blocked"] /\ UNCHANGED queue
  BY DEF DequeueLock, DequeueWoken, RemoveOrWait, Remove

-----------------------------------------------------------------------------
(* A wakeup is on its way for every consumer (producer) whose wait         *)
(* condition holds.                                                        *)
ItemsAnnounced ==
  /\ queue # <<>> => \E p \in Producers : pc[p] = "notify"
  /\ ~is_running => \E s \in Stoppers : pc[s] = "stop_items"

RoomAnnounced ==
  /\ Len(queue) < Capacity => \E c \in Consumers : pc[c] = "notify"
  /\ ~is_running => \E s \in Stoppers : pc[s] \in {"stop_items", "stop_room"}

(* With a single consumer, and any number of producers, no wakeup is lost: *)
(* has_items.notify_one reaches the consumer if it is blocked.             *)
THEOREM ConsumerNeverStranded ==
  ASSUME \A c, d \in Consumers : c = d
  PROVE  Spec => []NoStrandedConsumer
<1>1. Init => NoStrandedConsumer
  BY DEF Init, NoStrandedConsumer, Threads
<1>2. IInv /\ NoStrandedConsumer /\ [Next]_vars => NoStrandedConsumer'
  <2> SUFFICES ASSUME IInv, NoStrandedConsumer, [Next]_vars,
                      NEW c \in Consumers, pc'[c] = "blocked"
               PROVE  ItemsAnnounced'
    BY DEF NoStrandedConsumer, ItemsAnnounced
  <2> USE ThreadAssumption
  <2>1. /\ pc \in [Threads -> PCs] /\ c \in Threads
        /\ c \notin Producers /\ c \notin Stoppers
        /\ Producers \subseteq Threads /\ Stoppers \subseteq Threads
        /\ \A d \in Consumers : d = c
        /\ \A p \in Producers : p \notin Stoppers
    BY DEF IInv, TypeOK, Threads
  <2>2. pc[c] = "blocked" => ItemsAnnounced
    BY DEF NoStrandedConsumer, ItemsAnnounced
  <2>3. ASSUME NEW p \in Producers, NEW n, BeginEnqueue(p, n)
        PROVE  ItemsAnnounced'
    BY <2>1, <2>2, <2>3 DEF BeginEnqueue, ItemsAnnounced
  <2>4. ASSUME NEW p \in Producers, EnqueueLock(p) \/ EnqueueWoken(p)
        PROVE  ItemsAnnounced'
    <3>1. pc' = [pc EXCEPT ![p] = "notify"] \/ pc' = [pc EXCEPT ![p] = "blocked"]
      BY <2>4, EnqueueSection
    <3>2. pc[c] = "blocked" /\ pc[p] \in {"lock", "woken"}
      BY <2>1, <2>4, <3>1 DEF EnqueueLock, EnqueueWoken
    <3>3. ~is_running' => \E s \in Stoppers : pc'[s] = "stop_items"
      BY <2>1, <2>2, <2>4, <3>1, <3>2, EnqueueSection DEF ItemsAnnounced
    <3>4. queue' # <<>> => \E q \in Producers : pc'[q] = "notify"
      BY <2>1, <2>2, <2>4, <3>1, <3>2, EnqueueSection DEF ItemsAnnounced
    <3> QED
      BY <3>3, <3>4 DEF ItemsAnnounced
  <2>5. ASSUME NEW p \in Producers, EnqueueNotify(p)
        PROVE  ItemsAnnounced'
    <3>1. pc[c] = "blocked"
      BY <2>1, <2>5 DEF EnqueueNotify, NotifyOne, WaitingForItems
    <3>2. WaitingForItems = {c}
      BY <2>1, <3>1 DEF WaitingForItems
    <3>3. pc'[c] = "woken"
      BY <2>1, <2>5, <3>2 DEF EnqueueNotify, NotifyOne
    <3> QED
      BY <3>3
  <2>6. ASSUME NEW p \in Producers, EnqueueReturn(p)
        PROVE  ItemsAnnounced'
    BY <2>1, <2>2, <2>6 DEF EnqueueReturn, ItemsAnnounced
  <2>7. ASSUME NEW d \in Consumers, NEW n, BeginDequeue(d, n)
        PROVE  ItemsAnnounced'
    BY <2>1, <2>2, <2>7 DEF BeginDequeue, ItemsAnnounced
  <2>8. ASSUME NEW d \in Consumers, DequeueLock(d) \/ DequeueWoken(d)
        PROVE  ItemsAnnounced'
    BY <2>1, <2>8, BlockedMeansEmpty DEF ItemsAnnounced
  <2>9. ASSUME NEW d \in Consumers, DequeueNotify(d)
        PROVE  ItemsAnnounced'
    BY <2>1, <2>9 DEF DequeueNotify, NotifyOne, WaitingForRoom
  <2>10. ASSUME NEW s \in Stoppers, Stop(s) \/ StopLock(s)
         PROVE  ItemsAnnounced'
    BY <2>1, <2>2, <2>10 DEF Stop, StopLock, ItemsAnnounced
  <2>11. ASSUME NEW s \in Stoppers, StopNotifyItems(s)
         PROVE  ItemsAnnounced'
    BY <2>1, <2>11 DEF StopNotifyItems, NotifyAll, WaitingForItems
  <2>12. ASSUME NEW s \in Stoppers, StopNotifyRoom(s)
         PROVE  ItemsAnnounced'
    BY <2>1, <2>2, <2>12
       DEF StopNotifyRoom, NotifyAll, WaitingForRoom, ItemsAnnounced
  <2>13. ASSUME NEW t \in Threads, SpuriousWakeup(t)
         PROVE  ItemsAnnounced'
    BY <2>1, <2>2, <2>13 DEF SpuriousWakeup, ItemsAnnounced
  <2>14. CASE UNCHANGED vars
    BY <2>2, <2>14 DEF vars, ItemsAnnounced
  <2> QED
    BY <2>3, <2>4, <2>5, <2>6, <2>7, <2>8, <2>9, <2>10, <2>11, <2>12, <2>13,
       <2>14
       DEF Next, Enqueue, BulkEnqueue, ProducerStep, Dequeue, BulkDequeue,
           ConsumerStep, StopperStep
<1> QED
  BY <1>1, <1>2, Invariance, PTL DEF Spec

(* With a single producer, and any number of consumers, the same holds of  *)
(* has_room.                                                               *)
THEOREM ProducerNeverStranded ==
  ASSUME \A p, q \in Producers : p = q
  PROVE  Spec => []NoStrandedProducer
<1>1. Init => NoStrandedProducer
  BY DEF Init, NoStrandedProducer, Threads
<1>2. IInv /\ NoStrandedProducer /\ [Next]_vars => NoStrandedProducer'
  <2> SUFFICES ASSUME IInv, NoStrandedProducer, [Next]_vars,
                      NEW p \in Producers, pc'[p] = "blocked"
               PROVE  RoomAnnounced'
    BY DEF NoStrandedProducer, RoomAnnounced
  <2> USE ThreadAssumption
  <2>1. /\ pc \in [Threads -> PCs] /\ p \in Threads
        /\ p \notin Consumers /\ p \notin Stoppers
        /\ Consumers \subseteq Threads /\ Stoppers \subseteq Threads
        /\ \A q \in Producers : q = p
        /\ \A c \in Consumers : c \notin Stoppers
    BY DEF IInv, TypeOK, Threads
  <2>2. pc[p] = "blocked" => RoomAnnounced
    BY DEF NoStrandedProducer, RoomAnnounced
  <2>3. ASSUME NEW q \in Producers, NEW n, BeginEnqueue(q, n)
        PROVE  RoomAnnounced'
    BY <2>1, <2>2, <2>3 DEF BeginEnqueue, RoomAnnounced
  <2>4. ASSUME NEW q \in Producers, EnqueueLock(q) \/ EnqueueWoken(q)
        PROVE  RoomAnnounced'
    <3>1. q = p
      BY <2>1
    <3>2. is_running' /\ Len(queue') = Capacity
      BY <2>4, <3>1, BlockedMeansFull
    <3>3. Capacity \in Nat
      BY BoundAssumption
    <3> QED
      BY <3>2, <3>3 DEF RoomAnnounced
  <2>5. ASSUME NEW q \in Producers, EnqueueNotify(q)
        PROVE  RoomAnnounced'
    BY <2>1, <2>5 DEF EnqueueNotify, NotifyOne, WaitingForItems
  <2>6. ASSUME NEW q \in Producers, EnqueueReturn(q)
        PROVE  RoomAnnounced'
    BY <2>1, <2>2, <2>6 DEF EnqueueReturn, RoomAnnounced
  <2>7. ASSUME NEW c \in Consumers, NEW n, BeginDequeue(c, n)
        PROVE  RoomAnnounced'
    BY <2>1, <2>2, <2>7 DEF BeginDequeue, RoomAnnounced
  <2>8. ASSUME NEW c \in Consumers, DequeueLock(c) \/ DequeueWoken(c)
        PROVE  RoomAnnounced'
    <3>1. pc' = [pc EXCEPT ![c] = "notify"] \/ pc' = [pc EXCEPT ![c] = "blocked"]
      BY <2>8, DequeueSection
    <3>2. pc[p] = "blocked" /\ pc[c] \in {"lock", "woken"}
      BY <2>1, <2>8, <3>1 DEF DequeueLock, DequeueWoken
    <3>3. ~is_running' => \E s \in Stoppers : pc'[s] \in {"stop_items", "stop_room"}
      BY <2>1, <2>2, <2>8, <3>1, <3>2, DequeueSection DEF RoomAnnounced
    <3>4. Len(queue') < Capacity => \E d \in Consumers : pc'[d] = "notify"
      BY <2>1, <2>2, <2>8, <3>1, <3>2, DequeueSection DEF RoomAnnounced
    <3> QED
      BY <3>3, <3>4 DEF RoomAnnounced
  <2>9. ASSUME NEW c \in Consumers, DequeueNotify(c)
        PROVE  RoomAnnounced'
    <3>1. pc[p] = "blocked"
      BY <2>1, <2>9 DEF DequeueNotify, NotifyOne, WaitingForRoom
    <3>2. WaitingForRoom = {p}
      BY <2>1, <3>1 DEF WaitingForRoom
    <3>3. pc'[p] = "woken"
      BY <2>1, <2>9, <3>2 DEF DequeueNotify, NotifyOne
    <3> QED
      BY <3>3
  <2>10. ASSUME NEW s \in Stoppers, Stop(s) \/ StopLock(s)
         PROVE  RoomAnnounced'
    BY <2>1, <2>2, <2>10 DEF Stop, StopLock, RoomAnnounced
  <2>11. ASSUME NEW s \in Stoppers, StopNotifyItems(s)
         PROVE  RoomAnnounced'
    BY <2>1, <2>2, <2>11
       DEF StopNotifyItems, NotifyAll, WaitingForItems, RoomAnnounced
  <2>12. ASSUME NEW s \in Stoppers, StopNotifyRoom(s)
         PROVE  RoomAnnounced'
    BY <2>1, <2>12 DEF StopNotifyRoom, NotifyAll, WaitingForRoom
  <2>13. ASSUME NEW t \in Threads, SpuriousWakeup(t)
         PROVE  RoomAnnounced'
    BY <2>1, <2>2, <2>13 DEF SpuriousWakeup, RoomAnnounced
  <2>14. CASE UNCHANGED vars
    BY <2>2, <2>14 DEF vars, RoomAnnounced
  <2> QED
    BY <2>3, <2>4, <2>5, <2>6, <2>7, <2>8, <2>9, <2>10, <2>11, <2>12, <2>13,
       <2>14
       DEF Next, Enqueue, BulkEnqueue, ProducerStep, Dequeue, BulkDequeue,
           ConsumerStep, StopperStep
<1> QED
  BY <1>1, <1>2, Invariance, PTL DEF Spec

-----------------------------------------------------------------------------
(* The effect of the critical sections on the items.                       *)
LEMMA InsertEffect ==
  ASSUME IInv, NEW p \in Producers, EnqueueLock(p) \/ EnqueueWoken(p)
  PROVE  /\ UNCHANGED <<is_running, ret, offered, taken>>
         /\ pc' = [pc EXCEPT ![p] = "notify"] \/ pc' = [pc EXCEPT ![p] = "blocked"]
         /\ \/ UNCHANGED <<queue, data>>
            \/ /\ is_running
               /\ \E n \in 1..Len(data[p]) :
                    /\ queue' = queue \o SubSeq(data[p], 1, n)
                    /\ data' = [data EXCEPT ![p] =
                                  SubSeq(data[p], n + 1, Len(data[p]))]
<1>1. remaining[p] \in Nat \ {0} /\ Capacity - Len(queue) \in Int
  BY BoundAssumption, LenProperties
     DEF IInv, TypeOK, ProducerCalls, EnqueueLock, EnqueueWoken, Threads
<1>2. PICK n \in 1..remaining[p] : InsertOrWait(p, n)
  <2>1. CASE EnqueueLock(p)
    BY <1>1, <2>1, ChunkBounds DEF EnqueueLock
  <2>2. CASE EnqueueWoken(p)
    BY <1>1, <2>2 DEF EnqueueWoken, IInv, ProducerCalls
  <2> QED
    BY <2>1, <2>2
<1>3. is_running => n \in 1..Len(data[p])
  BY <1>2 DEF IInv, ProducerCalls
<1> QED
  BY <1>2, <1>3 DEF InsertOrWait, Insert

LEMMA RemoveEffect ==
  ASSUME IInv, NEW c \in Consumers, DequeueLock(c) \/ DequeueWoken(c)
  PROVE  /\ UNCHANGED <<is_running, ret, offered>>
         /\ \A p \in Producers : data'[p] = data[p]
         /\ pc' = [pc EXCEPT ![c] = "notify"] \/ pc' = [pc EXCEPT ![c] = "blocked"]
         /\ \/ UNCHANGED <<queue, taken>>
            \/ \E n \in 1..Len(queue) :
                 /\ taken' = taken \o SubSeq(queue, 1, n)
                 /\ queue' = SubSeq(queue, n + 1, Len(queue))
<1>1. /\ remaining[c] \in Nat \ {0} /\ Len(queue) \in Int
      /\ queue \in Seq(Item) /\ Len(queue) \in Nat
  BY LenProperties
     DEF IInv, TypeOK, ConsumerCalls, DequeueLock, DequeueWoken, Threads
<1>2. PICK n \in 1..remaining[c] : /\ RemoveOrWait(c, n)
                                   /\ n <= Len(queue) \/ n = 1
  <2>1. CASE DequeueLock(c)
    BY <1>1, <2>1, ChunkBounds DEF DequeueLock
  <2>2. CASE DequeueWoken(c)
    BY <1>1, <2>2 DEF DequeueWoken, IInv, ConsumerCalls
  <2> QED
    BY <2>1, <2>2
<1>3. \A p \in Producers : data'[p] = data[p]
  BY <1>2, ThreadAssumption DEF IInv, TypeOK, Threads, RemoveOrWait, Remove
<1>4. CanDequeue(n) /\ (is_running \/ queue # <<>>) => n \in 1..Len(queue)
  BY <1>1, <1>2, EmptySeq DEF CanDequeue
<1> QED
  BY <1>2, <1>3, <1>4 DEF RemoveOrWait, Remove

(* Every other step leaves the items alone.                                *)
LEMMA OtherSteps ==
  ASSUME [Next]_vars,
         ~ \E p \in Producers : EnqueueLock(p) \/ EnqueueWoken(p),
         ~ \E c \in Consumers : DequeueLock(c) \/ DequeueWoken(c)
  PROVE  UNCHANGED <<queue, taken>> /\ (is_running' => is_running)
  BY DEF Next, vars, Enqueue, BulkEnqueue, BeginEnqueue, ProducerStep,
         EnqueueNotify, EnqueueReturn, Dequeue, BulkDequeue, BeginDequeue,
         ConsumerStep, DequeueNotify, Stop, StopperStep, StopLock,
         StopNotifyItems, StopNotifyRoom, SpuriousWakeup

LEMMA ConcatPrefix ==
  ASSUME NEW S, NEW s \in Seq(S), NEW t \in Seq(S)
  PROVE  SubSeq(s \o t, 1, Len(s)) = s
<1>1. /\ s \o t \in Seq(S) /\ Len(s \o t) = Len(s) + Len(t)
      /\ \A i \in 1..Len(s) + Len(t) :
           (s \o t)[i] = IF i <= Len(s) THEN s[i] ELSE t[i - Len(s)]
      /\ Len(s) \in Nat /\ Len(t) \in Nat
  BY ConcatProperties, LenProperties
<1>2. \A i \in 1..Len(s) : (s \o t)[i] = s[i] /\ s[i] \in S
  BY <1>1, ElementOfSeq
<1>3. /\ SubSeq(s \o t, 1, Len(s)) \in Seq(S)
      /\ Len(SubSeq(s \o t, 1, Len(s))) = Len(s)
      /\ \A i \in 1..Len(s) : SubSeq(s \o t, 1, Len(s))[i] = (s \o t)[i]
  BY <1>1, <1>2, SubSeqProperties
<1> QED
  BY <1>2, <1>3, SeqEqual

(* RWQueue implements BoundedChannel.                                      *)
THEOREM Refinement == Spec => ImplementsChannel
<1>1. Init => Channel!Init
  BY DEF Init, Channel!Init
<1>2. IInv /\ IInv' /\ [Next]_vars => [Channel!Next]_(Channel!chanVars)
  <2> SUFFICES ASSUME IInv, IInv', [Next]_vars,
                      ~ UNCHANGED <<queue, is_running>>
               PROVE  Channel!Next
    BY DEF Channel!chanVars
  <2>0. queue \in Seq(Item) /\ queue' \in Seq(Item) /\ Len(queue) \in Nat
    BY LenProperties DEF IInv, TypeOK
  <2>1. ASSUME NEW p \in Producers, EnqueueLock(p) \/ EnqueueWoken(p)
        PROVE  Channel!Next
    <3>1. PICK n \in 1..Len(data[p]) : queue' = queue \o SubSeq(data[p], 1, n)
      BY <2>1, InsertEffect
    <3>2. data[p] \in Seq(Item)
      BY DEF IInv, TypeOK, Threads
    <3>3. SubSeq(data[p], 1, n) \in Seq(Item) /\ Len(SubSeq(data[p], 1, n)) = n
      BY <3>2, ChunkSplit
    <3>4. /\ SubSeq(queue', 1, Len(queue)) = queue
          /\ Len(queue') = Len(queue) + n
      BY <2>0, <3>1, <3>3, ConcatPrefix, ConcatProperties
    <3>5. Len(queue') <= Capacity
      BY DEF IInv, CapacityRespected
    <3>6. is_running /\ UNCHANGED is_running
      BY <2>1, InsertEffect
    <3>7. Len(queue') \in (Len(queue) + 1)..Capacity
      BY <2>0, <3>4, <3>5, BoundAssumption, LenProperties
    <3> QED
      BY <2>0, <3>4, <3>6, <3>7 DEF Channel!Next, Channel!Put
  <2>2. ASSUME NEW c \in Consumers, DequeueLock(c) \/ DequeueWoken(c)
        PROVE  Channel!Next
    BY <2>2, RemoveEffect DEF Channel!Next, Channel!Take
  <2>3. CASE /\ ~ \E p \in Producers : EnqueueLock(p) \/ EnqueueWoken(p)
             /\ ~ \E c \in Consumers : DequeueLock(c) \/ DequeueWoken(c)
    <3>1. UNCHANGED queue /\ is_running' = FALSE
      BY <2>3, OtherSteps DEF IInv, TypeOK
    <3> QED
      BY <3>1 DEF Channel!Next, Channel!Stop
  <2> QED
    BY <2>1, <2>2, <2>3
<1> QED
  BY <1>1, <1>2, Invariance, PTL DEF Spec, ImplementsChannel, Channel!Spec

-----------------------------------------------------------------------------
(* While the queue runs, a producer's items are split between the ones in  *)
(* Accepted and the ones still in the vector of its current call.          *)
Streams ==
  is_running => \A p \in Producers :
    /\ Len(data[p]) <= offered[p]
    /\ \A i \in 1..Len(data[p]) :
         data[p][i] = <<p, (offered[p] - Len(data[p])) + i>>
    /\ \A k \in Nat :
         Holds(Accepted, <<p, k>>) <=> k \in 1..(offered[p] - Len(data[p]))

StreamInv == Streams /\ NoLossNoReorder /\ TrueMeansAccepted

(* Appending a producer's next items behind its first base items keeps the *)
(* order, and adds exactly them.                                           *)
LEMMA AppendItems ==
  ASSUME NEW A \in Seq(Item), NEW ch \in Seq(Item), NEW p \in Producers,
         NEW base \in Nat,
         \A i \in 1..Len(ch) : ch[i] = <<p, base + i>>,
         \A k \in Nat : Holds(A, <<p, k>>) <=> k \in 1..base,
         OnceInOrder(A)
  PROVE  /\ OnceInOrder(A \o ch)
         /\ \A k \in Nat : Holds(A \o ch, <<p, k>>) <=> k \in 1..(base + Len(ch))
         /\ \A q \in Producers \ {p} : \A k \in Nat :
              Holds(A \o ch, <<q, k>>) <=> Holds(A, <<q, k>>)
<1> DEFINE B == A \o ch
<1>1. /\ Len(A) \in Nat /\ Len(ch) \in Nat /\ Len(B) = Len(A) + Len(ch)
      /\ \A i \in 1..Len(B) :
           B[i] = IF i <= Len(A) THEN A[i] ELSE ch[i - Len(A)]
  BY ConcatProperties, LenProperties
<1> HIDE DEF B
<1>2. \A i \in 1..Len(A) : i \in 1..Len(B) /\ B[i] = A[i]
  BY <1>1
<1>3. \A i \in 1..Len(ch) : Len(A) + i \in 1..Len(B) /\ B[Len(A) + i] = <<p, base + i>>
  <2> TAKE i \in 1..Len(ch)
  <2>1. /\ Len(A) + i \in 1..Len(B) /\ ~(Len(A) + i <= Len(A))
        /\ (Len(A) + i) - Len(A) = i
    BY <1>1
  <2> QED
    BY <1>1, <2>1
<1>4. \A i \in 1..Len(B) : \/ i \in 1..Len(A)
                           \/ \E j \in 1..Len(ch) : i = Len(A) + j
  <2> SUFFICES ASSUME NEW i \in 1..Len(B), i \notin 1..Len(A)
               PROVE  \E j \in 1..Len(ch) : i = Len(A) + j
    OBVIOUS
  <2>1. i - Len(A) \in 1..Len(ch) /\ i = Len(A) + (i - Len(A))
    BY <1>1
  <2> QED
    BY <2>1
<1>5. \A k \in Nat : Holds(B, <<p, k>>) <=> k \in 1..(base + Len(ch))
  <2> TAKE k \in Nat
  <2>1. ASSUME Holds(B, <<p, k>>) PROVE k \in 1..(base + Len(ch))
    <3>1. PICK i \in 1..Len(B) : B[i] = <<p, k>>
      BY <2>1 DEF Holds
    <3>2. CASE i \in 1..Len(A)
      <4>1. Holds(A, <<p, k>>)
        BY <1>2, <3>1, <3>2 DEF Holds
      <4> QED
        BY <1>1, <4>1
    <3>3. ASSUME NEW j \in 1..Len(ch), i = Len(A) + j
          PROVE  k \in 1..(base + Len(ch))
      <4>1. k = base + j
        BY <1>3, <3>1, <3>3
      <4> QED
        BY <1>1, <4>1
    <3> QED
      BY <1>4, <3>2, <3>3
  <2>2. ASSUME k \in 1..base PROVE Holds(B, <<p, k>>)
    BY <1>2, <2>2 DEF Holds
  <2>3. ASSUME k \in (base + 1)..(base + Len(ch)) PROVE Holds(B, <<p, k>>)
    <3>1. k - base \in 1..Len(ch) /\ base + (k - base) = k
      BY <1>1, <2>3
    <3> QED
      BY <1>3, <3>1 DEF Holds
  <2> QED
    BY <1>1, <2>1, <2>2, <2>3
<1>6. \A q \in Producers \ {p} : \A k \in Nat :
        Holds(B, <<q, k>>) <=> Holds(A, <<q, k>>)
  <2> TAKE q \in Producers \ {p}
  <2> TAKE k \in Nat
  <2>1. \A j \in 1..Len(ch) : B[Len(A) + j] # <<q, k>>
    BY <1>3
  <2> QED
    BY <1>2, <1>4, <2>1 DEF Holds
<1>7. ASSUME NEW i \in 1..Len(B), NEW j \in 1..Len(B), B[i] = B[j]
      PROVE  i = j
  <2>1. CASE i \in 1..Len(A) /\ j \in 1..Len(A)
    BY <1>2, <1>7, <2>1 DEF OnceInOrder
  <2>2. ASSUME NEW m \in 1..Len(A), NEW n \in 1..Len(ch), B[m] = B[Len(A) + n]
        PROVE  FALSE
    <3>1. A[m] = <<p, base + n>>
      BY <1>2, <1>3, <2>2
    <3>2. base + n \in Nat /\ base + n \notin 1..base
      BY <1>1
    <3> QED
      BY <3>1, <3>2 DEF Holds
  <2>3. ASSUME NEW m \in 1..Len(ch), NEW n \in 1..Len(ch),
               i = Len(A) + m, j = Len(A) + n
        PROVE  i = j
    <3>1. base + m = base + n
      BY <1>3, <1>7, <2>3
    <3> QED
      BY <1>1, <2>3, <3>1
  <2> QED
    BY <1>4, <1>7, <2>1, <2>2, <2>3
<1>8. ASSUME NEW i \in 1..Len(B), B[i][2] > 1
      PROVE  \E j \in 1..(i - 1) : B[j] = <<B[i][1], B[i][2] - 1>>
  <2>1. CASE i \in 1..Len(A)
    <3>1. PICK j \in 1..(i - 1) : A[j] = <<A[i][1], A[i][2] - 1>>
      BY <1>2, <1>8, <2>1 DEF OnceInOrder
    <3>2. j \in 1..Len(A)
      BY <1>1, <2>1, <3>1
    <3> QED
      BY <1>2, <2>1, <3>1, <3>2
  <2>2. ASSUME NEW m \in 1..Len(ch), i = Len(A) + m
        PROVE  \E j \in 1..(i - 1) : B[j] = <<B[i][1], B[i][2] - 1>>
    <3>1. B[i] = <<p, base + m>> /\ base + m > 1
      BY <1>3, <1>8, <2>2
    <3>2. CASE m = 1
      <4>1. base \in 1..base /\ (base + m) - 1 = base
        BY <3>1, <3>2
      <4>2. PICK j \in 1..Len(A) : A[j] = <<p, base>>
        BY <4>1 DEF Holds
      <4>3. j \in 1..(i - 1)
        BY <1>1, <2>2, <3>2
      <4>4. B[j] = <<p, base>> /\ <<B[i][1], B[i][2] - 1>> = <<p, base>>
        BY <1>2, <3>1, <4>1, <4>2
      <4> QED
        BY <4>3, <4>4
    <3>3. CASE m # 1
      <4>1. m - 1 \in 1..Len(ch) /\ Len(A) + (m - 1) \in 1..(i - 1)
        BY <1>1, <2>2, <3>3
      <4>2. base + (m - 1) = (base + m) - 1
        BY <1>1
      <4>3. B[Len(A) + (m - 1)] = <<p, base + (m - 1)>>
        BY <1>3, <4>1
      <4>4. <<B[i][1], B[i][2] - 1>> = <<p, (base + m) - 1>>
        BY <3>1
      <4> QED
        BY <4>1, <4>2, <4>3, <4>4
    <3> QED
      BY <3>2, <3>3
  <2> QED
    BY <1>4, <2>1, <2>2
<1>9. OnceInOrder(B)
  BY <1>7, <1>8 DEF OnceInOrder
<1> QED
  BY <1>5, <1>6, <1>9 DEF B

LEMMA InitStreams == Init => StreamInv
<1> SUFFICES ASSUME Init PROVE StreamInv
  OBVIOUS
<1>1. Accepted = <<>> /\ Len(Accepted) = 0
  BY EmptySeq, ConcatEmptySeq DEF Init, Accepted
<1>2. \A x : ~Holds(Accepted, x)
  BY <1>1 DEF Holds
<1>3. Streams
  <2> SUFFICES ASSUME NEW p \in Producers
               PROVE  /\ Len(data[p]) <= offered[p]
                      /\ \A i \in 1..Len(data[p]) :
                           data[p][i] = <<p, (offered[p] - Len(data[p])) + i>>
                      /\ \A k \in Nat : Holds(Accepted, <<p, k>>)
                                          <=> k \in 1..(offered[p] - Len(data[p]))
    BY DEF Streams
  <2>1. Len(data[p]) = 0 /\ offered[p] = 0
    BY EmptySeq DEF Init, Threads
  <2> QED
    BY <1>2, <2>1
<1>4. NoLossNoReorder
  BY <1>1 DEF NoLossNoReorder, OnceInOrder
<1>5. TrueMeansAccepted
  BY DEF TrueMeansAccepted, Init, Threads
<1> QED
  BY <1>3, <1>4, <1>5 DEF StreamInv

(* Moving a chunk from the queue to a consumer is not a change of what has *)
(* been accepted.                                                          *)
LEMMA RemoveKeepsAccepted ==
  ASSUME IInv, NEW c \in Consumers, DequeueLock(c) \/ DequeueWoken(c)
  PROVE  Accepted' = Accepted
<1>1. CASE UNCHANGED <<queue, taken>>
  BY <1>1 DEF Accepted
<1>2. ASSUME NEW n \in 1..Len(queue),
             taken' = taken \o SubSeq(queue, 1, n),
             queue' = SubSeq(queue, n + 1, Len(queue))
      PROVE  Accepted' = Accepted
  <2>1. queue \in Seq(Item) /\ taken \in Seq(Item)
    BY DEF IInv, TypeOK
  <2> DEFINE front == SubSeq(queue, 1, n)
             back == SubSeq(queue, n + 1, Len(queue))
  <2>2. front \in Seq(Item) /\ back \in Seq(Item) /\ front \o back = queue
    BY <2>1, ChunkSplit
  <2>3. Accepted' = (taken \o front) \o back
    BY <1>2 DEF Accepted
  <2> HIDE DEF front, back
  <2>4. \A t, u, v \in Seq(Item) : (t \o u) \o v = t \o (u \o v)
    BY ConcatAssociative, SMTT(20)
  <2>5. (taken \o front) \o back = taken \o (front \o back)
    BY <2>1, <2>2, <2>4, Zenon
  <2> QED
    BY <2>2, <2>3, <2>5 DEF Accepted
<1> QED
  BY <1>1, <1>2, RemoveEffect

(* A step that changes neither what has been accepted nor a running        *)
(* producer's vector keeps the stream invariant.                           *)
LEMMA QuietStep ==
  ASSUME StreamInv, Accepted' = Accepted, is_running' => is_running,
         \A p \in Producers :
           /\ is_running' => data'[p] = data[p] /\ offered'[p] = offered[p]
           /\ pc'[p] = "idle" /\ ret'[p] =>
                pc[p] = "idle" /\ ret[p] /\ offered'[p] = offered[p]
  PROVE  StreamInv'
<1>1. Streams'
  BY DEF StreamInv, Streams
<1>2. NoLossNoReorder'
  BY DEF StreamInv, NoLossNoReorder
<1>3. TrueMeansAccepted'
  BY DEF StreamInv, TrueMeansAccepted
<1> QED
  BY <1>1, <1>2, <1>3 DEF StreamInv

LEMMA NextStreams == IInv /\ StreamInv /\ [Next]_vars => StreamInv'
<1> SUFFICES ASSUME IInv, StreamInv, [Next]_vars PROVE StreamInv'
  OBVIOUS
<1> USE ThreadAssumption
<1>1. /\ pc \in [Threads -> PCs] /\ data \in [Threads -> Seq(Item)]
      /\ ret \in [Threads -> BOOLEAN] /\ offered \in [Producers -> Nat]
      /\ queue \in Seq(Item) /\ taken \in Seq(Item)
      /\ Producers \subseteq Threads
      /\ \A p \in Producers : p \notin Consumers /\ p \notin Stoppers
  BY DEF IInv, TypeOK, Threads
<1>2. ASSUME NEW p \in Producers, NEW n \in Nat \ {0}, BeginEnqueue(p, n)
      PROVE  StreamInv'
  <2>1. Accepted' = Accepted /\ is_running' = is_running
    BY <1>2 DEF BeginEnqueue, Accepted
  <2>2. /\ Len(data'[p]) = n /\ offered'[p] = offered[p] + n
        /\ \A i \in 1..n : data'[p][i] = <<p, offered[p] + i>>
    <3>1. data'[p] = [i \in 1..n |-> <<p, offered[p] + i>>]
      BY <1>1, <1>2 DEF BeginEnqueue
    <3>2. data'[p] \in Seq(Item)
      <4>1. \A i \in 1..n : <<p, offered[p] + i>> \in Item
        BY <1>1 DEF Item
      <4> QED
        BY <3>1, <4>1, IsASeq
    <3>3. Len(data'[p]) = n
      BY <3>1, <3>2, LenProperties
    <3> QED
      BY <1>1, <1>2, <3>1, <3>3 DEF BeginEnqueue
  <2>3. \A q \in Producers \ {p} : data'[q] = data[q] /\ offered'[q] = offered[q]
    BY <1>1, <1>2 DEF BeginEnqueue
  <2>4. is_running => Len(data[p]) = 0
    BY <1>2 DEF IInv, ProducerCalls, BeginEnqueue
  <2>5. Streams'
    <3> SUFFICES ASSUME is_running, NEW q \in Producers
                 PROVE  /\ Len(data'[q]) <= offered'[q]
                        /\ \A i \in 1..Len(data'[q]) :
                             data'[q][i] = <<q, (offered'[q] - Len(data'[q])) + i>>
                        /\ \A k \in Nat : Holds(Accepted', <<q, k>>)
                             <=> k \in 1..(offered'[q] - Len(data'[q]))
      BY <2>1 DEF Streams, Holds
    <3>1. CASE q = p
      <4>1. offered[p] \in Nat /\ (offered[p] + n) - n = offered[p]
            /\ offered[p] - 0 = offered[p]
        BY <1>1
      <4>2. \A k \in Nat : Holds(Accepted, <<p, k>>) <=> k \in 1..offered[p]
        BY <2>4, <4>1 DEF StreamInv, Streams
      <4> QED
        BY <2>1, <2>2, <3>1, <4>1, <4>2
    <3>2. CASE q # p
      BY <2>1, <2>3, <3>2 DEF StreamInv, Streams
    <3> QED
      BY <3>1, <3>2
  <2>6. TrueMeansAccepted'
    <3>1. pc'[p] = "lock" /\ \A q \in Producers \ {p} : pc'[q] = pc[q] /\ ret'[q] = ret[q]
      BY <1>1, <1>2 DEF BeginEnqueue
    <3> QED
      BY <2>1, <2>3, <3>1 DEF StreamInv, TrueMeansAccepted
  <2> QED
    BY <2>1, <2>5, <2>6 DEF StreamInv, NoLossNoReorder
<1>3. ASSUME NEW p \in Producers, EnqueueLock(p) \/ EnqueueWoken(p)
      PROVE  StreamInv'
  <2>1. CASE UNCHANGED <<queue, data>>
    <3>1. Accepted' = Accepted /\ UNCHANGED <<is_running, ret, offered, data>>
      BY <1>3, <2>1, InsertEffect DEF Accepted
    <3>2. \A q \in Producers : pc'[q] = "idle" => pc[q] = "idle"
      BY <1>1, <1>3, InsertEffect
    <3> QED
      BY <3>1, <3>2, QuietStep
  <2>2. ASSUME is_running, NEW n \in 1..Len(data[p]),
               queue' = queue \o SubSeq(data[p], 1, n),
               data' = [data EXCEPT ![p] = SubSeq(data[p], n + 1, Len(data[p]))]
        PROVE  StreamInv'
    <3> DEFINE chunk == SubSeq(data[p], 1, n)
               base == offered[p] - Len(data[p])
    <3>1. /\ data[p] \in Seq(Item) /\ Len(data[p]) \in Nat /\ offered[p] \in Nat
          /\ Len(data[p]) <= offered[p]
          /\ \A i \in 1..Len(data[p]) : data[p][i] = <<p, base + i>>
          /\ \A k \in Nat : Holds(Accepted, <<p, k>>) <=> k \in 1..base
      BY <1>1, <2>2, LenProperties DEF StreamInv, Streams
    <3>2. chunk \in Seq(Item) /\ Len(chunk) = n
      BY <3>1, ChunkSplit
    <3>3. \A i \in 1..Len(chunk) : chunk[i] = <<p, base + i>>
      <4>1. \A i \in 1..n : data[p][i] \in Item
        BY <3>1, ElementOfSeq
      <4>2. \A i \in 1..n : SubSeq(data[p], 1, n)[i] = data[p][i]
        BY <3>1, <4>1, SubSeqProperties
      <4> QED
        BY <3>1, <3>2, <4>2
    <3>4. base \in Nat /\ Accepted \in Seq(Item) /\ OnceInOrder(Accepted)
      BY <1>1, <3>1, ConcatProperties DEF StreamInv, NoLossNoReorder, Accepted
    <3>5. Accepted' = Accepted \o chunk
      <4>1. \A t, u, v \in Seq(Item) : (t \o u) \o v = t \o (u \o v)
        BY ConcatAssociative
      <4>2. taken' = taken
        BY <1>3, InsertEffect
      <4>3. (taken \o queue) \o chunk = taken \o (queue \o chunk)
        BY <1>1, <3>2, <4>1, ZenonT(60)
      <4> QED
        BY <2>2, <4>2, <4>3 DEF Accepted
    <3>6. /\ Len(data'[p]) = Len(data[p]) - n
          /\ \A i \in 1..Len(data'[p]) : data'[p][i] = data[p][n + i]
          /\ \A q \in Producers \ {p} : data'[q] = data[q]
      <4>1. data'[p] = SubSeq(data[p], n + 1, Len(data[p]))
        BY <1>1, <2>2
      <4>2. Len(data'[p]) = Len(data[p]) - n
        BY <3>1, <4>1, ChunkSplit
      <4>3. \A i \in (n + 1)..Len(data[p]) : data[p][i] \in Item
        BY <3>1, ElementOfSeq
      <4>4. \A i \in 1..(Len(data[p]) - (n + 1) + 1) :
              SubSeq(data[p], n + 1, Len(data[p]))[i] = data[p][(n + 1) + i - 1]
        BY <3>1, <4>3, SubSeqProperties
      <4>5. \A i \in 1..(Len(data[p]) - n) : (n + 1) + i - 1 = n + i
        BY <3>1
      <4>6. Len(data[p]) - (n + 1) + 1 = Len(data[p]) - n
        BY <3>1
      <4> QED
        BY <1>1, <2>2, <4>1, <4>2, <4>4, <4>5, <4>6
    <3> HIDE DEF chunk, base
    <3>7. /\ OnceInOrder(Accepted')
          /\ \A k \in Nat : Holds(Accepted', <<p, k>>) <=> k \in 1..(base + n)
          /\ \A q \in Producers \ {p} : \A k \in Nat :
               Holds(Accepted', <<q, k>>) <=> Holds(Accepted, <<q, k>>)
      BY <3>1, <3>2, <3>3, <3>4, <3>5, AppendItems
    <3>8. offered' = offered /\ is_running' = is_running /\ ret' = ret
      BY <1>3, InsertEffect
    <3>9. /\ offered[p] - (Len(data[p]) - n) = base + n
          /\ \A i \in Nat : base + (n + i) = (base + n) + i
          /\ Len(data[p]) - n <= offered[p]
          /\ \A i \in 1..(Len(data[p]) - n) : n + i \in 1..Len(data[p]) /\ i \in Nat
      BY <3>1, <3>4, SMTT(20) DEF base
    <3>10. Streams'
      <4> SUFFICES ASSUME NEW q \in Producers
                   PROVE  /\ Len(data'[q]) <= offered[q]
                          /\ \A i \in 1..Len(data'[q]) :
                               data'[q][i] = <<q, (offered[q] - Len(data'[q])) + i>>
                          /\ \A k \in Nat : Holds(Accepted', <<q, k>>)
                               <=> k \in 1..(offered[q] - Len(data'[q]))
        BY <3>8 DEF Streams, Holds
      <4>1. CASE q = p
        <5>1. \A i \in 1..Len(data'[p]) : data'[p][i] = <<p, (base + n) + i>>
          BY <3>1, <3>6, <3>9
        <5> QED
          BY <3>6, <3>7, <3>9, <4>1, <5>1
      <4>2. CASE q # p
        BY <2>2, <3>6, <3>7, <4>2 DEF StreamInv, Streams
      <4> QED
        BY <4>1, <4>2
    <3>11. TrueMeansAccepted'
      <4>1. \A q \in Producers : pc'[q] = "idle" => pc[q] = "idle" /\ q # p
        BY <1>1, <1>3, InsertEffect
      <4> QED
        BY <1>1, <3>7, <3>8, <4>1 DEF StreamInv, TrueMeansAccepted
    <3> QED
      BY <3>7, <3>10, <3>11 DEF StreamInv, NoLossNoReorder
  <2> QED
    BY <1>3, <2>1, <2>2, InsertEffect
<1>4. ASSUME NEW p \in Producers, EnqueueReturn(p)
      PROVE  StreamInv'
  <2>1. Accepted' = Accepted /\ is_running' = is_running /\ offered' = offered
    BY <1>4 DEF EnqueueReturn, Accepted
  <2>2. is_running => Len(data[p]) = 0 /\ data[p] = <<>>
    BY <1>1, <1>4, EmptySeq DEF IInv, ProducerCalls, EnqueueReturn
  <2>3. is_running => data' = data
    BY <1>1, <1>4, <2>2 DEF EnqueueReturn
  <2>4. Streams' /\ NoLossNoReorder'
    BY <2>1, <2>3 DEF StreamInv, Streams, NoLossNoReorder
  <2>5. is_running => \A k \in 1..offered[p] : Holds(Accepted, <<p, k>>)
    <3>1. offered[p] \in Nat /\ offered[p] - 0 = offered[p]
      BY <1>1
    <3> QED
      BY <2>2, <3>1 DEF StreamInv, Streams
  <2>6. /\ ret'[p] = is_running
        /\ \A q \in Producers \ {p} : pc'[q] = pc[q] /\ ret'[q] = ret[q]
    BY <1>1, <1>4 DEF EnqueueReturn
  <2>7. TrueMeansAccepted'
    BY <2>1, <2>5, <2>6 DEF StreamInv, TrueMeansAccepted
  <2> QED
    BY <2>4, <2>7 DEF StreamInv
<1>5. ASSUME NEW c \in Consumers, DequeueLock(c) \/ DequeueWoken(c)
      PROVE  StreamInv'
  <2>1. \A p \in Producers : pc'[p] = pc[p]
    BY <1>1, <1>5, RemoveEffect
  <2> QED
    BY <1>5, <2>1, RemoveEffect, RemoveKeepsAccepted, QuietStep
<1>6. ASSUME \/ \E p \in Producers : EnqueueNotify(p)
             \/ \E c \in Consumers : (\E n \in Nat : BeginDequeue(c, n)) \/ DequeueNotify(c)
             \/ \E s \in Stoppers : Stop(s) \/ StopperStep(s)
             \/ \E t \in Threads : SpuriousWakeup(t)
             \/ UNCHANGED vars
      PROVE  StreamInv'
  <2>1. Accepted' = Accepted /\ (is_running' => is_running) /\ offered' = offered
    BY <1>6 DEF Accepted, EnqueueNotify, BeginDequeue, DequeueNotify, Stop,
                StopperStep, StopLock, StopNotifyItems, StopNotifyRoom,
                SpuriousWakeup, vars
  <2>2. \A p \in Producers : data'[p] = data[p] /\ ret'[p] = ret[p]
    BY <1>1, <1>6 DEF EnqueueNotify, BeginDequeue, DequeueNotify, Stop,
                StopperStep, StopLock, StopNotifyItems, StopNotifyRoom,
                SpuriousWakeup, vars
  <2>3. \A p \in Producers : pc'[p] = "idle" => pc[p] = "idle"
    BY <1>1, <1>6, ZenonT(60) DEF EnqueueNotify, BeginDequeue, DequeueNotify, Stop,
                StopperStep, StopLock, StopNotifyItems, StopNotifyRoom,
                SpuriousWakeup, NotifyOne, NotifyAll, WaitingForItems,
                WaitingForRoom, vars
  <2> QED
    BY <2>1, <2>2, <2>3, QuietStep
<1>7. 1 \in Nat \ {0} /\ \A n \in 1..MaxBatch : n \in Nat \ {0}
  BY BoundAssumption
<1> QED
  BY <1>2, <1>3, <1>4, <1>5, <1>6, <1>7
     DEF Next, Enqueue, BulkEnqueue, ProducerStep, Dequeue, BulkDequeue, ConsumerStep

(* Nothing is lost, duplicated or reordered, whenever Stop comes.          *)
THEOREM Fifo == Spec => []NoLossNoReorder
<1>1. Spec => []StreamInv
  BY InitStreams, NextStreams, Invariance, PTL DEF Spec
<1> QED
  BY <1>1, PTL DEF StreamInv

(* A producer that is told true has all its items in the queue or beyond.  *)
THEOREM TrueIsAccepted == Spec => []TrueMeansAccepted
<1>1. Spec => []StreamInv
  BY InitStreams, NextStreams, Invariance, PTL DEF Spec
<1> QED
  BY <1>1, PTL DEF StreamInv
=============================================================================
