------------------------------ MODULE RWQueue ------------------------------
(***************************************************************************)
(* RWQueue<T> (src/misc/rwqueue.cpp): the blocking queue between the main  *)
(* thread and the MIDI renderer and image saver threads.                   *)
(*                                                                         *)
(* A critical section (from taking the mutex to releasing it, or to        *)
(* blocking in wait, which releases it) is one action, since no other      *)
(* thread can take the mutex meanwhile.  What happens outside the mutex is *)
(* a step of its own: the notify after the unlock, the unlocked read of    *)
(* is_running that is the return value, and the unlocked test in Stop.     *)
(*                                                                         *)
(* pc[t] of a thread t:  "idle"     not in a call of the queue             *)
(*                       "lock"     about to take the mutex                *)
(*                       "blocked"  in wait() of its condition variable    *)
(*                       "woken"    notified, about to retake the mutex    *)
(*                       "notify"   unlocked, about to notify the others   *)
(*                       "return"   about to evaluate the return value     *)
(*                       "stop_items", "stop_room"  about to notify_all    *)
(***************************************************************************)
EXTENDS Integers, Sequences, FiniteSets

CONSTANTS
  Producers, Consumers, Stoppers, \* the threads calling each side of the queue
  Capacity,                       \* capacity given to the constructor or Resize
  MaxBatch,                       \* bound: largest num_requested of a bulk call
  MaxItems                        \* bound: items a producer offers altogether

Threads == Producers \cup Consumers \cup Stoppers

ASSUME ThreadAssumption ==
  /\ Producers \cap Consumers = {}
  /\ Producers \cap Stoppers = {}
  /\ Consumers \cap Stoppers = {}

ASSUME BoundAssumption ==
  /\ Capacity \in Nat \ {0}      \* assert(capacity > 0) in Resize
  /\ MaxBatch \in Nat \ {0}
  /\ MaxItems \in Nat

VARIABLES
  queue,       \* the deque
  is_running,  \* the atomic flag; nothing ever sets it again once cleared
  pc,
  requested,   \* num_requested of the thread's current or last call
  remaining,   \* num_remaining of the thread's bulk loop
  num_items,   \* the chunk chosen on entry to the critical section
  data,        \* producer: items from source_start on; consumer: into_target
  ret,         \* value returned by the thread's last call
  offered,     \* history: items each producer has passed to its calls so far
  taken        \* history: every item removed from the queue, in order

vars == <<queue, is_running, pc, requested, remaining, num_items, data, ret,
          offered, taken>>

Item == Producers \X Nat   \* the k-th item a producer offers is <<p, k>>

PCs == {"idle", "lock", "blocked", "woken", "notify", "return",
        "stop_lock", "stop_items", "stop_room"}

TypeOK ==
  /\ queue \in Seq(Item)
  /\ is_running \in BOOLEAN
  /\ pc \in [Threads -> PCs]
  /\ requested \in [Threads -> Nat]
  /\ remaining \in [Threads -> Nat]
  /\ num_items \in [Threads -> Nat]
  /\ data \in [Threads -> Seq(Item)]
  /\ ret \in [Threads -> BOOLEAN]
  /\ offered \in [Producers -> Nat]
  /\ taken \in Seq(Item)

Init ==
  /\ queue = <<>>
  /\ is_running = TRUE
  /\ pc = [t \in Threads |-> "idle"]
  /\ requested = [t \in Threads |-> 0]
  /\ remaining = [t \in Threads |-> 0]
  /\ num_items = [t \in Threads |-> 0]
  /\ data = [t \in Threads |-> <<>>]
  /\ ret = [t \in Threads |-> FALSE]
  /\ offered = [p \in Producers |-> 0]
  /\ taken = <<>>

-----------------------------------------------------------------------------
(* The condition variables: producers wait on has_room, consumers on       *)
(* has_items.                                                              *)

WaitingForRoom  == {p \in Producers : pc[p] = "blocked"}
WaitingForItems == {c \in Consumers : pc[c] = "blocked"}

(* Thread t goes on at pc value next after notify_one, which wakes any one *)
(* of the waiters and is forgotten when there are none.                    *)
NotifyOne(waiters, t, next) ==
  \/ waiters = {} /\ pc' = [pc EXCEPT ![t] = next]
  \/ \E w \in waiters : pc' = [pc EXCEPT ![t] = next, ![w] = "woken"]

NotifyAll(waiters, t, next) ==
  pc' = [u \in Threads |-> IF u = t THEN next
                           ELSE IF u \in waiters THEN "woken" ELSE pc[u]]

(* A wait may also end without any notification.                           *)
SpuriousWakeup(t) ==
  /\ pc[t] = "blocked"
  /\ pc' = [pc EXCEPT ![t] = "woken"]
  /\ UNCHANGED <<queue, is_running, requested, remaining, num_items, data, ret,
                 offered, taken>>

(* std::max(min_items, std::min(num_remaining, available))                 *)
Chunk(left, available) ==
  IF left <= available THEN left ELSE IF available >= 1 THEN available ELSE 1

-----------------------------------------------------------------------------
(* Enqueue and BulkEnqueue.  Enqueue is the loop of BulkEnqueue gone round *)
(* once with one item.                                                     *)

BeginEnqueue(p, n) ==
  /\ pc[p] = "idle"
  /\ offered[p] + n <= MaxItems
  /\ data' = [data EXCEPT ![p] = [i \in 1..n |-> <<p, offered[p] + i>>]]
  /\ offered' = [offered EXCEPT ![p] = @ + n]
  /\ requested' = [requested EXCEPT ![p] = n]
  /\ remaining' = [remaining EXCEPT ![p] = n]
  /\ pc' = [pc EXCEPT ![p] = "lock"]
  /\ UNCHANGED <<queue, is_running, num_items, ret, taken>>

Enqueue(p) == BeginEnqueue(p, 1)
BulkEnqueue(p) == \E n \in 1..MaxBatch : BeginEnqueue(p, n)

(* The predicate of has_room.wait for a chunk of n items.                  *)
CanEnqueue(n) == ~is_running \/ Capacity - Len(queue) >= n

(* Mutant: source_start is not advanced past the chunk.                    *)
InsertSameChunk(p, n) ==
  \/ /\ is_running
     /\ queue' = queue \o SubSeq(data[p], 1, n)
     /\ remaining' = [remaining EXCEPT ![p] = @ - n]
     /\ UNCHANGED data
  \/ /\ ~is_running
     /\ remaining' = [remaining EXCEPT ![p] = 0]
     /\ UNCHANGED <<queue, data>>

(* Mutant: is_running is not tested again after the wait.                  *)
InsertAfterStop(p, n) ==
  /\ queue' = queue \o SubSeq(data[p], 1, n)
  /\ data' = [data EXCEPT ![p] = SubSeq(@, n + 1, Len(@))]
  /\ remaining' = [remaining EXCEPT ![p] = @ - n]

(* The rest of the critical section once the predicate holds.              *)
Insert(p, n) ==
  \/ /\ is_running
     /\ queue' = queue \o SubSeq(data[p], 1, n)
     /\ data' = [data EXCEPT ![p] = SubSeq(@, n + 1, Len(@))]
     /\ remaining' = [remaining EXCEPT ![p] = @ - n]
  \/ /\ ~is_running
     /\ remaining' = [remaining EXCEPT ![p] = 0]
     /\ UNCHANGED <<queue, data>>

InsertOrWait(p, n) ==
  /\ num_items' = [num_items EXCEPT ![p] = n]
  /\ \/ /\ CanEnqueue(n)
        /\ Insert(p, n)
        /\ pc' = [pc EXCEPT ![p] = "notify"]
     \/ /\ ~CanEnqueue(n)
        /\ pc' = [pc EXCEPT ![p] = "blocked"]
        /\ UNCHANGED <<queue, remaining, data>>
  /\ UNCHANGED <<is_running, requested, ret, offered, taken>>

EnqueueLock(p) ==
  /\ pc[p] = "lock"
  /\ InsertOrWait(p, Chunk(remaining[p], Capacity - Len(queue)))

EnqueueWoken(p) ==
  /\ pc[p] = "woken"
  /\ InsertOrWait(p, num_items[p])

(* Mutant: the consumers are not notified.                                 *)
EnqueueNoNotify(p) ==
  /\ pc[p] = "notify"
  /\ pc' = [pc EXCEPT ![p] = IF remaining[p] > 0 THEN "lock" ELSE "return"]
  /\ UNCHANGED <<queue, is_running, requested, remaining, num_items, data, ret,
                 offered, taken>>

(* lock.unlock(); has_items.notify_one(); and round the loop or out of it. *)
EnqueueNotify(p) ==
  /\ pc[p] = "notify"
  /\ NotifyOne(WaitingForItems, p, IF remaining[p] > 0 THEN "lock" ELSE "return")
  /\ UNCHANGED <<queue, is_running, requested, remaining, num_items, data, ret,
                 offered, taken>>

(* Mutant: every call claims success.                                      *)
EnqueueReturnTrue(p) ==
  /\ pc[p] = "return"
  /\ ret' = [ret EXCEPT ![p] = TRUE]
  /\ data' = [data EXCEPT ![p] = <<>>]
  /\ pc' = [pc EXCEPT ![p] = "idle"]
  /\ UNCHANGED <<queue, is_running, requested, remaining, num_items, offered, taken>>

(* from_source.clear(); return is_running;                                 *)
EnqueueReturn(p) ==
  /\ pc[p] = "return"
  /\ ret' = [ret EXCEPT ![p] = is_running]
  /\ data' = [data EXCEPT ![p] = <<>>]
  /\ pc' = [pc EXCEPT ![p] = "idle"]
  /\ UNCHANGED <<queue, is_running, requested, remaining, num_items, offered, taken>>

-----------------------------------------------------------------------------
(* Dequeue and BulkDequeue.  Dequeue is the loop of BulkDequeue gone round *)
(* once for one item; its std::optional has a value where the target has   *)
(* an item.                                                                *)

BeginDequeue(c, n) ==
  /\ pc[c] = "idle"
  /\ requested' = [requested EXCEPT ![c] = n]
  /\ remaining' = [remaining EXCEPT ![c] = n]
  /\ data' = [data EXCEPT ![c] = <<>>]
  /\ pc' = [pc EXCEPT ![c] = "lock"]
  /\ UNCHANGED <<queue, is_running, num_items, ret, offered, taken>>

Dequeue(c) == BeginDequeue(c, 1)
BulkDequeue(c) == \E n \in 1..MaxBatch : BeginDequeue(c, n)

(* The predicate of has_items.wait for a chunk of n items.                 *)
CanDequeue(n) == ~is_running \/ Len(queue) >= n

(* Mutant: a stopped queue is not drained.                                 *)
RemoveOnlyWhileRunning(c, n) ==
  \/ /\ is_running
     /\ data' = [data EXCEPT ![c] = @ \o SubSeq(queue, 1, n)]
     /\ taken' = taken \o SubSeq(queue, 1, n)
     /\ queue' = SubSeq(queue, n + 1, Len(queue))
     /\ remaining' = [remaining EXCEPT ![c] = @ - n]
  \/ /\ ~is_running
     /\ remaining' = [remaining EXCEPT ![c] = 0]
     /\ UNCHANGED <<queue, data, taken>>

(* The rest of the critical section: a stopped queue is still drained.     *)
Remove(c, n) ==
  \/ /\ is_running \/ queue # <<>>
     /\ data' = [data EXCEPT ![c] = @ \o SubSeq(queue, 1, n)]
     /\ taken' = taken \o SubSeq(queue, 1, n)
     /\ queue' = SubSeq(queue, n + 1, Len(queue))
     /\ remaining' = [remaining EXCEPT ![c] = @ - n]
  \/ /\ ~is_running /\ queue = <<>>
     /\ remaining' = [remaining EXCEPT ![c] = 0]
     /\ UNCHANGED <<queue, data, taken>>

RemoveOrWait(c, n) ==
  /\ num_items' = [num_items EXCEPT ![c] = n]
  /\ \/ /\ CanDequeue(n)
        /\ Remove(c, n)
        /\ pc' = [pc EXCEPT ![c] = "notify"]
     \/ /\ ~CanDequeue(n)
        /\ pc' = [pc EXCEPT ![c] = "blocked"]
        /\ UNCHANGED <<queue, remaining, data, taken>>
  /\ UNCHANGED <<is_running, requested, ret, offered>>

(* Mutant: the chunk is not limited to what was asked for.                 *)
DequeueLockWhole(c) ==
  /\ pc[c] = "lock"
  /\ RemoveOrWait(c, IF queue = <<>> THEN 1 ELSE Len(queue))

DequeueLock(c) ==
  /\ pc[c] = "lock"
  /\ RemoveOrWait(c, Chunk(remaining[c], Len(queue)))

DequeueWoken(c) ==
  /\ pc[c] = "woken"
  /\ RemoveOrWait(c, num_items[c])

(* Mutant: the producers are not notified.                                 *)
DequeueNoNotify(c) ==
  /\ pc[c] = "notify"
  /\ pc' = [pc EXCEPT ![c] = IF remaining[c] > 0 THEN "lock" ELSE "idle"]
  /\ ret' = [ret EXCEPT ![c] = IF remaining[c] > 0 THEN @ ELSE data[c] # <<>>]
  /\ UNCHANGED <<queue, is_running, requested, remaining, num_items, data,
                 offered, taken>>

(* lock.unlock(); has_room.notify_one(); and round the loop or out of it.  *)
DequeueNotify(c) ==
  /\ pc[c] = "notify"
  /\ NotifyOne(WaitingForRoom, c, IF remaining[c] > 0 THEN "lock" ELSE "idle")
  /\ ret' = [ret EXCEPT ![c] = IF remaining[c] > 0 THEN @ ELSE data[c] # <<>>]
  /\ UNCHANGED <<queue, is_running, requested, remaining, num_items, data,
                 offered, taken>>

-----------------------------------------------------------------------------
(* Stop.  A call that finds is_running already clear returns at once.      *)

Stop(s) ==
  /\ pc[s] = "idle"
  /\ is_running
  /\ pc' = [pc EXCEPT ![s] = "stop_lock"]
  /\ UNCHANGED <<queue, is_running, requested, remaining, num_items, data, ret,
                 offered, taken>>

StopLock(s) ==
  /\ pc[s] = "stop_lock"
  /\ is_running' = FALSE
  /\ pc' = [pc EXCEPT ![s] = "stop_items"]
  /\ UNCHANGED <<queue, requested, remaining, num_items, data, ret, offered, taken>>

StopNotifyItems(s) ==
  /\ pc[s] = "stop_items"
  /\ NotifyAll(WaitingForItems, s, "stop_room")
  /\ UNCHANGED <<queue, is_running, requested, remaining, num_items, data, ret,
                 offered, taken>>

(* Mutant: blocked producers are forgotten.                                *)
StopNoNotifyRoom(s) ==
  /\ pc[s] = "stop_room"
  /\ pc' = [pc EXCEPT ![s] = "idle"]
  /\ UNCHANGED <<queue, is_running, requested, remaining, num_items, data, ret,
                 offered, taken>>

StopNotifyRoom(s) ==
  /\ pc[s] = "stop_room"
  /\ NotifyAll(WaitingForRoom, s, "idle")
  /\ UNCHANGED <<queue, is_running, requested, remaining, num_items, data, ret,
                 offered, taken>>

-----------------------------------------------------------------------------
ProducerStep(p) ==
  EnqueueLock(p) \/ EnqueueWoken(p) \/ EnqueueNotify(p) \/ EnqueueReturn(p)

ConsumerStep(c) == DequeueLock(c) \/ DequeueWoken(c) \/ DequeueNotify(c)

StopperStep(s) == StopLock(s) \/ StopNotifyItems(s) \/ StopNotifyRoom(s)

Next ==
  \/ \E p \in Producers : Enqueue(p) \/ BulkEnqueue(p) \/ ProducerStep(p)
  \/ \E c \in Consumers : Dequeue(c) \/ BulkDequeue(c) \/ ConsumerStep(c)
  \/ \E s \in Stoppers : Stop(s) \/ StopperStep(s)
  \/ \E t \in Threads : SpuriousWakeup(t)

Spec == Init /\ [][Next]_vars

(* The scheduler runs every thread that is inside a call and not blocked;  *)
(* nothing says that a caller ever calls again, or that a wait ever ends   *)
(* by itself.                                                              *)
Fairness ==
  /\ \A p \in Producers : WF_vars(ProducerStep(p))
  /\ \A c \in Consumers : WF_vars(ConsumerStep(c))
  /\ \A s \in Stoppers : WF_vars(StopperStep(s))

FairSpec == Spec /\ Fairness

-----------------------------------------------------------------------------
(* Everything the queue ever accepted, in the order it was accepted.       *)
Accepted == taken \o queue

(* No chunk, whatever the free space was when it was computed and whatever *)
(* happened before a blocked producer was woken, overfills the queue.      *)
CapacityRespected == Len(queue) <= Capacity

(* Item x is somewhere in sequence s.                                      *)
Holds(s, x) == \E i \in 1..Len(s) : s[i] = x

(* No item occurs twice in s, and every item but a producer's first comes  *)
(* somewhere after the item its producer offered before it.                *)
OnceInOrder(s) ==
  /\ \A i, j \in 1..Len(s) : s[i] = s[j] => i = j
  /\ \A i \in 1..Len(s) :
       s[i][2] > 1 => \E j \in 1..(i - 1) : s[j] = <<s[i][1], s[i][2] - 1>>

(* Each producer's items enter the queue once, in order and without a gap, *)
(* also when Stop falls between two chunks of a BulkEnqueue: a stop cuts   *)
(* each producer's stream at one point and nothing behind it gets in.      *)
NoLossNoReorder == OnceInOrder(Accepted)

(* A call that returned true put its whole batch into the queue (the       *)
(* converse does not hold: is_running is read after the unlock).           *)
TrueMeansAccepted ==
  \A p \in Producers : (pc[p] = "idle" /\ ret[p]) =>
    \A k \in 1..offered[p] : Holds(Accepted, <<p, k>>)

(* A dequeue call comes back with less than it was asked for only from a   *)
(* queue that is stopped and has been drained to the last item.            *)
ShortOnlyWhenDrained ==
  \A c \in Consumers : (pc[c] = "idle" /\ Len(data[c]) < requested[c]) =>
    ~is_running /\ queue = <<>>

(* A consumer in has_items.wait whose condition holds has a notification   *)
(* on its way, so it cannot sleep on an item or through a stop.            *)
NoStrandedConsumer ==
  \A c \in Consumers : pc[c] = "blocked" =>
    /\ queue # <<>> => \E p \in Producers : pc[p] = "notify"
    /\ ~is_running => \E s \in Stoppers : pc[s] = "stop_items"

(* The same for a producer in has_room.wait.                               *)
NoStrandedProducer ==
  \A p \in Producers : pc[p] = "blocked" =>
    /\ Len(queue) < Capacity => \E c \in Consumers : pc[c] = "notify"
    /\ ~is_running => \E s \in Stoppers : pc[s] \in {"stop_items", "stop_room"}

(* RWQueue is a BoundedChannel: chunks are appended only while it runs and *)
(* only up to the capacity, removed only from the front, and once it has   *)
(* been stopped and drained it stays that way.                             *)
Channel == INSTANCE BoundedChannel WITH chan <- queue, open <- is_running
ImplementsChannel == Channel!Spec

(* Once the queue is stopped every call returns, whoever was blocked in it.*)
CallsReturnAfterStop ==
  \A t \in Threads : (~is_running /\ pc[t] # "idle") ~> (pc[t] = "idle")

(* A thread blocked in has_items.wait is woken when items are there, one   *)
(* blocked in has_room.wait when there is room.                            *)
BlockedAreServed ==
  /\ \A c \in Consumers :
       (pc[c] = "blocked" /\ queue # <<>>) ~> (pc[c] # "blocked" \/ queue = <<>>)
  /\ \A p \in Producers :
       (pc[p] = "blocked" /\ Len(queue) < Capacity)
         ~> (pc[p] # "blocked" \/ Len(queue) = Capacity)
=============================================================================
