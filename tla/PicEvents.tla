----------------------------- MODULE PicEvents -----------------------------
(***************************************************************************)
(* The event queue of src/hardware/pic.cpp and the emulated clock that     *)
(* drives it: PIC_AddEvent, PIC_RemoveEvents, PIC_RemoveSpecificEvents,    *)
(* PIC_RunQueue, TIMER_AddTick, and the main loop Normal_Loop of           *)
(* src/dosbox.cpp that runs them in turn with the CPU core.                *)
(*                                                                         *)
(* One millisecond ("tick") is CycleMax CPU cycles.  The code keeps the    *)
(* due time of an event, its index, as a fraction of the current tick in   *)
(* floating point; here it is an integer number of units, UnitsPerCycle of *)
(* them to a cycle, so that an event can fall inside a cycle and the       *)
(* conversions to whole cycles round as the code's do.  The linked list of *)
(* entries is a sequence; the free list is its length.                     *)
(*                                                                         *)
(* Everything runs in one thread.  phase says who has control:             *)
(*   "loop"     Normal_Loop is about to call PIC_RunQueue;                 *)
(*   "service"  PIC_RunQueue is between two events;                        *)
(*   "handler"  PIC_RunQueue is in the handler of an event;                *)
(*   "enter"    the CPU core starts on the cycles it was given;            *)
(*   "cpu"      the CPU core is in an instruction;                         *)
(*   "host"     the tick is over and host events are handled;              *)
(*   "tick"     TIMER_AddTick is in its tick handlers.                     *)
(***************************************************************************)
EXTENDS Integers, Sequences

CONSTANTS
  Events,         \* the <<handler, value>> pairs in use
  Delays,         \* the delays events are added with, in units
  QueueSize,      \* PIC_QUEUESIZE
  CycleMax,       \* CPU_CycleMax
  UnitsPerCycle,
  Overrun,        \* how far below zero one instruction takes CPU_Cycles
  MaxBoosts,      \* bound: interrupts raised by one run of the CPU core
  TickModulus     \* bound: PIC_Ticks wraps after so many ticks

ASSUME EventAssumption ==
  /\ Delays \subseteq Nat
  /\ QueueSize \in Nat \ {0}
  /\ CycleMax \in Nat \ {0}
  /\ UnitsPerCycle \in Nat \ {0}
  /\ Overrun \in Nat /\ MaxBoosts \in Nat
  /\ TickModulus \in Nat \ {0, 1}

VARIABLES
  phase,
  queue,          \* pic_queue.next_entry and what follows it
  free,           \* the number of entries behind pic_queue.free_entry
  current,        \* the entry being served, <<>> if none; its index is srv_lag
  CPU_CycleLeft,
  CPU_Cycles,
  boosts,         \* interrupts raised since the CPU core was entered
  PIC_Ticks

vars == <<phase, queue, free, current, CPU_CycleLeft, CPU_Cycles, boosts, PIC_Ticks>>

UnitsPerTick == CycleMax * UnitsPerCycle
NoEvent == <<>>

Entry == [event : Events, index : Int, due : Nat]

TypeOK ==
  /\ phase \in {"loop", "service", "handler", "enter", "cpu", "host", "tick"}
  /\ queue \in Seq(Entry)
  /\ free \in 0..QueueSize
  /\ current \in Entry \cup {NoEvent}
  /\ CPU_CycleLeft \in Int /\ CPU_Cycles \in Int
  /\ boosts \in 0..MaxBoosts
  /\ PIC_Ticks \in 0..TickModulus - 1

-----------------------------------------------------------------------------
(* The cycles of this tick that have been given out and run.               *)
PIC_TickIndexND == CycleMax - CPU_CycleLeft - CPU_Cycles

TickIndex == PIC_TickIndexND * UnitsPerCycle

(* The conversion to whole cycles rounds towards zero.                     *)
ToCycles(units) ==
  IF units >= 0 THEN units \div UnitsPerCycle ELSE -((-units) \div UnitsPerCycle)

(* The time on the wall of the emulated machine, as events keep it.        *)
Instant(index) == (index + PIC_Ticks * UnitsPerTick) % (TickModulus * UnitsPerTick)

(* Mutant: an entry goes before those that are due at the same time.       *)
BehindOrEqual(index) == {i \in DOMAIN queue : queue[i].index >= index}

(* Where AddEntry puts an entry: before the first that is due later.       *)
Behind(index) == {i \in DOMAIN queue : queue[i].index > index}

(* Mutant: the first entry is never passed.                                *)
InsertAfterFirst(e) ==
  IF queue = <<>> THEN <<e>> ELSE <<queue[1]>> \o <<e>> \o Tail(queue)

Insert(e) ==
  LET n == IF Behind(e.index) = {} THEN Len(queue)
           ELSE (CHOOSE i \in Behind(e.index) : \A j \in Behind(e.index) : i <= j) - 1
  IN SubSeq(queue, 1, n) \o <<e>> \o SubSeq(queue, n + 1, Len(queue))

(* AddEntry stops the CPU core if the first event is now due before the    *)
(* cycles it was given run out.                                            *)
AddEntry(e) ==
  /\ queue' = Insert(e)
  /\ IF ToCycles(queue'[1].index - TickIndex) < CPU_Cycles
     THEN /\ CPU_CycleLeft' = CPU_CycleLeft + CPU_Cycles
          /\ CPU_Cycles' = 0
     ELSE UNCHANGED <<CPU_CycleLeft, CPU_Cycles>>

(* Mutant: a handler's delay counts from now, not from when it was due.    *)
EventIndexNow(delay) == delay + TickIndex

(* Inside an event handler a delay counts from when that event was due.    *)
EventIndex(delay) ==
  delay + IF phase = "handler" THEN current.index ELSE TickIndex

-----------------------------------------------------------------------------
Init ==
  /\ phase = "loop"
  /\ queue = <<>>
  /\ free = QueueSize
  /\ current = NoEvent
  /\ CPU_CycleLeft = CycleMax
  /\ CPU_Cycles = 0
  /\ boosts = 0
  /\ PIC_Ticks = 0

(* Who may call the queue: event handlers, devices written to by the CPU,  *)
(* host events, tick handlers.                                             *)
Callers == {"handler", "cpu", "host", "tick"}

(* A full queue drops the event.  A handler that adds an event with no     *)
(* delay would keep PIC_RunQueue from ending; none does.                   *)
PIC_AddEvent(ev, delay) ==
  /\ phase \in Callers
  /\ phase = "handler" => delay > 0
  /\ IF free = 0
     THEN UNCHANGED vars
     ELSE LET index == EventIndex(delay)
          IN /\ free' = free - 1
             /\ AddEntry([event |-> ev, index |-> index, due |-> Instant(index)])
             /\ UNCHANGED <<phase, current, boosts, PIC_Ticks>>

(* What the walk along the list leaves of it: left[i] of the first i       *)
(* entries.                                                                *)
Without(evs) ==
  LET left[i \in 0..Len(queue)] ==
        IF i = 0 THEN <<>>
        ELSE IF queue[i].event \in evs THEN left[i - 1]
        ELSE Append(left[i - 1], queue[i])
  IN left[Len(queue)]

(* Both removals unlink the entries one by one into the free list.         *)
Remove(evs) ==
  /\ phase \in Callers
  /\ queue' = Without(evs)
  /\ free' = free + Len(queue) - Len(queue')
  /\ UNCHANGED <<phase, current, CPU_CycleLeft, CPU_Cycles, boosts, PIC_Ticks>>

PIC_RemoveSpecificEvents(ev) == Remove({ev})

PIC_RemoveEvents(handler) == Remove({ev \in Events : ev[1] = handler})

-----------------------------------------------------------------------------
(* Mutant: the cycles the CPU core was given count as run.                 *)
BeginRunQueueDrop ==
  /\ phase = "loop"
  /\ CPU_Cycles' = 0
  /\ phase' = IF CPU_CycleLeft <= 0 THEN "host" ELSE "service"
  /\ UNCHANGED <<queue, free, current, CPU_CycleLeft, boosts, PIC_Ticks>>

(* PIC_RunQueue: the CPU core gives back what it did not use; false if     *)
(* that ends the tick.                                                     *)
BeginRunQueue ==
  /\ phase = "loop"
  /\ CPU_CycleLeft' = CPU_CycleLeft + CPU_Cycles
  /\ CPU_Cycles' = 0
  /\ phase' = IF CPU_CycleLeft' <= 0 THEN "host" ELSE "service"
  /\ UNCHANGED <<queue, free, current, boosts, PIC_Ticks>>

(* The next event is due.                                                  *)
Due == queue # <<>> /\ queue[1].index <= TickIndex

CallHandler ==
  /\ phase = "service" /\ Due
  /\ phase' = "handler"
  /\ current' = Head(queue)
  /\ queue' = Tail(queue)
  /\ UNCHANGED <<free, CPU_CycleLeft, CPU_Cycles, boosts, PIC_Ticks>>

(* Mutant: the entry is not put back into the free list.                   *)
HandlerReturnsLeak ==
  /\ phase = "handler"
  /\ phase' = "service"
  /\ current' = NoEvent
  /\ UNCHANGED <<queue, free, CPU_CycleLeft, CPU_Cycles, boosts, PIC_Ticks>>

HandlerReturns ==
  /\ phase = "handler"
  /\ phase' = "service"
  /\ current' = NoEvent
  /\ free' = free + 1
  /\ UNCHANGED <<queue, CPU_CycleLeft, CPU_Cycles, boosts, PIC_Ticks>>

(* Mutant: the rest of the tick is given out whatever is queued.           *)
CyclesToNextAll == CPU_CycleLeft

(* Mutant: no cycle is given out for an event within a cycle.              *)
CyclesToNextZero ==
  IF queue = <<>> THEN CPU_CycleLeft
  ELSE LET cycles == ToCycles(queue[1].index - TickIndex)
       IN IF cycles < CPU_CycleLeft THEN cycles ELSE CPU_CycleLeft

(* The cycles the CPU core may run: up to the next event, at least one.    *)
CyclesToNext ==
  IF queue = <<>> THEN CPU_CycleLeft
  ELSE LET cycles == ToCycles(queue[1].index - TickIndex)
           some == IF cycles = 0 THEN 1 ELSE cycles
       IN IF some < CPU_CycleLeft THEN some ELSE CPU_CycleLeft

EndRunQueue ==
  /\ phase = "service" /\ ~Due
  /\ phase' = "enter"
  /\ CPU_Cycles' = CyclesToNext
  /\ CPU_CycleLeft' = CPU_CycleLeft - CPU_Cycles'
  /\ boosts' = 0
  /\ UNCHANGED <<queue, free, current, PIC_Ticks>>

(* The CPU core: every instruction takes a cycle or more, and the last one *)
(* may take more than there are.                                           *)
Execute(n) ==
  /\ phase \in {"enter", "cpu"}
  /\ CPU_Cycles > 0
  /\ CPU_Cycles - n >= -Overrun
  /\ CPU_Cycles' = CPU_Cycles - n
  /\ phase' = "cpu"
  /\ UNCHANGED <<queue, free, current, CPU_CycleLeft, boosts, PIC_Ticks>>

(* It returns when its cycles are used up, or before for a callback; at    *)
(* once if it was given none.                                              *)
LeaveCpu ==
  /\ phase = "cpu" \/ (phase = "enter" /\ CPU_Cycles <= 0)
  /\ phase' = "loop"
  /\ UNCHANGED <<queue, free, current, CPU_CycleLeft, CPU_Cycles, boosts, PIC_Ticks>>

(* PIC_ActivateIRQ from an I/O instruction, with the interrupt ready:      *)
(* activate() takes the CPU's cycles away and the caller gives it two.     *)
ActivateIRQ ==
  /\ phase = "cpu"
  /\ CPU_Cycles # 0
  /\ boosts < MaxBoosts
  /\ boosts' = boosts + 1
  /\ CPU_CycleLeft' = CPU_CycleLeft + CPU_Cycles - 2
  /\ CPU_Cycles' = 2
  /\ UNCHANGED <<phase, queue, free, current, PIC_Ticks>>

(* Mutant: the events keep their index in the new tick.                    *)
TIMER_AddTickNoShift ==
  /\ phase = "host"
  /\ phase' = "tick"
  /\ CPU_CycleLeft' = CycleMax
  /\ CPU_Cycles' = 0
  /\ PIC_Ticks' = (PIC_Ticks + 1) % TickModulus
  /\ UNCHANGED <<queue, free, current, boosts>>

TIMER_AddTick ==
  /\ phase = "host"
  /\ phase' = "tick"
  /\ CPU_CycleLeft' = CycleMax
  /\ CPU_Cycles' = 0
  /\ PIC_Ticks' = (PIC_Ticks + 1) % TickModulus
  /\ queue' = [i \in DOMAIN queue |-> [queue[i] EXCEPT !.index = @ - UnitsPerTick]]
  /\ UNCHANGED <<free, current, boosts>>

TickHandlersReturn ==
  /\ phase = "tick"
  /\ phase' = "loop"
  /\ UNCHANGED <<queue, free, current, CPU_CycleLeft, CPU_Cycles, boosts, PIC_Ticks>>

Calls ==
  \/ \E ev \in Events, delay \in Delays : PIC_AddEvent(ev, delay)
  \/ \E ev \in Events : PIC_RemoveSpecificEvents(ev) \/ PIC_RemoveEvents(ev[1])

Loop ==
  \/ BeginRunQueue \/ CallHandler \/ HandlerReturns \/ EndRunQueue
  \/ LeaveCpu \/ TIMER_AddTick \/ TickHandlersReturn
  \/ \E n \in 1..CycleMax + Overrun : Execute(n)

Next == Calls \/ Loop \/ ActivateIRQ

Spec == Init /\ [][Next]_vars

(* The main loop goes round: handlers and instructions end.                *)
FairSpec ==
  /\ Spec
  /\ WF_vars(BeginRunQueue) /\ WF_vars(CallHandler) /\ WF_vars(HandlerReturns)
  /\ WF_vars(EndRunQueue) /\ WF_vars(LeaveCpu)
  /\ WF_vars(TIMER_AddTick) /\ WF_vars(TickHandlersReturn)
  /\ WF_vars(phase = "enter" /\ \E n \in 1..CycleMax + Overrun : Execute(n))

-----------------------------------------------------------------------------
(* Every entry is queued, free or being served: none leaks however events  *)
(* are added, removed, dropped and served, so that the queue fills up only *)
(* with live events.                                                       *)
EntriesConserved ==
  /\ TypeOK
  /\ free + Len(queue) + (IF current = NoEvent THEN 0 ELSE 1) = QueueSize

(* The queue is in the order of due times, also across the shift of a new  *)
(* tick and for events that handlers add in the past: PIC_RunQueue only    *)
(* looks at the first entry.                                               *)
Sorted == \A i, j \in DOMAIN queue : i < j => queue[i].index <= queue[j].index

(* An event added for the same time as others is served after them, and    *)
(* the others keep their order.                                            *)
FirstComeFirstServed ==
  [][Len(queue') > Len(queue) =>
       \E j \in DOMAIN queue' :
         /\ SubSeq(queue', 1, j - 1) \o SubSeq(queue', j + 1, Len(queue')) = queue
         /\ \A i \in DOMAIN queue : queue[i].index <= queue'[j].index <=> i < j]_vars

(* The index of an event, relative to the current tick, stands for the     *)
(* instant it was added for, however many ticks go by.                     *)
DueTimeKept ==
  \A i \in DOMAIN queue : Instant(queue[i].index) = queue[i].due

(* What an event handler adds is due exactly its delay after the event     *)
(* itself was due, however late that was served: a periodic event does not *)
(* drift.                                                                  *)
NoDrift ==
  [][phase = "handler" /\ Len(queue') > Len(queue) =>
       \E j \in DOMAIN queue', delay \in Delays :
         /\ SubSeq(queue', 1, j - 1) \o SubSeq(queue', j + 1, Len(queue')) = queue
         /\ queue'[j].due = (current.due + delay) % (TickModulus * UnitsPerTick)]_vars

(* The most the CPU core runs past an event that is due: rounding up to a  *)
(* cycle and the end of an instruction, and for each interrupt two cycles  *)
(* and again the end of an instruction.                                    *)
MaxLate == UnitsPerCycle * (1 + Overrun + MaxBoosts * (2 + Overrun))

(* No event waits, or is served, later than that: the CPU core stops in    *)
(* time for it whoever adds it and when, and none is stuck behind a tick.  *)
NeverLate ==
  /\ \A i \in DOMAIN queue : TickIndex - queue[i].index < MaxLate
  /\ current # NoEvent => TickIndex - current.index \in 0..MaxLate - 1

(* The clock that PIC_FullIndex shows never goes back within a tick, and a *)
(* new tick starts when the cycles of the last one have been run, with no  *)
(* more than the end of the last instructions on top: that much it may     *)
(* step back there.                                                        *)
ClockSteady ==
  [][IF PIC_Ticks' = PIC_Ticks
     THEN TickIndex' >= TickIndex
     ELSE TickIndex - UnitsPerTick \in 0..MaxLate - UnitsPerCycle]_vars

(* An event that is queued is served or removed.                           *)
EventuallyServed ==
  \A ev \in Events :
    (\E i \in DOMAIN queue : queue[i].event = ev)
      ~> (\/ ~\E i \in DOMAIN queue : queue[i].event = ev
          \/ current # NoEvent /\ current.event = ev)
=============================================================================
