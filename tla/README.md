# DOSBox Staging: a TLA+ verification project

TLA+ models of core parts of DOSBox Staging, checked with TLC on small
instances and, where TLAPS reaches, proved for all instances. `PROJECT.json`
maps every definition to the source lines it models.

## 1. The system

DOSBox Staging emulates a PC and the DOS that runs on it. One main thread
executes guest instructions, emulated devices, DOS and BIOS calls and host
events, in turn, from `Normal_Loop` (`src/dosbox.cpp`). A few helper threads
render MIDI and save images; SDL's audio thread takes samples from the mixer.
The parts:

| Component | State | Operations | Interacts with | What is hard | What makes it correct |
|---|---|---|---|---|---|
| `RWQueue` (`misc/rwqueue.cpp`) | a deque, its capacity, `is_running`, a mutex, two condition variables | `Enqueue`, `BulkEnqueue`, `Dequeue`, `BulkDequeue`, `Stop` | main thread and MIDI renderers, image savers | lost wakeups, stop in the middle of a batch, draining after stop, short calls | FIFO without loss, duplication or gap; bounded; nobody sleeps on work that is there; stop releases everyone |
| Interrupt controllers (`hardware/pic.cpp`) | `irr`, `imr`, `isr`, modes, initialisation words of two 8259s; the cached flag `PIC_IRQCheck` | port writes, `PIC_ActivateIRQ`, `PIC_DeActivateIRQ`, `PIC_SetIRQMask`, `PIC_runIRQs` | all devices, the CPU cores | cached state updated case by case, two controllers in cascade, nested interrupts, EOIs out of order | the caches agree with the registers; priorities; the exits in the code are unreachable |
| Event queue and clock (`hardware/pic.cpp`, `dosbox.cpp`) | a sorted list of due times, a free list, `CPU_Cycles`, `CPU_CycleLeft`, `PIC_Ticks` | `PIC_AddEvent`, `PIC_Remove*Events`, `PIC_RunQueue`, `TIMER_AddTick` | every device with timing; the CPU core's cycle budget | re-entrancy (handlers add and remove events), rounding to cycles, the shift at each tick, a full queue | order, no drift, bounded lateness, no leaked entry, every event served |
| DOS memory (`dos/dos_memory.cpp`) | MCB chains in guest memory, the link state of the UMBs, the strategy | allocate, resize, free, free a process, link UMBs | DOS processes, XMS, `LOADFIX`, `MEM`, shell | long call sequences, splitting and joining, failure half way, two chains linked at will | chains tile memory; blocks do not overlap; nothing leaks |
| MIDI (`midi/`) | per synth a work queue, an audio queue and a renderer thread; parser state | `MIDI_RawOutByte`, `PlayMsg`, `PlaySysex`, mixer callback, `Open`, `Close` | MPU-401, Sound Blaster, mixer, `RWQueue` | main thread and renderer each blocked on the other's queue; two counts of emulated time; close while the renderer works | no mutual wait; the rendered time does not drift; the synthesizer outlives its thread; every call returns |
| Image capture (`capture/image/`) | pending requests, several `ImageSaver` threads with a queue each | request, `QueueImage`, `Close` | renderer, `RWQueue` | close while images are queued | every queued image is saved once |
| DMA and Sound Blaster (`hardware/dma.cpp`, `hardware/sblaster.cpp`) | the channel's count, mask and callback; the DSP's mode, bytes left, block sizes, speaker, IRQ flag, timed events | DSP commands, DMA register writes, mixer callback, events | PIC, event queue, mixer | nested callbacks (a read ends the channel's transfer, which calls the DSP back), events that outlive what scheduled them, unsigned counts | the count does not wrap; a halted or masked transfer does nothing; a running one ends with its IRQ |
| PIT (`hardware/timer.cpp`) | three counters, latches, gate | port access, `PIT0_Event` | event queue, IRQ 0, PC speaker | latch and read order, reprogramming while an event is queued | one periodic event in flight, latched values stable |
| 8042, keyboard, PS/2 mouse (`hardware/input/`) | an output byte, a buffer, counts of bytes on their way per device, delays, pending command; the keyboard's buffer; the mouse's unsent data | ports 60h and 64h, host keys and mouse events, timers | IRQ 1 and 12, event queue | replies, scancodes and mouse frames in one buffer; devices that send only when told the controller is ready; flushes between two bytes; calls back and forth | counts are exact; every moment of readiness is announced; scancodes in order and delivered |
| XMS, EMS, guest memory (`ints/`, `hardware/memory.cpp`) | handle tables, page maps, chains of pages | INT 67h, XMS calls | DOS memory | resize with failure, locked handles | no page with two owners |
| DOS files and drives (`dos/`) | handle tables, file table, reference counts, directory cache | open, close, dup, exec, exit, find | shell, programs, host file system | counts across exec and exit, cache against the disk | a file is closed exactly when its last handle is |
| Serial, IPX, NE2000 (`hardware/`) | FIFOs, rings, sockets | ports, packets | event queue, IRQs, host sockets | overruns, reordering | FIFO order, interrupt while work waits |
| Mixer and sound devices | sample buffers | mixing, callbacks | audio thread | exchange with the audio thread | no overrun |
| CPU, FPU, paging, VGA, Voodoo, GUI, shell, configuration, vendored libraries | | | | numerical, tabular or host I/O | see section 8 |

`PROJECT.json` lists all components with the reason for each that is not
modelled, and the hazards: for each, the line where it bites and the
properties that would catch it.

## 2. Modules

| Module | Models | Kind |
|---|---|---|
| `BoundedChannel` | what `RWQueue` promises | abstract specification |
| `RWQueue` | `src/misc/rwqueue.cpp` | component |
| `RWQueueProofs` | | theorems about `RWQueue` |
| `Pic8259` | the controllers of `src/hardware/pic.cpp` | component |
| `Pic8259Proofs` | | theorems about `Pic8259` |
| `PicEvents` | the event queue of `src/hardware/pic.cpp`, `include/pic.h`, `Normal_Loop` of `src/dosbox.cpp` | component |
| `PicEventsProofs` | | theorems about `PicEvents` |
| `DosMemory` | `src/dos/dos_memory.cpp` | component |
| `DosMemoryProofs` | | theorems about `DosMemory` |
| `MidiRenderer` | `src/midi/midi_mt32.cpp`, `midi_fluidsynth.cpp`, the mixer's tick | composition of two threads over two channels that behave as `BoundedChannel` |
| `MidiRendererProofs` | | theorems about `MidiRenderer` |
| `SoundBlaster` | 8-bit DMA playback of `src/hardware/sblaster.cpp`, one channel of `dma.cpp` | composition of DSP, DMA channel, mixer and events |
| `SoundBlasterProofs` | | theorems about `SoundBlaster` |
| `Intel8042` | `src/hardware/input/intel8042.cpp`, `keyboard.cpp`, `mouseif_ps2_bios.cpp` | composition of controller, keyboard and mouse |
| `Intel8042Proofs` | | theorems about `Intel8042` |
| `InductionLemmas` | | induction over numbers, for the other proofs |
| `MCRWQueue`, `MCPic8259`, `MCPicEvents`, `MCDosMemory`, `MCMidiRenderer`, `MCSoundBlaster`, `MCIntel8042` | | instances for TLC |

Operators whose comment begins with "Mutant" are deliberately wrong variants of
the operator that follows; no specification uses them. They document, for each
property, a plausible slip in the code that the property would catch.

### RWQueue

One action per critical section. Taking the mutex, testing the wait's
predicate, moving the chunk and releasing the mutex is one step, because no
other thread can see the middle; a wait that blocks ends the step. What the
code does *without* the mutex are steps of their own: the `notify_one` after the
unlock, the read of `is_running` for the return value, the first test in `Stop`,
and each `notify_all`. `notify_one` wakes any waiter; waits may also end
spuriously. `Enqueue` and `Dequeue` are the bulk loops gone round once. Items
are pairs of producer and number, so that loss and order are visible; `offered`
and `taken` are history. The chunk `num_items` computed before the wait is kept
and used after it, as in the code.

`BoundedChannel` says what is promised without threads: a FIFO of at most
`Capacity` items, appended to only while open, drained from the front.
`RWQueue` implements it with `queue` for `chan` and `is_running` for `open`.

### Pic8259

Registers are sets of lines. The complements `imrr` and `isrr` are not kept, and
neither are vector bases and the choice of the register to read. `pic` is
one record, because the calls nest (the secondary's `activate` calls the
primary's `raise_irq`, and so on) and each is written as an operator from record
to record, like the method it models. Actions are port writes (`ICW1`..`ICW4`,
`OCW1`, the EOIs, `OCW3SpecialMask`, `RotateInAutoEOI`), device calls
and `PIC_runIRQs`. Commands that the code answers with `E_Exit` lead to a `halt`
state, and so does the `E_Exit` of `secondary_startIRQ`.

### PicEvents

The code keeps due times as floating point fractions of a millisecond; here they
are integers, several `UnitsPerCycle` to a CPU cycle, so that the truncations to
whole cycles matter as they do in the code. `phase` says where the one thread
is. Event handlers, instructions, host events and tick handlers may add and
remove events; the CPU core runs instructions that may overrun their cycles,
returns early, and gets the two extra cycles of `PIC_ActivateIRQ`. `due` is
history: the instant an event was added for, modulo the bound on `PIC_Ticks`.
A handler that adds an event with no delay would keep `PIC_RunQueue` from
ending; the guard in `PIC_AddEvent` says that none does.

### DosMemory

`mem` is memory by the paragraph, with MCBs in it. Chains are followed as the
code follows them, so a misplaced header or a lost end mark shows. `held` is
what programs were told they have. Programs call with blocks they hold and do
not overwrite MCBs; `triage_block`, which deals with those that do, is not
modelled. The blocks `DOS_SetupMemory` makes are there with smaller sizes. Sizes
are far from 16 bits. The walks (`Along`, `Chain`, `McbsFrom`, `ChainEnd`,
`Compress`) are recursive functions of the number of steps: a walk stays at the
end mark it meets, and takes at most as many steps as memory has paragraphs. On
sound chains that is the walk of the code; on others it shows the run out of
memory.

### MidiRenderer

The main thread sends messages through `work_fifo`; the renderer thread renders
the frames due before each message, applies it and pushes the frames through
`audio_frame_fifo`, which the main thread empties at the mixer's tick. The queues
appear as what `RWQueue` is proved to implement, a bounded channel with blocking
ends and a stop; bulk calls move as much as fits and block again. Emulated time
is counted in units of which a frame and a tick take a whole number each
(`UnitsPerFrame`, `UnitsPerTick`), so that a tick may hold a fraction of a frame.
`behind` is the distance of `last_rendered_ms` to now. A message asks for the
frames that cover it, a frame begun counting as one (`FramesIn`, the `ceil` of
`GetNumPendingAudioFrames`), and moves the datum to the end of the last of them,
which may be ahead of now: `behind` is then negative and the next message asks for
nothing. The mixer callback sets the datum to now, and `credit` is the mixer's
`tick_counter`, which carries the fraction of a frame from tick to tick. The
channel falls asleep and is woken by a message. `Close` is the
four steps of the code: stop both queues, join, free. `FastForward` lets the
mixer ask for fewer frames than a tick has, as the host's audio device makes it
when emulation runs faster than real time. Without it every tick asks for
the nominal frames: the small corrections that the audio callback makes to
`tick_add` when the host's buffer runs short or full are left out (one that
persists on the short side is a slow `FastForward`).

### SoundBlaster

`sb` is one record for the DSP, the events it has scheduled and its DMA channel,
because the handlers nest: a command fills up the mixer channel, which runs the
transfer, which reads the DMA channel, which at its terminal count masks itself
and calls the DSP back, which catches up with time by running the transfer again.
Each is an operator from record to record. The guest programs the channel, masks
and unmasks it, sends the 8-bit playback commands, resets the DSP, switches the
speaker and acknowledges the IRQ. Events fire in any order, not only that of
their times, with the elapsed time of a catch-up chosen freely. On an SB16 the
speaker is always on; on older cards a transfer with the speaker off is
moved by `SuppressDMATransfer` events only. Of a playback rate the model keeps
`sb.dma.min`, the bytes of 3 ms: `freq` is the one that the rate last set gives, `min`
the one in force, which a new transfer takes over and `ChangeRate` sets while one is
active. Rates that give no bytes in 3 ms exist on an SB16 only (0x41).
`LowersRate` says whether the guest may lower the rate while the event of a short
transfer waits: if it may, the count of bytes left can wrap around (section 4).

### Intel8042

`s` is one record for the controller, the keyboard and the mouse, which call
each other: a read tells the keyboard that the controller is ready, the keyboard
adds a frame, which may flush the buffer, which tells the mouse, and so on. The
calls end there: a flush has emptied the buffer, so the frames that the devices it
tells send at once always fit and no second flush comes of them
(`ConstantsAssumption`: 64 bytes hold a scancode, a mouse frame and a reply). So
what a device does takes the way its frame is added as a parameter, `AddFrame`, or
`AddToRoom` within a flush, and no operator is recursive. That the shortcut is
right is `BufferIsNeverOverfull` of section 5. A byte is who sent it, whether it may skip the delay, and its number if it is part
of a scancode. Commands that differ only in the value of a reply are one
command, and so are the keyboard's and the mouse's (number of replies, and what
they do to scanning, reporting and the buffers). `guest` says which commands the
guest restrains from: a `gentle` one leaves the keyboard port enabled and asks for
no diagnostic dump, a `disabling` one does both, and a `ram` one reads controller
RAM until the buffer overflows. A `gentle` guest is what the liveness of
the keyboard needs: see section 4 for the two reasons.

What a read of port 60h returns is `data_byte` after the devices were notified,
as in the code, and not the byte that was there before: a flush within the
notifications may have replaced it (`GivenTo`, `lastRead`). A read without a new
byte (`ReadAgain`) returns the last one again, and `data_byte` outlives its read
and a flush.

## 3. Runs

| Run | Question | Instance | Result |
|---|---|---|---|
| `rwqueue_spsc` | Is the queue right for one producer, one consumer and a stopper? | capacity 2, batches to 3, 4 items | all hold |
| `pic_plain` | Do the caches and priorities hold in fully nested mode? | lines 1, 2, 3 and 8, 9; EGA/VGA | all hold |
| `pic_init` | Every sequence of initialisation words and modes | the cascade and IRQ 8; PCjr | all hold |
| `events` | Order, timing, entries and service of the event queue | 3 entries, 2 events, 2 cycles per tick, 2 units per cycle | all hold |
| `dos_memory` | Are both chains sound under any sequence of calls? | 2 processes, 2 + 2 paragraphs, 5 strategies | all hold |
| `midi` | Do the two threads keep up with each other, and end? | work queue 4, audio queue 4, 2 frames of 2 units a tick, bursts of 2 | all hold |
| `midi_fast_forward` | The same while time outruns the audio device | work queue 3 | violated: finding |
| `sound_blaster` | Counts, IRQs, halts and progress of DMA playback | lengths 2 and 5, `sb.dma.min` 1 and 3, 5 acts of the guest, not `LowersRate` | all hold |
| `sb_speaker` | Does turning the speaker on end the silent transfer? | length 5 | violated: finding |
| `sb_rate` | Does the count of bytes left survive a lower rate? | length 3, `sb.dma.min` 1 and 4, `LowersRate` | violated: finding |
| `i8042` | Counts, readiness, order and delivery of scancodes | buffer 5, frames of 2, 3 keys, 2 writes | all hold |
| `i8042_disable` | Are keys delivered after the port was disabled? | buffer 3, 2 keys, 1 write | violated: finding |

### Why the bounds are enough

* `rwqueue_spsc`: batches larger than the capacity force every path of the bulk
  loops: chunk limited by the request, by the room, and of one item after a
  wait. Four items let a second call overlap with the drain of the first. The
  theorems remove these bounds and the number of threads for the safety
  properties.
* `pic_plain`: lines of higher and lower priority than the cascade, two lines
  on the secondary: nesting on both controllers, in and out of order. The
  theorems remove the choice of lines. `pic_init` has all modes with one line.
* `events`: three entries are the one served, one before and one behind an
  insertion; two events of one handler tell the two removals apart, and each may
  be queued several times; the delays 0, 1 and 5 units are none, within a cycle (2 units) and
  beyond a tick (4 units). `TickModulus` 4 is beyond the longest delay, so that
  instants do not alias. One `ActivateIRQ` per run of the core (`MaxBoosts`) and
  an overrun of one cycle enter `NeverLate` as parameters.
* `dos_memory`: the small block, the loadfix block, the main block and the UMB
  with requests of 1 and 2 give exact fits, splits with and without an empty
  rest, growth into all or a part of a free neighbour, and failures. States that
  differ only in headers no chain reaches are identified (`MCView`): every call
  follows a chain or starts from a block that is held. Requests of no paragraphs,
  checked in smaller instances during development, are left out of the run: they
  multiply the states.

* `midi`: the work queue holds the messages of two ticks and the audio queue the
  frames of two, as the code's generous capacities hold many of both; smaller
  than a burst, and the main thread would block at normal speed too. Two frames
  a tick, of two units each, let a message fall before, inside, between and after
  frames. The tick is a whole number of frames, as at 8, 16, 32 and 48 kHz (the
  default); what happens at the other rates is in section 4.
* `sound_blaster`: with `sb.dma.min` 3 the length 2 is a short transfer, finished by
  an event, and 5 a long one, which becomes short on its way; with 1 neither is,
  and a transfer may turn from one into the other as the rate changes. Five acts are
  enough for program, unmask, start, disturb, and disturb again. `Word` and
  `CountWord` are far above the lengths, so that a wrap is out of range.
* `i8042`: one key on its way, one in the keyboard and one that overflows its
  buffer; replies and mouse frames of two bytes can be half read. Two writes
  are a command with its parameter, or two commands. Reads of RAM are bounded by
  the buffer instead. The buffer holds what the assumption on the constants
  says, as the 64 bytes of the code do.

### Fairness

* `RWQueue!FairSpec`: a thread inside a call that is not blocked goes on (the
  scheduler). Nobody is obliged to call again, and spurious wakeups are not
  counted on.
* `Pic8259!FairSpec`: `PIC_runIRQs` is called again and again while `PIC_IRQCheck`
  is set: `PIC_RunQueue` ends each of its rounds with it and `activate` makes the
  core leave its loop.
* `PicEvents!FairSpec`: each stage of the main loop is left, i.e. handlers and
  instructions end, and the core runs at least one instruction if it was given
  cycles. Adding, removing and interrupts are not obliged to happen.

* `MidiRenderer!Spec`: each thread goes on inside a call unless it is blocked.
  Time, ticks, messages and `Close` are not obliged to happen.
* `SoundBlaster!Spec`: mixer ticks and scheduled events come; the guest may do
  nothing.
* `Intel8042!Spec`: the three timers expire (they are events of `PicEvents`), and the
  guest reads a byte that its interrupt announces. Nothing else is obliged to
  happen; without that reader the buffers may rightly stay full.

Safety runs use `Spec` or have fairness only for their liveness properties.
Deadlock is checked except for the interrupt controllers, where `E_Exit` stops
the program, the MIDI handlers, which end with `Close`, and the Sound Blaster,
where the guest's acts run out.

## 4. Findings

* `midi_fast_forward`: a message asks for frames by emulated time, the mixer
  takes them by the host's clock. When emulation outruns the audio device the
  backlog grows until the renderer blocks on the full audio queue and the main
  thread, its only reader, on the full work queue: neither ever goes on.
* `sb_speaker`: `DSP_SetSpeaker(true)` removes the silent transfer's event and then
  flushes with `sb.speaker` still false, which schedules `SuppressDMATransfer`; it
  goes on discarding bytes of a transfer that is now audible.
* `sb_rate`: the event of a short transfer carries the bytes that were left when it
  was scheduled. `PlayDMATransfer` limits what it reads to what is left only while
  that is at most `sb.dma.min`, and lowering the rate lowers `sb.dma.min`: with an
  auto-init DMA channel the event then reads more than is left, and the unsigned
  `sb.dma.left` wraps around to almost 2^32.
* `i8042_disable`: the timer that ends the disabled period of the keyboard port
  tells nobody, and the first query afterwards enables the port silently. A
  scancode queued meanwhile waits for the next key.

Met on the way and recorded here without a run:

* `read_data_port` notifies the keyboard before it takes the byte it returns and
  marks it as read. If the frame the keyboard then adds overflows the buffer, the
  flush lets a newer byte into the output port, and the read returns that one: the
  older byte, whose interrupt the guest is serving, is lost. The newer byte is
  marked as read, its interrupt is raised all the same, and the guest that serves
  it reads the same byte again. Its count stays, so the keyboard is not ready again
  until the next flush. It takes 64 unread bytes of controller RAM (or of mouse
  replies, section 8). `WaitingCounts` leaves the `ram` guest out for this;
  `KeysInOrder` holds of it, because it speaks of order and not of loss or of
  second reads.
* A byte written to port 60h during a diagnostic dump throws the dump away and
  leaves `is_diagnostic_dump` set; if nothing is left to read, no device is ready
  until the next command on port 64h. `KeysServed` leaves the dump out for this.
* At 44.1, 22.05 and 11.025 kHz a tick is not a whole number of frames. A message
  in the fraction at the end of a tick asks for a frame that ends in the next
  tick; the mixer callback at that tick sets `last_rendered_ms` back to now, and
  the fraction is asked for again. Nothing pays the surplus back: with
  `UnitsPerTick = 3` in `MidiRenderer.cfg` TLC finds `LagBounded` violated, and
  then `NoMutualWait`, at normal speed. In the code it takes a message at
  the end of nearly every tick for minutes to fill the 10,420 places of
  `work_fifo`. The runs and the two theorems therefore speak of the other rates.
  The same surplus arises at any rate when a message comes in the cycles the
  core runs past the end of a tick, or when `elapsed_ms / ms_per_audio_frame`
  rounds up past a whole number; neither is in the model, where messages come
  within the tick and spans are exact.
* Turning the speaker of an older Sound Blaster off during a transfer disables the
  mixer channel and schedules no silent transfer; nothing moves the transfer
  until the guest touches the DMA mask. Halting an older card with its speaker off
  does not stop the chain of `SuppressDMATransfer` events either, which reads the
  transfer to its end; `HaltedReadsNothing` speaks of the SB16. And 0x14 stores its
  length before the `FillUp` that may end the previous transfer with it.
* `RWQueue`: one `notify_one` per chunk would leave a second consumer asleep beside
  an item. No queue has two consumers; `ConsumerNeverStranded` assumes it.
* A device configured for IRQ 2 raises the cascade line itself and the program
  exits with "IRQ 2 is active, but IRQ is not active on the secondary
  controller"; the theorems about the cascade assume that none is
  (`CascadeUndriven`). ICW1 in single mode without ICW4 still makes the
  controller take a fourth word; `InitSequence` speaks of cascaded ones.
* `DOS_AllocateMemory` with last or best fit and "high memory first" goes on to the
  low chain after a UMB was found, and a low block may win. UMBs freed while not
  linked are not joined; `FailureIsFinal` speaks of the low chain.

## 5. Proofs

All proof modules are checked by TLAPS down to the last leaf.

### RWQueueProofs: any threads, any capacity, any batches

Assumptions: the thread sets are disjoint, the capacity and the largest batch
positive (`ThreadAssumption`, `BoundAssumption`).

* `IInv` is inductive. Besides types it says which program counters belong to
  which kind of thread, that a thread in the loop has something left to do, that
  a thread that waits waits for exactly one item (only a chunk with nothing
  available waits, and `Chunk` is then 1), that what a producer has left is what
  its call has not put in yet, and that a consumer lacks exactly what is still to
  do unless the queue is stopped and empty. The fact about waiting is what makes
  the stale `num_items` harmless. From it: `TypeCorrect`, `NeverOverfull`,
  `ShortCallsMeanDrained`.
* `ConsumerNeverStranded` needs that there is at most one consumer, any number of
  producers; `ProducerNeverStranded` at most one producer. Each is inductive
  relative to `IInv`. With two consumers and chunks of two the statement about
  consumers fails (section 4).
* `Refinement`: `Spec => Channel!Spec`; every step is a `Put`, a `Take`, a `Stop`
  or a stutter.
* `StreamInv` (relative to `IInv`): while the queue runs, what a producer has
  offered is, in order, what was accepted followed by what its call still has.
  From it: `Fifo` and `TrueIsAccepted`.

### Pic8259Proofs: any lines, any machine

Assumptions: the lines are lines and line 2 of the primary is among them
(`LineAssumption`); no device drives it (`CascadeUndriven`, without which the
properties fail, section 4).

* `SafeInv` (types, `InitSequence`, the cascade line is requested only while the
  secondary has an interrupt ready, no exit) is inductive in *all* modes.
  From it: `TypeCorrect`, `CascadeSafe`, `InitSequenceSafe`.
* `PlainInv` adds, for guests that use no special mask, rotation or automatic
  EOI (`GuestModes = {}`), that `PIC_IRQCheck` and the cascade line are exact and
  that `active_irq` is the highest line in service. They need each other: an
  EOI looks for new interrupts only below `active_irq`. From it:
  `IrqCheckIsExact`, `CascadeIsExact`, `ActiveIsHighestHolds`,
  `StartsOnlyHigherHolds`.

The proofs are built from one lemma per register operation (`RaiseIrq`,
`LowerIrq`, `SetImr`, `EndOfInterrupt`, `StartIrq`, ...) about records, so that
the proof of a step only combines them.

### PicEventsProofs: any queue, cycle length, delays, overrun and interrupts

Assumptions: `EventAssumption` of `PicEvents` (sizes positive, delays natural,
and `TickModulus`, the bound on the counter of ticks, at least 2).

* `Structure` is inductive: entries are conserved, the queue is sorted, and an
  event is being served exactly while a handler runs. The last part is needed
  for the first: only then does the return of a handler free an entry that was
  taken. From it `EntriesAreConserved`, `QueueIsSorted` and, as the one step that
  makes the queue longer is an insertion, `ServedInOrderOfAdding`.
* `Timing` is inductive relative to `Structure`: every entry's index, with the
  tick, is the instant it was added for; none is late by more than the cycles
  the core could run past it so far (`Slack`, which grows with each interrupt);
  and while the core has cycles, the point where it will stop is in time for
  every entry. That last part says that an event added by an instruction
  takes cycles away from the core whenever it must, and it is what makes the
  bound on lateness inductive. From it `DueTimesAreKept`, `EventsAreNeverLate`,
  `PeriodicEventsDoNotDrift`, `ClockIsSteady`.

### SoundBlasterProofs: any lengths, rates and sizes

Assumptions: `ConstantsAssumption` of `SoundBlaster` (sizes positive, lengths below
the wrap of the counts).

`Inv` is inductive (`CardInvariant`): the card is well formed, mode "dma" has a
transfer format, and on an SB16 the speaker is on, no silent transfer is scheduled
and a halted transfer has no event. If `LowersRate` is false it also says that the
bytes left are at most those of the longest cycle and that an event asks for at most
`sb.dma.min` bytes (`Bounded`): that is what keeps a read within what is left, and what
lowering the rate would break. The handlers nest, so there is one lemma per operator (`Formed` and `Audible`
of what it returns), in the order in which they call each other. From it:
`TransferIsConsistent`, under the hypothesis `~LowersRate`, which its statement names; and
for any guest `CatchingUpRaisesNoIRQ`, because what a catch-up moves is
less than what is left, or nothing; `HaltedTransferReadsNothing`, because the halt
removes the event and the mixer finds no mode.

### DosMemoryProofs: any sizes of memory, requests, processes and strategies

Assumptions: `ConstantsAssumption` of `DosMemory` (sizes are natural, process
numbers are neither free nor DOS).

* `Inv` is inductive: there is a set `H` of headers such that `Tiled(mem, H, linked)`
  and `Owned(mem, H, held)`, with `FailureIsFinal` and the types. `Tiled` is
  local: the header behind each block is in `H` or is the end of memory, no header
  lies inside a block, and the end mark is on the last block of each chain and on
  no other. `H` also holds the upper headers while they are not linked, which
  no walk from the first header meets; this is why the invariant speaks of `H` and
  not of the walk. `Owned` says that `held` and the headers of processes are in
  one to one correspondence.
* The walks are recursive functions. By induction over the steps a walk stays in
  `H`, goes up, and ends at an end mark before its steps run out; so `Chain` is an
  initial or final part of `H`, which gives `MemoryStaysTiled`.
* One lemma per change of memory: split at the head, split at the tail, join with
  the next block, release, link, unlink, each with the `H` it leaves. Compressing is
  an induction whose step is a join or a step forward, and whose invariant also
  says that no two free blocks are adjacent behind the point reached; with it
  `FailuresAreFinal`. `HeldBlocksAreSafe` and `MemoryIsNotLost` follow from
  `Owned` and from the fact that the two walks of `DOS_FreeProcessMemory` together
  visit all of `H`.

### MidiRendererProofs: any capacities, frame rates and bursts

* `FreedAfterJoin` is inductive: the synthesizer is gone only when the main thread
  has returned from the join and the renderer has left its loop, and neither starts
  anything from there. From it `ServiceOutlives`, also in fast forward. It is needed
  because the property itself says nothing about a renderer that is between two
  calls of the synthesizer when it is freed.
* `LagInv` is inductive if the mixer takes the frames of a tick every tick
  (`~FastForward`) and a tick is a whole number of frames (`WholeFrames`); without
  either both statements fail, section 4. `Room`: all that is owed to messages,
  queued or being rendered fits the audio queue plus what the mixer still needs
  and the frames the datum has been moved past since the tick began (`Ahead`, the
  floor of a span that may be negative while the mixer waits). `AheadTypes` and
  `DueAhead` say why rounding up adds nothing: the datum is less than a frame
  ahead of now, so with whole frames it never passes the end of the tick, and the
  floor up to the datum and the ceiling from there to now are together no more
  than the frames of the tick. `Aged`: the
  messages in the work queue fall into those older than the last tick, those
  there at the last tick (at most a burst) and newer ones (at most the messages
  sent since), and the frames of the older ones leave that much more room. `Room`
  gives `LagIsBounded`. `NeverWaitForEachOther` needs `Aged`: the audio queue can be
  full only if every queued message is from the last two ticks.
* `NeverWaitForEachOther` assumes that the work queue holds the messages of two
  ticks (`2 * Burst <= WorkCap`). With a queue of one burst TLC finds the mutual
  wait. The code's queue holds 10,420 messages, so the assumption allows 5,210 in
  a millisecond; a MIDI wire carries one.
* What is queued is the sum of the queue's items. It is a recursive function
  (`Frames`); `FramesAre`, `FramesAppend` and `FramesTail` say what it is after
  each queue operation. The arithmetic of whole frames in spans of time is in
  `FloorIs`, `FloorShift`, `FloorMonotone` and `Covering`.

### Intel8042Proofs: any sizes of buffers, frames, scancodes and replies

Assumption: `ConstantsAssumption` of `Intel8042`. The numbers of keys and of
commands are arbitrary.

`Inv` is inductive (`Invariance`). It is `Sound`, what holds while a handler runs
and after it, and `MouseServed` and `KbdServed`, what holds after it. The parts of
`Sound`:

* `Counted` and `Exact`: the bytes of a device in the output byte and the buffer
  are at most those counted, and exactly those for guests that do not collect
  RAM bytes. With one that does, a notification within `read_data_port` may flush;
  the byte that is then transferred is marked as read, and stays counted.
* `Within`, for guests that do not collect RAM bytes: what each device has on its
  way beyond one frame, together with the controller's bytes, is at most one
  reply. When a device is ready it has nothing on its way, so its frame fits and
  there is no flush: `read_data_port` keeps the byte it counts off. Replies of
  the keyboard come after a flush and may be topped by a frame of each device;
  this is why the bound adds up over both and not for each. During a diagnostic
  dump `Within` does not hold, and needs not to, for no device is ready then.
* `Lined`: scancode numbers rise from the last number that was read through the
  buffer to the scancodes that wait in the keyboard (`Numbers`, `InTurn`), with
  bytes of others anywhere between. The same is so from the number of `data_byte`,
  which is not older than the last one read and is newer while it is unread; that is
  what makes a read right whatever its notifications do, and a second read too.
  Relative to any number that was read, `Line` is kept by taking bytes away and by
  adding what comes next, so a flush in the middle of a scancode leaves it true.
  It holds of all guests.
* `Good`: types, `Covered` (each byte in the buffer is counted), no byte beyond
  the buffer's end, an idle output byte belongs to no device.
* A `gentle` guest has the keyboard port enabled and no dump; `KbdServed` needs it.

From it: `CountersAreExact` (`WaitingCounts`), `KeysStayInOrder` (`KeysInOrder`),
`NobodyIsStranded` (`NotStranded`), `BufferIsNeverOverfull`, and for all guests
`ReadBytesAreCounted`, what `read_data_port` asserts of the byte it is called to read.

The handlers are compositions of operators, so each operator has a lemma that
relates what it is given to what it returns, and the relations compose: `Grows`
(bytes were added), `Soft` and `Rel` (a device was told: counts and order are kept,
whoever was served still is, and unless there was a flush so is the output byte),
`Leads` (order is kept), `Between` (no key and no mouse event is lost). The
proof of an action strings these lemmas together. `BufferAddAll`, a recursive
function of the bytes added, is dealt with by induction over their number.

### InductionLemmas

The library's induction theorems take an operator as a parameter, which the
installed provers cannot instantiate. These lemmas take a *set* instead: from the
least element of a set of numbers (`LeastNat`) follow `InductionNat`,
`InductionUpTo`, `InductionFromOne`, and `Iterates`, the existence of a
function defined by recursion. With them the walks of `DosMemory`, the sums of
`MidiRenderer` and the frames of `Intel8042` are proved about.

## 6. Only model-checked

* Liveness (`CallsReturnAfterStop`, `BlockedAreServed`, `ReadyIsServed`,
  `EventuallyServed`, `CallsReturn`, `TransferCompletes`, `KeysServed`), which is
  out of the prover's reach.
* The violations of section 4: each is a counterexample on its instance.

Every safety invariant and action property of the runs is a theorem. Three bounds
stay: the theorems about `MidiRenderer`'s lag and mutual wait assume that the
mixer does not fast forward and that a tick is a whole number of frames; those
about stranded threads of `RWQueue` that there is one thread on their side; and
`TransferIsConsistent` that the guest does not lower the rate. Without these
assumptions the statements fail.

The inductive invariants of section 5 were checked with TLC on the instances of
the runs before they were proved.

## 7. Plan

Done, each modelled, checked and proved: the threads' queue (with its abstract
specification and refinement), the interrupt controllers, the event queue and
clock, DOS memory, the MIDI renderers, Sound Blaster playback with its DMA
channel, the keyboard controller with keyboard and mouse.

Components that could still be modelled in the same way: the image savers over
`BoundedChannel`, the PIT over the event queue, the MIDI byte parser, XMS and EMS
handles, file handles across `EXEC`, the UART's FIFOs.

## 8. Not modelled

The CPU cores, FPU, video and 3D hardware, signal processing, file formats, host
windowing and vendored libraries: numerical or tabular code, or pure I/O. They
appear only as what the modelled parts see of them: the CPU core as the consumer
of cycles and taker of interrupts, devices as callers. Within modelled files:
the pacing of `increaseticks` against the host clock and changes of
`CPU_CycleMax` (`PicEvents`), vector bases (`Pic8259`), corrupt MCBs, Tandy and
PCjr memory layouts (`DosMemory`), `Resize` of a queue in use (`RWQueue`; no
caller does it), the synthesizers (`MidiRenderer`), 16-bit, stereo and ADPCM formats,
recording and the CT mixer (`SoundBlaster`; mixer register 0eh, `DSP_ChangeStereo`, changes `sb.dma.min` in
mid-transfer as a change of the rate does, so what `sb_rate` shows holds of it too), scancode tables, translation, the
contents of frames, and the reset of the mouse by the BIOS (INT 15h C201), which adds
its replies to the controller's buffer without the flush that a command of the guest
makes first, so that they pile up unread like the RAM bytes of the `ram` guest
(`Intel8042`). The implementation is some 357,000 lines, most of
them chip emulations, decoders, video hardware, instruction decoding and
vendored code; the models stay with the parts that have state, order and
concurrency of their own, and cover a small share of the lines.

## 9. Running

In this directory: `tlc -config <run's cfg> <run's module>`, and `tlapm M.tla` for
each of `RWQueueProofs`, `Pic8259Proofs`, `PicEventsProofs`, `SoundBlasterProofs`,
`DosMemoryProofs`, `MidiRendererProofs`, `Intel8042Proofs`, `InductionLemmas`.
