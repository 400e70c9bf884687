---------------------------- MODULE SoundBlaster ----------------------------
(***************************************************************************)
(* The Sound Blaster's 8-bit DMA playback: the DSP and its transfer        *)
(* counter, the DMA channel it reads, and the four things that move it:    *)
(* DSP commands and DMA register writes of the guest, the mixer's          *)
(* callback, and the timed events SuppressDMATransfer, ProcessDMATransfer  *)
(* and DSP_RaiseIRQEvent.  Of a playback rate only sb.dma.min is kept, the *)
(* bytes of 3 ms; sample data and volumes are left out.  The handlers call *)
(* each other through the DMA callback, so they are written as functions   *)
(* from a card state to a card state.                                      *)
(***************************************************************************)
EXTENDS Integers, Sequences, FiniteSetsExt, SequencesExt

CONSTANTS
    Lengths,   \* transfer lengths the guest programs into DSP and DMA channel
    Minima,    \* sb.dma.min, the bytes of 3 ms of playback, at each rate
    DefaultMin,\* the one of the rate after a reset
    LowersRate,\* may the guest lower the rate while a short transfer's event waits?
    MinSize,   \* twice the bytes per frame, the catch-up's safety margin
    Slice,     \* most bytes the mixer asks for in one callback
    Word,      \* 2^32: sb.dma.left is unsigned
    CountWord, \* 2^16: the channel's curr_count + 1 after the terminal count
    MaxEvents, \* bound: pending events of one kind
    MaxSteps   \* bound: commands and register writes of the guest

ASSUME ConstantsAssumption ==
    /\ {MinSize, Slice, MaxEvents, MaxSteps} \subseteq Nat \ {0}
    /\ Minima \subseteq Nat /\ DefaultMin \in Minima /\ LowersRate \in BOOLEAN
    /\ Lengths \subseteq Nat \ {0} /\ Lengths # {}
    /\ Word \in Nat /\ CountWord \in Nat
    /\ \A n \in Lengths : n < Word /\ n < CountWord

VARIABLES
    sb16,  \* is the card an SB16, whose speaker is always on?
    sb,    \* the DSP, its events and the DMA channel
    steps  \* how often the guest has acted

vars == <<sb16, sb, steps>>

Modes == {"none", "dma", "pause", "masked"}

TypeOK ==
    /\ sb16 \in BOOLEAN /\ steps \in 0..MaxSteps
    /\ sb.mode \in Modes
    /\ {sb.active, sb.autoinit, sb.speaker, sb.pending, sb.chauto, sb.is_masked, sb.callback} \subseteq BOOLEAN
    /\ sb.left \in 0..(Word - 1)
    /\ {sb.singlesize, sb.autosize} \subseteq {0} \cup Lengths
    /\ sb.count \in 1..CountWord /\ sb.base \in Lengths
    /\ sb.min \in {0} \cup Minima /\ sb.freq \in Minima
    /\ sb.suppress \in Seq(Nat) /\ sb.process \in Seq(Nat)
    /\ sb.irqEvents \in 0..MaxEvents

(* After DSP_Reset and the first programming of the DMA channel.           *)
Init ==
    /\ sb16 \in BOOLEAN /\ steps = 0
    /\ \E n \in Lengths, a \in BOOLEAN :
         sb = [ mode |-> "none",
                active |-> FALSE,     \* sb.dma.mode # DSP_DMA_NONE
                autoinit |-> FALSE, left |-> 0, singlesize |-> 0, autosize |-> 0,
                min |-> 0,            \* sb.dma.min
                freq |-> DefaultMin,  \* what sb.freq makes of it
                speaker |-> sb16,     \* also: the mixer channel is enabled
                pending |-> FALSE,    \* irq.pending_8bit
                suppress |-> <<>>, process |-> <<>>, irqEvents |-> 0,
                count |-> n,          \* curr_count + 1 of the DMA channel
                base |-> n, chauto |-> a, is_masked |-> TRUE,
                callback |-> FALSE ]  \* is DSP_DMA_CallBack registered?

-----------------------------------------------------------------------------
(* DmaChannel::ReadOrWrite without its callbacks: the words read, and the  *)
(* channel afterwards.                                                     *)
WordsDone(c, want) == IF c.chauto THEN want ELSE Min({want, c.count})

ReachesTerminalCount(c, want) == want >= c.count

ReadOrWrite(c, want) ==
    CASE want < c.count -> [c EXCEPT !.count = @ - want]
      [] want >= c.count /\ c.chauto ->
           [c EXCEPT !.count = c.base - ((want - @) % c.base)]
      [] OTHER -> [c EXCEPT !.count = CountWord, !.is_masked = TRUE]

BecomesMasked(c, want) == ReachesTerminalCount(c, want) /\ ~c.chauto /\ c.callback

(* SB_RaiseIRQ; the PIC is Pic8259.                                        *)
SB_RaiseIRQ(c) == [c EXCEPT !.pending = TRUE]

(* PlayDMATransfer with no byte of the cycle left.                         *)
EndOfCyclePlay(c) ==
    LET d == SB_RaiseIRQ([c EXCEPT !.process = <<>>]) IN
    CASE ~c.autoinit /\ c.singlesize = 0 -> [d EXCEPT !.mode = "none", !.active = FALSE]
      [] ~c.autoinit /\ c.singlesize > 0 -> [d EXCEPT !.left = c.singlesize, !.singlesize = 0]
      [] OTHER -> [d EXCEPT !.left = c.autosize,
                            !.mode = IF c.autosize = 0 THEN "none" ELSE @]

(* Mutant: the request is not limited to the bytes left.                   *)
BytesToReadAsAsked(c, requested) == requested

BytesToRead(c, requested) ==
    IF c.left <= (IF c.autoinit THEN requested ELSE c.min) THEN c.left ELSE requested

(* PlayDMATransfer.  When the read ends the channel's own transfer, the    *)
(* channel calls back with DMA_MASKED; last_dma_callback has just been set,*)
(* so that nested catch-up finds no time to catch up and only changes the  *)
(* mode.                                                                   *)
PlayDMATransfer(c, requested) ==
    LET toRead == BytesToRead(c, requested)
        read   == ReadOrWrite(c, toRead)
        d      == [read EXCEPT
                     !.mode = IF BecomesMasked(c, toRead) /\ @ = "dma" THEN "masked" ELSE @,
                     !.left = (@ - WordsDone(c, toRead)) % Word]
    IN  IF ~c.active THEN [c EXCEPT !.mode = "none"]
        ELSE IF d.left = 0 THEN EndOfCyclePlay(d) ELSE d

(* DSP_DMA_CallBack, DMA_MASKED: catch up with the bytes the time since    *)
(* last_dma_callback is worth, then stop.                                  *)
(* Mutant: no margin to the end of the cycle.                              *)
CatchUpSizeAll(c, elapsed) == Min({elapsed, c.min, c.left})

CatchUpSize(c, elapsed) ==
    IF c.left <= MinSize \/ (~c.autoinit /\ c.left <= c.min) THEN 0
    ELSE Min({elapsed, c.min, c.left - MinSize})

OnMasked(c, elapsed) ==
    IF ~c.callback \/ c.mode # "dma" THEN c
    ELSE LET s == CatchUpSize(c, elapsed)
             d == IF s > 0 THEN PlayDMATransfer(c, s) ELSE c
         IN  [d EXCEPT !.mode = "masked"]

(* FlushRemainingDMATransfer schedules what ends a silent or a short       *)
(* transfer.                                                               *)
FlushRemainingDMATransfer(c) ==
    CASE c.left = 0 -> c
      [] c.left > 0 /\ ~c.speaker ->
           [c EXCEPT !.suppress = Append(@, Min({c.min, c.left}))]
      [] c.left > 0 /\ c.speaker /\ c.left < c.min ->
           [c EXCEPT !.process = Append(@, c.left)]
      [] OTHER -> c

(* DSP_DMA_CallBack, DMA_UNMASKED.                                         *)
OnUnmasked(c) ==
    IF c.callback /\ c.mode = "masked" /\ c.active
    THEN FlushRemainingDMATransfer([c EXCEPT !.mode = "dma"])
    ELSE c

(* DmaChannel::RegisterCallback(DSP_DMA_CallBack), in mode "masked".       *)
RegisterCallback(c) ==
    LET d == [c EXCEPT !.callback = TRUE] IN
    IF d.is_masked THEN d ELSE OnUnmasked(d)

(* SBLASTER_CallBack.                                                      *)
SBLASTER_CallBack(c, len) ==
    IF c.mode = "dma" THEN PlayDMATransfer(c, Min({len, c.left})) ELSE c

(* MixerChannel::FillUp mixes up to the present if the channel is enabled; *)
(* Mix calls back until it has its frames: up to twice here.               *)
FillUp(c) ==
    LET once == {SBLASTER_CallBack(c, len) : len \in 1..Slice}
    IN  {c} \cup (IF c.speaker THEN once \cup {SBLASTER_CallBack(d, len) : d \in once, len \in 1..Slice}
                              ELSE {})

-----------------------------------------------------------------------------
(* The guest.  A step is possible while the bounds allow it.               *)
Guest == /\ steps < MaxSteps /\ steps' = steps + 1
         /\ Len(sb.suppress) < MaxEvents /\ Len(sb.process) < MaxEvents
         /\ UNCHANGED sb16

(* Count and mode registers of the DMA channel.                            *)
ProgramChannel ==
    /\ Guest
    /\ \E n \in Lengths, a \in BOOLEAN :
         sb' = [sb EXCEPT !.count = n, !.base = n, !.chauto = a]

(* DmaChannel::SetMask(true); the time since last_dma_callback is free.    *)
Mask ==
    /\ Guest
    /\ \E e \in 0..sb.min : sb' = OnMasked([sb EXCEPT !.is_masked = TRUE], e)

Unmask ==
    /\ Guest
    /\ sb' = OnUnmasked([sb EXCEPT !.is_masked = FALSE])

(* DSP_DoDMATransfer after its FillUp.                                     *)
DSP_DoDMATransfer(c, autoinit) ==
    LET d == CASE c.mode # "none" /\ c.autoinit /\ ~autoinit -> c
               [] ~autoinit /\ ~(c.mode # "none" /\ c.autoinit) ->
                    [c EXCEPT !.left = c.singlesize, !.singlesize = 0]
               [] OTHER -> [c EXCEPT !.left = c.autosize]
    IN  RegisterCallback([d EXCEPT !.pending = FALSE, !.autoinit = autoinit,
                                   !.active = TRUE, !.min = c.freq,
                                   !.process = <<>>, !.mode = "masked"])

(* 0x40 and 0x41, DSP_ChangeRate.  The rate that is set already changes    *)
(* nothing: its sb.dma.min is in force while a transfer is active.  What   *)
(* gives no bytes in 3 ms can only be set on an SB16.                      *)
ChangeRate ==
    /\ Guest
    /\ \E n \in Minima :
         /\ n > 0 \/ sb16
         /\ \/ ~sb.active /\ sb' = [sb EXCEPT !.freq = n]
            \/ /\ sb.active
               /\ \E c \in FillUp(sb) :
                    /\ LowersRate \/ n >= c.min \/ c.process = <<>>
                    /\ sb' = [c EXCEPT !.freq = n, !.min = n]

(* 0x14, single cycle: the length is stored before the FillUp.             *)
SingleCycle ==
    /\ Guest
    /\ \E n \in Lengths : \E c \in FillUp([sb EXCEPT !.singlesize = n]) :
         sb' = DSP_DoDMATransfer(c, FALSE)

(* 0x48, block size, and 0x1c, auto-init.                                  *)
SetBlockSize ==
    /\ Guest
    /\ \E n \in Lengths : sb' = [sb EXCEPT !.autosize = n]

AutoInit ==
    /\ Guest
    /\ \E c \in FillUp(sb) : sb' = DSP_DoDMATransfer(c, TRUE)

(* Mutant: the short transfer's event survives the halt.                   *)
HaltKeepsEvent ==
    /\ Guest
    /\ sb' = [sb EXCEPT !.mode = "pause"]

(* 0xd0.                                                                   *)
Halt ==
    /\ Guest
    /\ sb' = [sb EXCEPT !.mode = "pause", !.process = <<>>]

(* 0xd4.  sb.dma.chan is null until the first transfer registers the       *)
(* callback.                                                               *)
Continue ==
    /\ Guest
    /\ LET c == [sb EXCEPT !.mode = "masked"] IN
       sb' = IF sb.mode # "pause" THEN sb ELSE IF sb.callback THEN RegisterCallback(c) ELSE c

(* 0xda.                                                                   *)
ExitAutoInit ==
    /\ Guest
    /\ sb' = [sb EXCEPT !.autoinit = FALSE]

(* 0xd1 and 0xd3, DSP_SetSpeaker: sb.speaker is still off when the flush   *)
(* looks at it.                                                            *)
SpeakerOn ==
    /\ Guest /\ ~sb16 /\ ~sb.speaker
    /\ sb' = [FlushRemainingDMATransfer([sb EXCEPT !.suppress = <<>>]) EXCEPT !.speaker = TRUE]

SpeakerOff ==
    /\ Guest /\ ~sb16 /\ sb.speaker
    /\ sb' = [sb EXCEPT !.speaker = FALSE]

(* 0x80 and 0xf2 raise the IRQ after a while.                              *)
TriggerIRQ ==
    /\ Guest /\ sb.irqEvents < MaxEvents
    /\ sb' = [sb EXCEPT !.irqEvents = @ + 1]

(* DSP_Reset; the mixer channel is disabled first, so nothing is filled up.*)
Reset ==
    /\ Guest
    /\ sb' = [sb EXCEPT !.mode = "none", !.active = FALSE, !.autoinit = FALSE,
                        !.left = 0, !.singlesize = 0, !.autosize = 0,
                        !.speaker = sb16, !.pending = FALSE, !.process = <<>>,
                        !.freq = DefaultMin]

(* Reading the status port acknowledges the IRQ.                           *)
AckIRQ == Guest /\ sb.pending /\ sb' = [sb EXCEPT !.pending = FALSE]

GuestStep == \/ ProgramChannel \/ Mask \/ Unmask \/ ChangeRate \/ SingleCycle \/ SetBlockSize \/ AutoInit
             \/ Halt \/ Continue \/ ExitAutoInit \/ SpeakerOn \/ SpeakerOff \/ TriggerIRQ
             \/ Reset \/ AckIRQ

-----------------------------------------------------------------------------
(* The card.                                                               *)

(* The mixer's tick.                                                       *)
MixerTick ==
    /\ sb.speaker /\ sb.mode = "dma"
    /\ \E len \in 1..Slice : sb' = SBLASTER_CallBack(sb, len)
    /\ UNCHANGED <<sb16, steps>>

ProcessEvent ==
    /\ sb.process # <<>>
    /\ \E i \in DOMAIN sb.process :
         sb' = PlayDMATransfer([sb EXCEPT !.process = RemoveAt(@, i)], sb.process[i])
    /\ UNCHANGED <<sb16, steps>>

(* SuppressDMATransfer does not set last_dma_callback, so a DMA_MASKED     *)
(* callback from its read may catch up on bytes of its own.                *)
SuppressDMATransfer(c, value, elapsed) ==
    LET n    == Min({value, c.left})
        read == ReadOrWrite(c, n)
        back == IF BecomesMasked(c, n) THEN OnMasked(read, elapsed) ELSE read
        d    == [back EXCEPT !.left = (@ - WordsDone(c, n)) % Word]
        e    == CASE d.left > 0 -> d
                  [] d.left = 0 /\ d.autoinit -> SB_RaiseIRQ([d EXCEPT !.left = d.autosize])
                  [] OTHER -> SB_RaiseIRQ([d EXCEPT !.mode = "none", !.active = FALSE])
    IN  IF e.left > 0 THEN [e EXCEPT !.suppress = Append(@, Min({e.min, e.left}))] ELSE e

(* Mutant: the silent transfer is not scheduled again.                     *)
SuppressEventOnce ==
    /\ sb.suppress # <<>>
    /\ \E i \in DOMAIN sb.suppress, e \in 0..sb.min :
         LET c == [sb EXCEPT !.suppress = RemoveAt(@, i)] IN
         sb' = [SuppressDMATransfer(c, sb.suppress[i], e) EXCEPT !.suppress = c.suppress]
    /\ UNCHANGED <<sb16, steps>>

SuppressEvent ==
    /\ sb.suppress # <<>>
    /\ \E i \in DOMAIN sb.suppress, e \in 0..sb.min :
         sb' = SuppressDMATransfer([sb EXCEPT !.suppress = RemoveAt(@, i)], sb.suppress[i], e)
    /\ UNCHANGED <<sb16, steps>>

RaiseIRQEvent ==
    /\ sb.irqEvents > 0
    /\ sb' = SB_RaiseIRQ([sb EXCEPT !.irqEvents = @ - 1])
    /\ UNCHANGED <<sb16, steps>>

CardStep == MixerTick \/ ProcessEvent \/ SuppressEvent \/ RaiseIRQEvent

Next == GuestStep \/ CardStep

(* Ticks and due events always come; the guest may do nothing.             *)
Spec == Init /\ [][Next]_vars /\ WF_vars(MixerTick) /\ WF_vars(SuppressEvent)
        /\ WF_vars(ProcessEvent) /\ WF_vars(RaiseIRQEvent)

-----------------------------------------------------------------------------
LongestCycle == Max(Lengths)

(* On the SB16 the unsigned count of bytes left in the cycle does not wrap *)
(* around: what is deducted from "the remaining to still read" remained.   *)
LeftNeverWraps == sb16 => sb.left <= LongestCycle

(* However mask, halt, restart, changes of the rate and callbacks          *)
(* interleave with the nested reads, the count of bytes left does not      *)
(* wrap, and the mode is "dma" only with a transfer format (else           *)
(* "Unhandled dma mode"), unless the guest lowers the rate at the wrong    *)
(* time (LowersRate).                                                      *)
TransferConsistent ==
    /\ TypeOK
    /\ LeftNeverWraps
    /\ sb.mode = "dma" => sb.active

(* Masking the DMA channel catches up with time "but [does not] generate   *)
(* an IRQ".                                                                *)
CatchUpRaisesNoIRQ == [][Mask => sb'.pending = sb.pending]_vars

(* A halted transfer reads nothing more until it is continued.             *)
HaltedReadsNothing ==
    [][sb16 /\ sb.mode = "pause" /\ steps' = steps => sb'.count = sb.count /\ sb'.left = sb.left]_vars

(* A running transfer ends its cycle with an IRQ, the audible one of the   *)
(* SB16 through the mixer and the short transfer's event, the silent one   *)
(* of the older cards through its chain of SuppressDMATransfer events,     *)
(* unless the guest halts, masks or resets it or turns the speaker on.     *)
TransferCompletes ==
    sb.mode = "dma" /\ (sb16 \/ sb.suppress # <<>>)
        ~> sb.pending \/ sb.mode # "dma" \/ (~sb16 /\ sb.speaker)

(* Turning the speaker on removes the silent transfer: what is played from *)
(* then on is not also discarded.                                          *)
AudibleIsNotDiscarded == sb.speaker => sb.suppress = <<>>
=============================================================================
