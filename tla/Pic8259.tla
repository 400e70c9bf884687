------------------------------ MODULE Pic8259 ------------------------------
(***************************************************************************)
(* The two cascaded interrupt controllers of src/hardware/pic.cpp and the  *)
(* flag PIC_IRQCheck through which the primary tells the CPU core that an  *)
(* interrupt is ready.  Controller 0 is the primary (IRQ 0-7), controller  *)
(* 1 the secondary (IRQ 8-15), which signals the primary on its line 2.    *)
(*                                                                         *)
(* A register is the set of the lines whose bits are set.  imrr and isrr,  *)
(* the complements of imr and isr, are not kept.  Vector bases and the     *)
(* choice of the register to read are left out: no control depends on      *)
(* them.  The program is single threaded: an action is one port write, one *)
(* device call or one PIC_runIRQs, with every call it makes.               *)
(***************************************************************************)
EXTENDS Integers

CONSTANTS
  Lines,       \* Lines[c]: the lines of controller c that are in use
  DeviceIrqs,  \* the <<c, line>> that devices raise and lower
  Machine,     \* "pcjr", "ega_vga" or "other"
  GuestModes,  \* the <<c, mode>> the guest turns on, for the modes
               \* "special", "auto_eoi" and "rotate"
  GuestInits   \* which controllers the guest ever initialises again

Controllers == {0, 1}
CascadeLine == 2

ASSUME LineAssumption ==
  /\ Lines \in [Controllers -> SUBSET (0..7)]
  /\ CascadeLine \in Lines[0]
  /\ DeviceIrqs \subseteq {d \in Controllers \X (0..7) : d[2] \in Lines[d[1]]}

VARIABLES
  pic,            \* the registers of both controllers, and PIC_IRQCheck
  icw,            \* where each controller is in its initialisation sequence
  interruptible,  \* the CPU has IF set and is not in the single-step core
  halt            \* "none", or why E_Exit ended the program

vars == <<pic, icw, interruptible, halt>>

PicState ==
  [irr : [Controllers -> SUBSET (0..7)],
   imr : [Controllers -> SUBSET (0..7)],
   isr : [Controllers -> SUBSET (0..7)],
   active_irq : [Controllers -> 0..8],
   special : [Controllers -> BOOLEAN],
   auto_eoi : [Controllers -> BOOLEAN],
   rotate : [Controllers -> BOOLEAN],
   PIC_IRQCheck : BOOLEAN]

IcwState ==
  [index : [Controllers -> 0..3], words : [Controllers -> 0..3],
   single : [Controllers -> BOOLEAN]]

TypeOK ==
  /\ pic \in PicState
  /\ icw \in IcwState
  /\ interruptible \in BOOLEAN
  /\ halt \in {"none", "unsupported", "cascade"}

-----------------------------------------------------------------------------
(* Requested, not masked and not in service.                               *)
Possible(s, c) == (s.irr[c] \ s.imr[c]) \ s.isr[c]

(* Mutant: any line may interrupt what is in service.                      *)
ReadyAnyPriority(s, c) == {i \in Possible(s, c) : TRUE}

(* The lines that may interrupt what controller c has in service.          *)
Ready(s, c) ==
  {i \in Possible(s, c) : s.special[c] \/ i < s.active_irq[c]}

Highest(lines) == CHOOSE i \in lines : \A j \in lines : i <= j

(* Mutant: a raised line reaches the CPU whatever is in service.           *)
RaisePrimaryAlways(s, i) ==
  LET t == [s EXCEPT !.irr[0] = @ \cup {i}]
  IN IF i \in s.imr[0] \cup s.isr[0] THEN t
     ELSE [t EXCEPT !.PIC_IRQCheck = TRUE]

(* raise_irq on the primary, whose activate() sets PIC_IRQCheck.           *)
RaisePrimary(s, i) ==
  LET t == [s EXCEPT !.irr[0] = @ \cup {i}]
  IN IF i \notin s.irr[0] /\ i \in Ready(t, 0)
     THEN [t EXCEPT !.PIC_IRQCheck = TRUE]
     ELSE t

(* check_for_irq on the primary, whose deactivate() clears PIC_IRQCheck.   *)
CheckPrimary(s) == [s EXCEPT !.PIC_IRQCheck = (Ready(s, 0) # {})]

LowerPrimary(s, i) ==
  LET t == [s EXCEPT !.irr[0] = @ \ {i}]
  IN IF i \in Ready(s, 0) THEN CheckPrimary(t) ELSE t

(* The secondary's activate() and deactivate() drive line 2 of the primary.*)
Activate(s, c) ==
  IF c = 0 THEN [s EXCEPT !.PIC_IRQCheck = TRUE] ELSE RaisePrimary(s, CascadeLine)

CheckForIrq(s, c) ==
  IF c = 0 THEN CheckPrimary(s)
  ELSE IF Ready(s, 1) # {} THEN RaisePrimary(s, CascadeLine)
  ELSE LowerPrimary(s, CascadeLine)

RaiseIrq(s, c, i) ==
  LET t == [s EXCEPT !.irr[c] = @ \cup {i}]
  IN IF i \notin s.irr[c] /\ i \in Ready(t, c) THEN Activate(t, c) ELSE t

(* Mutant: the line is dropped without a new look at the others.           *)
LowerIrqNoCheck(s, c, i) == [s EXCEPT !.irr[c] = @ \ {i}]

LowerIrq(s, c, i) ==
  LET t == [s EXCEPT !.irr[c] = @ \ {i}]
  IN IF i \in Ready(s, c) THEN CheckForIrq(t, c) ELSE t

(* Mutant: unmasking does not look for lines that were waiting.            *)
SetImrNoCheck(s, c, val) ==
  [s EXCEPT !.imr[c] = IF Machine = "pcjr" /\ c = 0 THEN val \ {6} ELSE val]

(* set_imr: look again if a changed bit matters.  IRQ 6 of a PCjr is its   *)
(* NMI and cannot be masked.                                               *)
SetImr(s, c, val) ==
  LET mask == IF Machine = "pcjr" /\ c = 0 THEN val \ {6} ELSE val
      change == (s.imr[c] \ mask) \cup (mask \ s.imr[c])
      t == [s EXCEPT !.imr[c] = mask]
  IN IF (s.irr[c] \cap change) \ s.isr[c] # {} THEN CheckForIrq(t, c) ELSE t

(* Mutant: active_irq is left behind by the end of interrupt.              *)
EndOfInterruptStaleActive(s, c, i) ==
  LET t == [s EXCEPT !.isr[c] = @ \ {i}]
  IN IF Possible(t, c) # {} THEN CheckForIrq(t, c) ELSE t

(* An end of interrupt for line i, and check_after_EOI.                    *)
EndOfInterrupt(s, c, i) ==
  LET isr == s.isr[c] \ {i}
      t == [s EXCEPT !.isr[c] = isr,
                     !.active_irq[c] = IF isr = {} THEN 8 ELSE Highest(isr)]
  IN IF Possible(t, c) # {} THEN CheckForIrq(t, c) ELSE t

StartIrq(s, c, i) ==
  IF s.auto_eoi[c]
  THEN [s EXCEPT !.irr[c] = @ \ {i}]
  ELSE [s EXCEPT !.irr[c] = @ \ {i}, !.isr[c] = @ \cup {i}, !.active_irq[c] = i]

(* "rotate on auto EOI not handled"                                        *)
StartIrqExits(s, c) == s.auto_eoi[c] /\ s.rotate[c]

-----------------------------------------------------------------------------
(* The constructor of PIC_8259A: everything masked but a few lines.        *)
Init ==
  /\ pic = [irr |-> [c \in Controllers |-> {}],
            imr |-> [c \in Controllers |->
                      Lines[c] \ IF c = 0
                                 THEN {0, 1, CascadeLine}
                                        \cup (IF Machine = "pcjr" THEN {6} ELSE {})
                                 ELSE {0} \cup (IF Machine = "ega_vga" THEN {1} ELSE {})],
            isr |-> [c \in Controllers |-> {}],
            active_irq |-> [c \in Controllers |-> 8],
            special |-> [c \in Controllers |-> FALSE],
            auto_eoi |-> [c \in Controllers |-> FALSE],
            rotate |-> [c \in Controllers |-> FALSE],
            PIC_IRQCheck |-> FALSE]
  /\ icw = [index |-> [c \in Controllers |-> 0], words |-> [c \in Controllers |-> 0],
            single |-> [c \in Controllers |-> FALSE]]
  /\ interruptible = FALSE
  /\ halt = "none"

(* Devices.                                                                *)
PIC_ActivateIRQ(c, i) ==
  /\ halt = "none"
  /\ pic' = RaiseIrq(pic, c, i)
  /\ UNCHANGED <<icw, interruptible, halt>>

PIC_DeActivateIRQ(c, i) ==
  /\ halt = "none"
  /\ pic' = LowerIrq(pic, c, i)
  /\ UNCHANGED <<icw, interruptible, halt>>

(* PIC_SetIRQMask changes one bit of the mask.                             *)
PIC_SetIRQMask(c, i, masked) ==
  /\ halt = "none"
  /\ pic' = SetImr(pic, c, IF masked THEN pic.imr[c] \cup {i} ELSE pic.imr[c] \ {i})
  /\ UNCHANGED <<icw, interruptible, halt>>

-----------------------------------------------------------------------------
(* write_command: port 0x20 or 0xa0.                                       *)

ICW1(c, is_single, icw4_needed) ==
  /\ halt = "none"
  /\ c \in GuestInits
  /\ pic' = SetImr(pic, c, {})
  /\ icw' = [icw EXCEPT !.single[c] = is_single, !.index[c] = 1,
                        !.words[c] = IF icw4_needed THEN 3 ELSE 2]
  /\ UNCHANGED <<interruptible, halt>>

OCW3SpecialMask(c, on) ==
  /\ halt = "none"
  /\ on => <<c, "special">> \in GuestModes
  /\ pic' = CheckForIrq([pic EXCEPT !.special[c] = on], c)
  /\ UNCHANGED <<icw, interruptible, halt>>

SpecificEOI(c, i) ==
  /\ halt = "none"
  /\ pic' = EndOfInterrupt(pic, c, i)
  /\ UNCHANGED <<icw, interruptible, halt>>

(* Ignored if nothing is in service.                                       *)
NonspecificEOI(c) ==
  /\ halt = "none"
  /\ pic.active_irq[c] # 8
  /\ pic' = EndOfInterrupt(pic, c, pic.active_irq[c])
  /\ UNCHANGED <<icw, interruptible, halt>>

RotateInAutoEOI(c, on) ==
  /\ halt = "none"
  /\ on => <<c, "rotate">> \in GuestModes
  /\ pic' = [pic EXCEPT !.rotate[c] = on]
  /\ UNCHANGED <<icw, interruptible, halt>>

(* ICW1 in 4-byte, level-triggered or 8080 mode, the poll command and the  *)
(* rotating EOIs are not handled and end the program.                      *)
UnsupportedCommand ==
  /\ halt = "none"
  /\ halt' = "unsupported"
  /\ UNCHANGED <<pic, icw, interruptible>>

(* write_data: port 0x21 or 0xa1.                                          *)
OCW1(c, mask) ==
  /\ halt = "none"
  /\ icw.index[c] = 0
  /\ pic' = SetImr(pic, c, mask)
  /\ UNCHANGED <<icw, interruptible, halt>>

(* Mutant: off by one, a word too many is awaited.                         *)
NextIcwTooMany(c) == IF icw.index[c] > icw.words[c] THEN 0 ELSE icw.index[c] + 1

(* if (icw_index++ >= icw_words) icw_index = 0                             *)
NextIcw(c) == IF icw.index[c] >= icw.words[c] THEN 0 ELSE icw.index[c] + 1

ICW2(c) ==
  /\ halt = "none"
  /\ icw.index[c] = 1
  /\ icw' = [icw EXCEPT !.index[c] =
               IF icw.index[c] < icw.words[c] /\ icw.single[c] THEN 3 ELSE NextIcw(c)]
  /\ UNCHANGED <<pic, interruptible, halt>>

ICW3(c) ==
  /\ halt = "none"
  /\ icw.index[c] = 2
  /\ icw' = [icw EXCEPT !.index[c] = NextIcw(c)]
  /\ UNCHANGED <<pic, interruptible, halt>>

(* 8085 mode is not handled and ends the program.                          *)
ICW4(c, automatic, mode8086) ==
  /\ halt = "none"
  /\ icw.index[c] = 3
  /\ automatic => <<c, "auto_eoi">> \in GuestModes
  /\ pic' = [pic EXCEPT !.auto_eoi[c] = automatic]
  /\ IF mode8086
     THEN /\ icw' = [icw EXCEPT !.index[c] = NextIcw(c)]
          /\ UNCHANGED halt
     ELSE /\ halt' = "unsupported"
          /\ UNCHANGED icw
  /\ UNCHANGED interruptible

-----------------------------------------------------------------------------
(* The CPU: CLI, STI, POPF, IRET, and entry to and exit from the           *)
(* single-step core.                                                       *)
SetInterruptible ==
  /\ halt = "none"
  /\ interruptible' = ~interruptible
  /\ UNCHANGED <<pic, icw, halt>>

(* CPU_HW_Interrupt; whether it clears IF depends on the gate it goes      *)
(* through.                                                                *)
Interrupt(s, exits) ==
  IF exits
  THEN halt' = "unsupported" /\ UNCHANGED <<pic, interruptible>>
  ELSE /\ pic' = [s EXCEPT !.PIC_IRQCheck = FALSE]
       /\ interruptible' \in BOOLEAN
       /\ UNCHANGED halt

primary_startIRQ(i) == Interrupt(StartIrq(pic, 0, i), StartIrqExits(pic, 0))

(* It ends the program if line 2 was requested for nothing: "PIC: IRQ 2 is *)
(* active, but IRQ is not active on the secondary controller."             *)
secondary_startIRQ ==
  IF Ready(pic, 1) = {}
  THEN halt' = "cascade" /\ UNCHANGED <<pic, interruptible>>
  ELSE Interrupt(StartIrq(StartIrq(pic, 1, Highest(Ready(pic, 1))), 0, CascadeLine),
                 StartIrqExits(pic, 0) \/ StartIrqExits(pic, 1))

PIC_runIRQs ==
  /\ halt = "none" /\ interruptible /\ pic.PIC_IRQCheck
  /\ IF Ready(pic, 0) = {}
     THEN /\ pic' = [pic EXCEPT !.PIC_IRQCheck = FALSE]
          /\ UNCHANGED <<interruptible, halt>>
     ELSE LET i == Highest(Ready(pic, 0))
          IN IF i = CascadeLine THEN secondary_startIRQ ELSE primary_startIRQ(i)
  /\ UNCHANGED icw

Device ==
  \E d \in DeviceIrqs : PIC_ActivateIRQ(d[1], d[2]) \/ PIC_DeActivateIRQ(d[1], d[2])

Command ==
  \E c \in Controllers :
    \/ \E i \in Lines[c] : SpecificEOI(c, i)
    \/ \E i \in Lines[c], masked \in BOOLEAN : PIC_SetIRQMask(c, i, masked)
    \/ \E single, icw4 \in BOOLEAN : ICW1(c, single, icw4)
    \/ \E on \in BOOLEAN : OCW3SpecialMask(c, on) \/ RotateInAutoEOI(c, on)
    \/ \E mask \in SUBSET Lines[c] : OCW1(c, mask)
    \/ NonspecificEOI(c) \/ ICW2(c) \/ ICW3(c)
    \/ \E auto, mode8086 \in BOOLEAN : ICW4(c, auto, mode8086)

Next == Device \/ Command \/ UnsupportedCommand \/ SetInterruptible \/ PIC_runIRQs

Spec == Init /\ [][Next]_vars

(* PIC_RunQueue runs PIC_runIRQs at the end of every round of the main     *)
(* loop, and the CPU cores leave their loop for it, while PIC_IRQCheck is  *)
(* set.                                                                    *)
FairSpec == Spec /\ WF_vars(PIC_runIRQs)

-----------------------------------------------------------------------------
(* The program does not end itself over an interrupt on line 2.            *)
NoCascadeExit == halt # "cascade"

(* Line 2 of the primary is requested only while the secondary has an      *)
(* interrupt that may start, so PIC_runIRQs finds one there; this is what  *)
(* the E_Exit in secondary_startIRQ relies on.                             *)
CascadeConsistent ==
  /\ CascadeLine \in pic.irr[0] => Ready(pic, 1) # {}
  /\ NoCascadeExit

(* The cached flag PIC_IRQCheck, updated case by case in raise_irq,        *)
(* lower_irq, set_imr and the EOIs, is set exactly when the primary has an *)
(* interrupt that may start: none is left waiting and the CPU is never     *)
(* stopped for nothing.                                                    *)
IrqCheckExact == pic.PIC_IRQCheck <=> Ready(pic, 0) # {}

(* The cascade line follows the secondary exactly.                         *)
CascadeExact == CascadeLine \in pic.irr[0] <=> Ready(pic, 1) # {}

(* active_irq, kept on the side, is the highest priority line in service,  *)
(* so that a nonspecific EOI ends the interrupt that was started last.     *)
ActiveIsHighest ==
  \A c \in Controllers :
    pic.active_irq[c] = IF pic.isr[c] = {} THEN 8 ELSE Highest(pic.isr[c])

(* An interrupt is started only over interrupts of lower priority, and     *)
(* only if it is requested and not masked.                                 *)
StartsOnlyHigher ==
  [][\A c \in Controllers : \A i \in pic'.isr[c] \ pic.isr[c] :
       /\ i \in pic.irr[c] \ pic.imr[c]
       /\ \A j \in pic.isr[c] : i < j]_vars

(* An interrupt that may start does, unless the guest masks it, the device *)
(* withdraws it or interrupts are disabled.                                *)
ReadyIsServed ==
  (Ready(pic, 0) # {} /\ interruptible) ~> (Ready(pic, 0) = {} \/ ~interruptible \/ halt # "none")

(* write_data takes ICW3 only from a cascaded controller, and ICW4 from a  *)
(* cascaded controller only if ICW1 announced it: no mask the guest writes *)
(* after the sequence is taken for a word of it.                           *)
InitSequence ==
  \A c \in Controllers :
    /\ icw.index[c] = 2 => ~icw.single[c]
    /\ icw.index[c] = 3 /\ ~icw.single[c] => icw.words[c] = 3
=============================================================================
