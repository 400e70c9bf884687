--------------------------- MODULE Pic8259Proofs ---------------------------
(***************************************************************************)
(* Proofs about Pic8259 for any set of lines and any machine.              *)
(***************************************************************************)
EXTENDS Pic8259, TLAPS

(* Nothing but the secondary drives the cascade line.                      *)
CascadeUndriven == <<0, CascadeLine>> \notin DeviceIrqs

(* The invariants as predicates on a register state.                       *)
Exact(s) == s.PIC_IRQCheck <=> Ready(s, 0) # {}
CascadeOn(s) == CascadeLine \in s.irr[0] => Ready(s, 1) # {}
CascadeOff(s) == Ready(s, 1) # {} => CascadeLine \in s.irr[0]
Active(s) ==
  \A c \in Controllers :
    s.active_irq[c] = IF s.isr[c] = {} THEN 8 ELSE Highest(s.isr[c])

(* s and t differ only in the requests of the primary and in PIC_IRQCheck. *)
SameButRequests(s, t) ==
  /\ t.irr[1] = s.irr[1] /\ t.imr = s.imr /\ t.isr = s.isr
  /\ t.active_irq = s.active_irq /\ t.special = s.special
  /\ t.auto_eoi = s.auto_eoi /\ t.rotate = s.rotate

-----------------------------------------------------------------------------
(* Every nonempty set of lines has a highest priority line.                *)
LEMMA HighestExists ==
  ASSUME NEW R \in SUBSET (0..7), R # {}
  PROVE  /\ Highest(R) \in R
         /\ \A j \in R : Highest(R) <= j
         /\ \A i \in R : (\A j \in R : i <= j) => i = Highest(R)
<1>1. \E i \in R : \A j \in R : i <= j
  <2>0. CASE 0 \in R
    BY <2>0
  <2>1. CASE 0 \notin R /\ 1 \in R
    BY <2>1
  <2>2. CASE 0 \notin R /\ 1 \notin R /\ 2 \in R
    BY <2>2
  <2>3. CASE 0 \notin R /\ 1 \notin R /\ 2 \notin R /\ 3 \in R
    BY <2>3
  <2>4. CASE 0 \notin R /\ 1 \notin R /\ 2 \notin R /\ 3 \notin R /\ 4 \in R
    BY <2>4
  <2>5. CASE 0 \notin R /\ 1 \notin R /\ 2 \notin R /\ 3 \notin R /\ 4 \notin R
           /\ 5 \in R
    BY <2>5
  <2>6. CASE 0 \notin R /\ 1 \notin R /\ 2 \notin R /\ 3 \notin R /\ 4 \notin R
           /\ 5 \notin R /\ 6 \in R
    BY <2>6
  <2>7. CASE 0 \notin R /\ 1 \notin R /\ 2 \notin R /\ 3 \notin R /\ 4 \notin R
           /\ 5 \notin R /\ 6 \notin R /\ 7 \in R
    BY <2>7
  <2>8. PICK k \in R : k \in 0..7
    OBVIOUS
  <2>9. \/ k = 0 \/ k = 1 \/ k = 2 \/ k = 3
        \/ k = 4 \/ k = 5 \/ k = 6 \/ k = 7
    BY <2>8
  <2> QED
    BY <2>0, <2>1, <2>2, <2>3, <2>4, <2>5, <2>6, <2>7, <2>8, <2>9, Zenon
<1>2. Highest(R) \in R /\ \A j \in R : Highest(R) <= j
  BY <1>1 DEF Highest
<1>3. ASSUME NEW i \in R, \A j \in R : i <= j
      PROVE  i = Highest(R)
  <2>1. i <= Highest(R) /\ Highest(R) <= i
    BY <1>2, <1>3
  <2>2. \A x \in R : x \in Int
    OBVIOUS
  <2>3. i \in Int /\ Highest(R) \in Int
    BY <1>2, <2>2
  <2> QED
    BY <2>1, <2>3
<1> QED
  BY <1>2, <1>3

LEMMA RaisePrimaryEffect ==
  ASSUME NEW s \in PicState, NEW i \in 0..7
  PROVE  /\ RaisePrimary(s, i) \in PicState
         /\ SameButRequests(s, RaisePrimary(s, i))
         /\ RaisePrimary(s, i).irr[0] = s.irr[0] \cup {i}
         /\ Exact(s) => Exact(RaisePrimary(s, i))
<1> DEFINE t == [s EXCEPT !.irr[0] = @ \cup {i}]
           u == [t EXCEPT !.PIC_IRQCheck = TRUE]
<1>1. /\ t \in PicState /\ SameButRequests(s, t) /\ t.irr[0] = s.irr[0] \cup {i}
      /\ t.PIC_IRQCheck = s.PIC_IRQCheck
  BY DEF PicState, SameButRequests, Controllers
<1> HIDE DEF t
<1>2. /\ u \in PicState /\ SameButRequests(s, u) /\ u.irr[0] = s.irr[0] \cup {i}
      /\ u.PIC_IRQCheck = TRUE
  BY <1>1 DEF PicState, SameButRequests, Controllers
<1> HIDE DEF u
<1>3. Ready(u, 0) = Ready(t, 0)
  BY <1>1, <1>2 DEF Ready, Possible, SameButRequests
<1>4. \A j : j # i => (j \in Ready(t, 0) <=> j \in Ready(s, 0))
  BY <1>1 DEF Ready, Possible, SameButRequests
<1>5. i \in s.irr[0] => Ready(t, 0) = Ready(s, 0)
  BY <1>1 DEF Ready, Possible, SameButRequests
<1>6. CASE i \notin s.irr[0] /\ i \in Ready(t, 0)
  <2>1. RaisePrimary(s, i) = u
    BY <1>6 DEF RaisePrimary, t, u
  <2> QED
    BY <1>2, <1>3, <1>6, <2>1 DEF Exact
<1>7. CASE ~(i \notin s.irr[0] /\ i \in Ready(t, 0))
  <2>1. RaisePrimary(s, i) = t
    BY <1>7 DEF RaisePrimary, t, u
  <2>2. i \notin s.irr[0] => i \notin Ready(s, 0)
    BY DEF Ready, Possible
  <2>3. Ready(t, 0) # {} <=> Ready(s, 0) # {}
    BY <1>4, <1>5, <1>7, <2>2
  <2> QED
    BY <1>1, <2>1, <2>3 DEF Exact
<1> QED
  BY <1>6, <1>7

LEMMA CheckPrimaryEffect ==
  ASSUME NEW s \in PicState
  PROVE  /\ CheckPrimary(s) \in PicState
         /\ SameButRequests(s, CheckPrimary(s))
         /\ CheckPrimary(s).irr = s.irr
         /\ Exact(CheckPrimary(s))
<1>1. /\ CheckPrimary(s) \in PicState /\ SameButRequests(s, CheckPrimary(s))
      /\ CheckPrimary(s).irr = s.irr
      /\ CheckPrimary(s).PIC_IRQCheck = (Ready(s, 0) # {})
  BY DEF CheckPrimary, PicState, SameButRequests
<1>2. Ready(CheckPrimary(s), 0) = Ready(s, 0)
  BY <1>1 DEF Ready, Possible, SameButRequests
<1> QED
  BY <1>1, <1>2 DEF Exact

LEMMA LowerPrimaryEffect ==
  ASSUME NEW s \in PicState, NEW i \in 0..7
  PROVE  /\ LowerPrimary(s, i) \in PicState
         /\ SameButRequests(s, LowerPrimary(s, i))
         /\ LowerPrimary(s, i).irr[0] = s.irr[0] \ {i}
         /\ Exact(s) => Exact(LowerPrimary(s, i))
<1> DEFINE t == [s EXCEPT !.irr[0] = @ \ {i}]
<1>1. /\ t \in PicState /\ SameButRequests(s, t) /\ t.irr[0] = s.irr[0] \ {i}
      /\ t.PIC_IRQCheck = s.PIC_IRQCheck
  BY DEF PicState, SameButRequests, Controllers
<1> HIDE DEF t
<1>2. CASE i \in Ready(s, 0)
  <2>1. LowerPrimary(s, i) = CheckPrimary(t)
    BY <1>2 DEF LowerPrimary, t
  <2> QED
    BY <1>1, <2>1, CheckPrimaryEffect DEF SameButRequests
<1>3. CASE i \notin Ready(s, 0)
  <2>1. LowerPrimary(s, i) = t
    BY <1>3 DEF LowerPrimary, t
  <2>2. Ready(t, 0) = Ready(s, 0)
    BY <1>1, <1>3 DEF Ready, Possible, SameButRequests
  <2> QED
    BY <1>1, <2>1, <2>2 DEF Exact
<1> QED
  BY <1>2, <1>3

(* The lines of the secondary that are ready do not depend on the requests *)
(* of the primary.                                                         *)
LEMMA SameSecondary ==
  ASSUME NEW s, NEW t, SameButRequests(s, t)
  PROVE  Ready(t, 1) = Ready(s, 1)
  BY DEF Ready, Possible, SameButRequests

LEMMA CheckSecondaryEffect ==
  ASSUME NEW s \in PicState
  PROVE  /\ CheckForIrq(s, 1) \in PicState
         /\ SameButRequests(s, CheckForIrq(s, 1))
         /\ Exact(s) => Exact(CheckForIrq(s, 1))
         /\ CascadeOn(CheckForIrq(s, 1)) /\ CascadeOff(CheckForIrq(s, 1))
<1> DEFINE t == CheckForIrq(s, 1)
<1>1. CascadeLine \in 0..7
  BY DEF CascadeLine
<1>2. CASE Ready(s, 1) # {}
  <2>1. t = RaisePrimary(s, CascadeLine)
    BY <1>2 DEF CheckForIrq
  <2>2. /\ t \in PicState /\ SameButRequests(s, t) /\ CascadeLine \in t.irr[0]
        /\ Exact(s) => Exact(t)
    BY <1>1, <2>1, RaisePrimaryEffect
  <2> QED
    BY <1>2, <2>2, SameSecondary DEF CascadeOn, CascadeOff
<1>3. CASE Ready(s, 1) = {}
  <2>1. t = LowerPrimary(s, CascadeLine)
    BY <1>3 DEF CheckForIrq
  <2>2. /\ t \in PicState /\ SameButRequests(s, t) /\ CascadeLine \notin t.irr[0]
        /\ Exact(s) => Exact(t)
    BY <1>1, <2>1, LowerPrimaryEffect
  <2> QED
    BY <1>3, <2>2, SameSecondary DEF CascadeOn, CascadeOff
<1> QED
  BY <1>2, <1>3

(* What every port write and device call preserves, whatever the modes:    *)
(* nothing but the secondary touches the cascade line, and nothing is put  *)
(* in service.                                                             *)
Preserves(s, t) ==
  /\ t \in PicState
  /\ t.special = s.special /\ t.auto_eoi = s.auto_eoi
  /\ Exact(s) => Exact(t)
  /\ CascadeOn(s) => CascadeOn(t)
  /\ CascadeOff(s) => CascadeOff(t)
  /\ Active(s) => Active(t)
  /\ \A c \in Controllers : t.isr[c] \subseteq s.isr[c]

(* A change to the registers of one controller, followed by check_for_irq. *)
LEMMA ChangeAndCheck ==
  ASSUME NEW s \in PicState, NEW t \in PicState, NEW c \in Controllers,
         t.special = s.special, t.auto_eoi = s.auto_eoi,
         Active(s) => Active(t), t.isr[c] \subseteq s.isr[c],
         \A d \in Controllers \ {c} :
           /\ t.irr[d] = s.irr[d] /\ t.imr[d] = s.imr[d] /\ t.isr[d] = s.isr[d]
           /\ t.active_irq[d] = s.active_irq[d],
         t.PIC_IRQCheck = s.PIC_IRQCheck,
         c = 0 => (CascadeLine \in t.irr[0] <=> CascadeLine \in s.irr[0])
  PROVE  Preserves(s, CheckForIrq(t, c))
<1> DEFINE u == CheckForIrq(t, c)
<1>1. CASE c = 0
  <2>1. u = CheckPrimary(t)
    BY <1>1 DEF CheckForIrq
  <2>2. u \in PicState /\ SameButRequests(t, u) /\ u.irr = t.irr /\ Exact(u)
    BY <2>1, CheckPrimaryEffect
  <2> HIDE DEF u
  <2>3. Ready(u, 1) = Ready(t, 1) /\ Ready(t, 1) = Ready(s, 1)
    BY <1>1, <2>2, SameSecondary DEF Ready, Possible, Controllers
  <2>4. Active(t) => Active(u)
    BY <2>2 DEF SameButRequests, Active
  <2>5. \A d \in Controllers : u.isr[d] \subseteq s.isr[d]
    BY <2>2 DEF SameButRequests, Controllers
  <2> QED
    BY <1>1, <2>2, <2>3, <2>4, <2>5
       DEF Preserves, CascadeOn, CascadeOff, SameButRequests, u
<1>2. CASE c = 1
  <2>1. /\ u \in PicState /\ SameButRequests(t, u) /\ (Exact(t) => Exact(u))
        /\ CascadeOn(u) /\ CascadeOff(u)
    BY <1>2, CheckSecondaryEffect
  <2> HIDE DEF u
  <2>2. Ready(t, 0) = Ready(s, 0)
    BY <1>2 DEF Ready, Possible, Controllers
  <2>3. Exact(s) => Exact(t)
    BY <2>2 DEF Exact
  <2>4. Active(t) => Active(u)
    BY <2>1 DEF SameButRequests, Active
  <2>5. \A d \in Controllers : u.isr[d] \subseteq s.isr[d]
    BY <2>1 DEF SameButRequests, Controllers
  <2> QED
    BY <2>1, <2>3, <2>4, <2>5 DEF Preserves, SameButRequests, u
<1> QED
  BY <1>1, <1>2 DEF Controllers

(* A change to the registers of one controller after which the same of its *)
(* lines are ready, and no check.                                          *)
LEMMA ChangeNoCheck ==
  ASSUME NEW s \in PicState, NEW t \in PicState, NEW c \in Controllers,
         t.special = s.special, t.auto_eoi = s.auto_eoi,
         Active(s) => Active(t), t.isr[c] \subseteq s.isr[c],
         \A d \in Controllers \ {c} :
           /\ t.irr[d] = s.irr[d] /\ t.imr[d] = s.imr[d] /\ t.isr[d] = s.isr[d]
           /\ t.active_irq[d] = s.active_irq[d],
         t.PIC_IRQCheck = s.PIC_IRQCheck,
         c = 0 => (CascadeLine \in t.irr[0] <=> CascadeLine \in s.irr[0]),
         Ready(t, c) = Ready(s, c)
  PROVE  Preserves(s, t)
<1>1. \A d \in Controllers \ {c} : Ready(t, d) = Ready(s, d)
  BY DEF Ready, Possible
<1>2. Ready(t, 0) = Ready(s, 0) /\ Ready(t, 1) = Ready(s, 1)
  BY <1>1 DEF Controllers
<1>3. CascadeLine \in t.irr[0] <=> CascadeLine \in s.irr[0]
  BY DEF Controllers
<1> QED
  BY <1>2, <1>3 DEF Preserves, Exact, CascadeOn, CascadeOff

-----------------------------------------------------------------------------
(* The operations on a controller.                                         *)

LEMMA RaiseIrqPreserves ==
  ASSUME NEW s \in PicState, NEW c \in Controllers, NEW i \in 0..7,
         <<c, i>> # <<0, CascadeLine>>
  PROVE  Preserves(s, RaiseIrq(s, c, i))
<1> DEFINE t == [s EXCEPT !.irr[c] = @ \cup {i}]
<1>1. /\ t \in PicState
      /\ t.irr[c] = s.irr[c] \cup {i} /\ t.PIC_IRQCheck = s.PIC_IRQCheck
      /\ t.special = s.special /\ t.auto_eoi = s.auto_eoi
      /\ t.isr = s.isr /\ t.imr = s.imr /\ t.active_irq = s.active_irq
      /\ \A d \in Controllers \ {c} : t.irr[d] = s.irr[d]
  BY DEF PicState, Controllers
<1>2. RaiseIrq(s, c, i) = IF i \notin s.irr[c] /\ i \in Ready(t, c)
                          THEN Activate(t, c) ELSE t
  BY DEF RaiseIrq
<1> HIDE DEF t
<1>3. Active(s) => Active(t)
  BY <1>1 DEF Active
<1>4. c = 0 => (CascadeLine \in t.irr[0] <=> CascadeLine \in s.irr[0])
  BY <1>1
<1>5. CASE i \notin s.irr[c] /\ i \in Ready(t, c)
  <2>1. CheckForIrq(t, c) = Activate(t, c)
    BY <1>5 DEF CheckForIrq, Activate, CheckPrimary, Controllers
  <2>2. Preserves(s, CheckForIrq(t, c))
    BY <1>1, <1>3, <1>4, ChangeAndCheck
  <2> QED
    BY <1>2, <1>5, <2>1, <2>2
<1>6. CASE ~(i \notin s.irr[c] /\ i \in Ready(t, c))
  <2>1. Ready(t, c) = Ready(s, c)
    BY <1>1, <1>6 DEF Ready, Possible
  <2>2. Preserves(s, t)
    BY <1>1, <1>3, <1>4, <2>1, ChangeNoCheck
  <2> QED
    BY <1>2, <1>6, <2>2
<1> QED
  BY <1>5, <1>6

LEMMA LowerIrqPreserves ==
  ASSUME NEW s \in PicState, NEW c \in Controllers, NEW i \in 0..7,
         <<c, i>> # <<0, CascadeLine>>
  PROVE  Preserves(s, LowerIrq(s, c, i))
<1> DEFINE t == [s EXCEPT !.irr[c] = @ \ {i}]
<1>1. /\ t \in PicState
      /\ t.irr[c] = s.irr[c] \ {i} /\ t.PIC_IRQCheck = s.PIC_IRQCheck
      /\ t.special = s.special /\ t.auto_eoi = s.auto_eoi
      /\ t.isr = s.isr /\ t.imr = s.imr /\ t.active_irq = s.active_irq
      /\ \A d \in Controllers \ {c} : t.irr[d] = s.irr[d]
  BY DEF PicState, Controllers
<1>2. LowerIrq(s, c, i) = IF i \in Ready(s, c) THEN CheckForIrq(t, c) ELSE t
  BY DEF LowerIrq
<1> HIDE DEF t
<1>3. Active(s) => Active(t)
  BY <1>1 DEF Active
<1>4. c = 0 => (CascadeLine \in t.irr[0] <=> CascadeLine \in s.irr[0])
  BY <1>1
<1>5. CASE i \in Ready(s, c)
  BY <1>1, <1>2, <1>3, <1>4, <1>5, ChangeAndCheck
<1>6. CASE i \notin Ready(s, c)
  <2>1. Ready(t, c) = Ready(s, c)
    BY <1>1, <1>6 DEF Ready, Possible
  <2>2. Preserves(s, t)
    BY <1>1, <1>3, <1>4, <2>1, ChangeNoCheck
  <2> QED
    BY <1>2, <1>6, <2>2
<1> QED
  BY <1>5, <1>6

LEMMA SetImrPreserves ==
  ASSUME NEW s \in PicState, NEW c \in Controllers, NEW val \in SUBSET (0..7)
  PROVE  Preserves(s, SetImr(s, c, val))
<1> DEFINE mask == IF Machine = "pcjr" /\ c = 0 THEN val \ {6} ELSE val
           change == (s.imr[c] \ mask) \cup (mask \ s.imr[c])
           t == [s EXCEPT !.imr[c] = mask]
<1>1. SetImr(s, c, val) = IF (s.irr[c] \cap change) \ s.isr[c] # {}
                          THEN CheckForIrq(t, c) ELSE t
  BY DEF SetImr
<1>2. mask \in SUBSET (0..7)
  OBVIOUS
<1> HIDE DEF mask
<1>3. /\ t \in PicState
      /\ t.imr[c] = mask /\ t.PIC_IRQCheck = s.PIC_IRQCheck
      /\ t.special = s.special /\ t.auto_eoi = s.auto_eoi
      /\ t.isr = s.isr /\ t.irr = s.irr /\ t.active_irq = s.active_irq
      /\ \A d \in Controllers \ {c} : t.imr[d] = s.imr[d]
  BY <1>2 DEF PicState, Controllers
<1> HIDE DEF t
<1>4. Active(s) => Active(t)
  BY <1>3 DEF Active
<1>5. CASE (s.irr[c] \cap change) \ s.isr[c] # {}
  <2>1. Preserves(s, CheckForIrq(t, c))
    BY <1>3, <1>4, ChangeAndCheck
  <2> QED
    BY <1>1, <1>5, <2>1
<1>6. CASE (s.irr[c] \cap change) \ s.isr[c] = {}
  <2>1. Possible(t, c) = Possible(s, c)
    BY <1>3, <1>6 DEF Possible
  <2>2. Ready(t, c) = Ready(s, c)
    BY <1>3, <2>1 DEF Ready
  <2>3. Preserves(s, t)
    BY <1>3, <1>4, <2>2, ChangeNoCheck
  <2> QED
    BY <1>1, <1>6, <2>3
<1> QED
  BY <1>5, <1>6

LEMMA EndOfInterruptPreserves ==
  ASSUME NEW s \in PicState, NEW c \in Controllers, NEW i \in 0..7
  PROVE  Preserves(s, EndOfInterrupt(s, c, i))
<1> DEFINE isr == s.isr[c] \ {i}
           act == IF isr = {} THEN 8 ELSE Highest(isr)
           t == [s EXCEPT !.isr[c] = isr, !.active_irq[c] = act]
<1>1. EndOfInterrupt(s, c, i) = IF Possible(t, c) # {} THEN CheckForIrq(t, c) ELSE t
  BY DEF EndOfInterrupt
<1>2. isr \in SUBSET (0..7) /\ isr \subseteq s.isr[c]
  BY DEF PicState
<1> HIDE DEF isr
<1>3. act \in 0..8
  <2>1. CASE isr = {}
    BY <2>1
  <2>2. CASE isr # {}
    <3>1. Highest(isr) \in isr
      BY <1>2, <2>2, HighestExists
    <3>2. \A x \in isr : x \in 0..8
      BY <1>2
    <3> QED
      BY <2>2, <3>1, <3>2
  <2> QED
    BY <2>1, <2>2
<1>4. act = IF isr = {} THEN 8 ELSE Highest(isr)
  OBVIOUS
<1> HIDE DEF act
<1>5. /\ t \in PicState
      /\ t.isr[c] = isr /\ t.active_irq[c] = act
      /\ t.PIC_IRQCheck = s.PIC_IRQCheck
      /\ t.special = s.special /\ t.auto_eoi = s.auto_eoi
      /\ t.irr = s.irr /\ t.imr = s.imr
      /\ \A d \in Controllers \ {c} :
           t.isr[d] = s.isr[d] /\ t.active_irq[d] = s.active_irq[d]
  BY <1>2, <1>3 DEF PicState, Controllers
<1> HIDE DEF t
<1>6. Active(s) => Active(t)
  BY <1>4, <1>5 DEF Active
<1>7. CASE Possible(t, c) # {}
  <2>1. Preserves(s, CheckForIrq(t, c))
    BY <1>2, <1>5, <1>6, ChangeAndCheck
  <2> QED
    BY <1>1, <1>7, <2>1
<1>8. CASE Possible(t, c) = {}
  <2>1. Possible(s, c) = {}
    BY <1>2, <1>5, <1>8 DEF Possible
  <2>2. Ready(t, c) = Ready(s, c)
    BY <1>8, <2>1 DEF Ready
  <2>3. Preserves(s, t)
    BY <1>2, <1>5, <1>6, <2>2, ChangeNoCheck
  <2> QED
    BY <1>1, <1>8, <2>3
<1> QED
  BY <1>7, <1>8

-----------------------------------------------------------------------------
(* The steps.                                                              *)

(* A step other than an interrupt's start and a change of mode.            *)
Operation ==
  \/ Device
  \/ \E c \in Controllers :
       \/ \E i \in Lines[c] : SpecificEOI(c, i)
       \/ \E i \in Lines[c], masked \in BOOLEAN : PIC_SetIRQMask(c, i, masked)
       \/ \E single, icw4 \in BOOLEAN : ICW1(c, single, icw4)
       \/ \E on \in BOOLEAN : RotateInAutoEOI(c, on)
       \/ \E mask \in SUBSET Lines[c] : OCW1(c, mask)
       \/ NonspecificEOI(c) \/ ICW2(c) \/ ICW3(c)
  \/ UnsupportedCommand \/ SetInterruptible

ModeChange ==
  \E c \in Controllers :
    \/ \E on \in BOOLEAN : OCW3SpecialMask(c, on)
    \/ \E auto, mode8086 \in BOOLEAN : ICW4(c, auto, mode8086)

(* The cases of PIC_runIRQs.                                               *)

(* PIC_runIRQs with something ready on the primary's own lines.            *)
StartPrimary ==
  /\ halt = "none" /\ interruptible /\ pic.PIC_IRQCheck
  /\ Ready(pic, 0) # {}
  /\ LET i == Highest(Ready(pic, 0))
     IN /\ i # CascadeLine
        /\ IF StartIrqExits(pic, 0)
           THEN halt' = "unsupported" /\ UNCHANGED <<pic, interruptible>>
           ELSE /\ pic' = [StartIrq(pic, 0, i) EXCEPT !.PIC_IRQCheck = FALSE]
                /\ interruptible' \in BOOLEAN
                /\ UNCHANGED halt
  /\ UNCHANGED icw

(* PIC_runIRQs when the line of the secondary comes first.                 *)
StartSecondary ==
  /\ halt = "none" /\ interruptible /\ pic.PIC_IRQCheck
  /\ Ready(pic, 0) # {}
  /\ Highest(Ready(pic, 0)) = CascadeLine
  /\ Ready(pic, 1) # {}
  /\ IF StartIrqExits(pic, 0) \/ StartIrqExits(pic, 1)
     THEN halt' = "unsupported" /\ UNCHANGED <<pic, interruptible>>
     ELSE /\ pic' = [StartIrq(StartIrq(pic, 1, Highest(Ready(pic, 1))), 0, CascadeLine)
                       EXCEPT !.PIC_IRQCheck = FALSE]
          /\ interruptible' \in BOOLEAN
          /\ UNCHANGED halt
  /\ UNCHANGED icw

(* PIC_runIRQs when line 2 comes first but the secondary has nothing.      *)
CascadeExit ==
  /\ halt = "none" /\ interruptible /\ pic.PIC_IRQCheck
  /\ Ready(pic, 0) # {}
  /\ Highest(Ready(pic, 0)) = CascadeLine
  /\ Ready(pic, 1) = {}
  /\ halt' = "cascade"
  /\ UNCHANGED <<pic, icw, interruptible>>

(* PIC_runIRQs with nothing to run only clears the flag.                   *)
NothingToRun ==
  /\ halt = "none" /\ interruptible /\ pic.PIC_IRQCheck
  /\ Ready(pic, 0) = {}
  /\ pic' = [pic EXCEPT !.PIC_IRQCheck = FALSE]
  /\ UNCHANGED <<icw, interruptible, halt>>

LEMMA RunCases ==
  PIC_runIRQs => StartPrimary \/ StartSecondary \/ CascadeExit \/ NothingToRun
<1> SUFFICES ASSUME PIC_runIRQs
             PROVE  StartPrimary \/ StartSecondary \/ CascadeExit \/ NothingToRun
  OBVIOUS
<1>1. CASE Ready(pic, 0) = {}
  BY <1>1 DEF PIC_runIRQs, NothingToRun
<1>2. CASE Ready(pic, 0) # {} /\ Highest(Ready(pic, 0)) # CascadeLine
  BY <1>2 DEF PIC_runIRQs, primary_startIRQ, Interrupt, StartPrimary
<1>3. CASE Ready(pic, 0) # {} /\ Highest(Ready(pic, 0)) = CascadeLine /\ Ready(pic, 1) # {}
  BY <1>3 DEF PIC_runIRQs, secondary_startIRQ, Interrupt, StartSecondary
<1>4. CASE Ready(pic, 0) # {} /\ Highest(Ready(pic, 0)) = CascadeLine /\ Ready(pic, 1) = {}
  BY <1>4 DEF PIC_runIRQs, secondary_startIRQ, CascadeExit
<1> QED
  BY <1>1, <1>2, <1>3, <1>4

LEMMA NextCases == Next => Operation \/ ModeChange \/ PIC_runIRQs
  BY Zenon DEF Next, Command, Operation, ModeChange

LEMMA PreservesItself ==
  ASSUME NEW s \in PicState
  PROVE  Preserves(s, s)
  BY DEF Preserves

LEMMA LinesAreLines ==
  ASSUME NEW c \in Controllers
  PROVE  /\ Lines[c] \subseteq 0..7
         /\ \A mask \in SUBSET Lines[c] : mask \in SUBSET (0..7)
  BY LineAssumption

(* Device calls and port writes, mode changes left aside.                  *)
LEMMA OperationPreserves ==
  ASSUME TypeOK, CascadeUndriven, Operation
  PROVE  Preserves(pic, pic')
<1> USE DEF TypeOK
<1>1. CASE Device
  <2>1. PICK d \in DeviceIrqs :
          PIC_ActivateIRQ(d[1], d[2]) \/ PIC_DeActivateIRQ(d[1], d[2])
    BY <1>1 DEF Device
  <2>2. /\ d[1] \in Controllers /\ d[2] \in 0..7 /\ <<d[1], d[2]>> # <<0, CascadeLine>>
    BY LineAssumption DEF CascadeUndriven
  <2> QED
    BY <2>1, <2>2, RaiseIrqPreserves, LowerIrqPreserves
       DEF PIC_ActivateIRQ, PIC_DeActivateIRQ
<1>2. ASSUME NEW c \in Controllers, NEW i \in Lines[c], SpecificEOI(c, i)
      PROVE  Preserves(pic, pic')
  BY <1>2, EndOfInterruptPreserves, LinesAreLines DEF SpecificEOI
<1>3. ASSUME NEW c \in Controllers, NEW i \in Lines[c], NEW masked \in BOOLEAN,
             PIC_SetIRQMask(c, i, masked)
      PROVE  Preserves(pic, pic')
  <2>1. pic.imr[c] \in SUBSET (0..7)
    BY DEF PicState
  <2>2. (IF masked THEN pic.imr[c] \cup {i} ELSE pic.imr[c] \ {i}) \in SUBSET (0..7)
    BY <2>1, LinesAreLines
  <2> QED
    BY <1>3, <2>2, SetImrPreserves DEF PIC_SetIRQMask
<1>4. ASSUME NEW c \in Controllers, NEW single, NEW icw4, ICW1(c, single, icw4)
      PROVE  Preserves(pic, pic')
  <2>1. {} \in SUBSET (0..7)
    OBVIOUS
  <2> QED
    BY <1>4, <2>1, SetImrPreserves DEF ICW1
<1>5. ASSUME NEW c \in Controllers, NEW on \in BOOLEAN, RotateInAutoEOI(c, on)
      PROVE  Preserves(pic, pic')
  <2>1. pic' = [pic EXCEPT !.rotate[c] = on]
    BY <1>5 DEF RotateInAutoEOI
  <2>2. /\ pic' \in PicState
        /\ pic'.special = pic.special /\ pic'.auto_eoi = pic.auto_eoi
        /\ pic'.irr = pic.irr /\ pic'.imr = pic.imr /\ pic'.isr = pic.isr
        /\ pic'.active_irq = pic.active_irq /\ pic'.PIC_IRQCheck = pic.PIC_IRQCheck
    BY <2>1 DEF PicState
  <2>3. Active(pic) => Active(pic')
    BY <2>2 DEF Active
  <2>4. Ready(pic', c) = Ready(pic, c)
    BY <2>2 DEF Ready, Possible
  <2> QED
    BY <2>2, <2>3, <2>4, ChangeNoCheck
<1>6. ASSUME NEW c \in Controllers, NEW mask \in SUBSET Lines[c], OCW1(c, mask)
      PROVE  Preserves(pic, pic')
  BY <1>6, SetImrPreserves, LinesAreLines DEF OCW1
<1>7. ASSUME NEW c \in Controllers, NonspecificEOI(c)
      PROVE  Preserves(pic, pic')
  <2>1. pic.active_irq[c] \in 0..7
    BY <1>7 DEF PicState, NonspecificEOI
  <2> QED
    BY <1>7, <2>1, EndOfInterruptPreserves DEF NonspecificEOI
<1>8. ASSUME pic' = pic
      PROVE  Preserves(pic, pic')
  BY <1>8, PreservesItself
<1> QED
  BY <1>1, <1>2, <1>3, <1>4, <1>5, <1>6, <1>7, <1>8
     DEF Operation, ICW2, ICW3, UnsupportedCommand, SetInterruptible

(* ICW4 and the special mask.                                              *)
LEMMA ModeChangeKeeps ==
  ASSUME TypeOK, ModeChange
  PROVE  /\ pic' \in PicState
         /\ CascadeOn(pic) => CascadeOn(pic')
         /\ pic'.isr = pic.isr
<1> USE DEF TypeOK
<1>1. ASSUME NEW c \in Controllers, NEW on \in BOOLEAN, OCW3SpecialMask(c, on)
      PROVE  /\ pic' \in PicState
             /\ CascadeOn(pic) => CascadeOn(pic')
             /\ pic'.isr = pic.isr
  <2> DEFINE t == [pic EXCEPT !.special[c] = on]
  <2>1. pic' = CheckForIrq(t, c)
    BY <1>1 DEF OCW3SpecialMask
  <2>2. /\ t \in PicState /\ t.irr = pic.irr /\ t.imr = pic.imr /\ t.isr = pic.isr
        /\ t.active_irq = pic.active_irq
        /\ \A d \in Controllers \ {c} : t.special[d] = pic.special[d]
    BY DEF PicState
  <2> HIDE DEF t
  <2>3. CASE c = 0
    <3>1. pic' = CheckPrimary(t)
      BY <2>1, <2>3 DEF CheckForIrq
    <3>2. pic' \in PicState /\ SameButRequests(t, pic') /\ pic'.irr = t.irr
      BY <2>2, <3>1, CheckPrimaryEffect
    <3>3. Ready(pic', 1) = Ready(t, 1)
      BY <3>2, SameSecondary
    <3>4. Ready(t, 1) = Ready(pic, 1)
      BY <2>2, <2>3 DEF Ready, Possible, Controllers
    <3> QED
      BY <2>2, <3>2, <3>3, <3>4 DEF CascadeOn, SameButRequests
  <2>4. CASE c = 1
    BY <2>1, <2>2, <2>4, CheckSecondaryEffect DEF SameButRequests
  <2> QED
    BY <2>3, <2>4 DEF Controllers
<1>2. ASSUME NEW c \in Controllers, NEW auto \in BOOLEAN, NEW mode8086 \in BOOLEAN,
             ICW4(c, auto, mode8086)
      PROVE  /\ pic' \in PicState
             /\ CascadeOn(pic) => CascadeOn(pic')
             /\ pic'.isr = pic.isr
  <2>1. pic' = [pic EXCEPT !.auto_eoi[c] = auto]
    BY <1>2 DEF ICW4
  <2>2. /\ pic' \in PicState /\ pic'.irr = pic.irr /\ pic'.imr = pic.imr
        /\ pic'.isr = pic.isr /\ pic'.active_irq = pic.active_irq
        /\ pic'.special = pic.special
    BY <2>1 DEF PicState
  <2>3. Ready(pic', 1) = Ready(pic, 1)
    BY <2>2 DEF Ready, Possible
  <2> QED
    BY <2>2, <2>3 DEF CascadeOn
<1> QED
  BY <1>1, <1>2 DEF ModeChange

(* Neither does anything in a guest that uses no mode.                     *)
LEMMA NoModeChange ==
  ASSUME TypeOK, ModeChange, GuestModes = {},
         \A c \in Controllers : ~pic.special[c] /\ ~pic.auto_eoi[c]
  PROVE  Preserves(pic, pic')
<1> USE DEF TypeOK
<1>1. ASSUME NEW c \in Controllers, NEW on \in BOOLEAN, OCW3SpecialMask(c, on)
      PROVE  Preserves(pic, pic')
  <2>1. on = FALSE
    BY <1>1 DEF OCW3SpecialMask
  <2>2. [pic EXCEPT !.special[c] = FALSE] = pic
    BY DEF PicState
  <2>3. pic' = CheckForIrq(pic, c)
    BY <1>1, <2>1, <2>2 DEF OCW3SpecialMask
  <2> QED
    BY <2>3, ChangeAndCheck
<1>2. ASSUME NEW c \in Controllers, NEW auto \in BOOLEAN, NEW mode8086 \in BOOLEAN,
             ICW4(c, auto, mode8086)
      PROVE  Preserves(pic, pic')
  <2>1. auto = FALSE
    BY <1>2 DEF ICW4
  <2>2. [pic EXCEPT !.auto_eoi[c] = FALSE] = pic
    BY DEF PicState
  <2>3. pic' = pic
    BY <1>2, <2>1, <2>2 DEF ICW4
  <2> QED
    BY <2>3, PreservesItself
<1> QED
  BY <1>1, <1>2 DEF ModeChange

-----------------------------------------------------------------------------
(* Starting an interrupt.                                                  *)

LEMMA ReadyAreLines ==
  ASSUME NEW s \in PicState, NEW c \in Controllers
  PROVE  /\ Ready(s, c) \in SUBSET (0..7)
         /\ Ready(s, c) \subseteq s.irr[c] \ s.imr[c]
  BY DEF Ready, Possible, PicState

LEMMA StartIrqEffect ==
  ASSUME NEW s \in PicState, NEW c \in Controllers, NEW i \in 0..7
  PROVE  /\ StartIrq(s, c, i) \in PicState
         /\ StartIrq(s, c, i).irr[c] = s.irr[c] \ {i}
         /\ StartIrq(s, c, i).imr = s.imr
         /\ StartIrq(s, c, i).special = s.special
         /\ StartIrq(s, c, i).auto_eoi = s.auto_eoi
         /\ StartIrq(s, c, i).PIC_IRQCheck = s.PIC_IRQCheck
         /\ StartIrq(s, c, i).isr[c] \subseteq s.isr[c] \cup {i}
         /\ \A d \in Controllers \ {c} :
              /\ StartIrq(s, c, i).irr[d] = s.irr[d]
              /\ StartIrq(s, c, i).isr[d] = s.isr[d]
              /\ StartIrq(s, c, i).active_irq[d] = s.active_irq[d]
<1>1. CASE s.auto_eoi[c]
  BY <1>1 DEF StartIrq, PicState
<1>2. CASE ~s.auto_eoi[c]
  <2> DEFINE t == [s EXCEPT !.irr[c] = @ \ {i}, !.isr[c] = @ \cup {i},
                            !.active_irq[c] = i]
  <2>1. StartIrq(s, c, i) = t
    BY <1>2 DEF StartIrq
  <2>2. s.irr[c] \ {i} \in SUBSET (0..7) /\ s.isr[c] \cup {i} \in SUBSET (0..7)
    BY DEF PicState
  <2>3. i \in 0..8
    OBVIOUS
  <2>4. t \in PicState
    BY <2>2, <2>3 DEF PicState
  <2>5. /\ t.irr[c] = s.irr[c] \ {i} /\ t.imr = s.imr /\ t.special = s.special
        /\ t.auto_eoi = s.auto_eoi /\ t.PIC_IRQCheck = s.PIC_IRQCheck
        /\ t.isr[c] = s.isr[c] \cup {i} /\ t.active_irq[c] = i
        /\ \A d \in Controllers \ {c} : /\ t.irr[d] = s.irr[d] /\ t.isr[d] = s.isr[d]
                                       /\ t.active_irq[d] = s.active_irq[d]
    BY DEF PicState
  <2> QED
    BY <2>1, <2>4, <2>5
<1> QED
  BY <1>1, <1>2

(* With neither special mask nor automatic EOI, starting the first ready   *)
(* line leaves none ready, and it is the highest line in service.          *)
LEMMA StartHighest ==
  ASSUME NEW s \in PicState, NEW c \in Controllers, Ready(s, c) # {},
         ~s.special[c], ~s.auto_eoi[c],
         s.active_irq[c] = IF s.isr[c] = {} THEN 8 ELSE Highest(s.isr[c])
  PROVE  /\ Ready(StartIrq(s, c, Highest(Ready(s, c))), c) = {}
         /\ \A j \in s.isr[c] : Highest(Ready(s, c)) < j
         /\ StartIrq(s, c, Highest(Ready(s, c))).active_irq[c] =
              Highest(StartIrq(s, c, Highest(Ready(s, c))).isr[c])
         /\ StartIrq(s, c, Highest(Ready(s, c))).isr[c] # {}
<1> DEFINE first == Highest(Ready(s, c))
           t == StartIrq(s, c, first)
<1>1. /\ first \in Ready(s, c) /\ first \in 0..7 /\ \A j \in Ready(s, c) : first <= j
  BY ReadyAreLines, HighestExists
<1>2. first < s.active_irq[c]
  BY <1>1 DEF Ready
<1> HIDE DEF first
<1>3. /\ t \in PicState /\ t.irr[c] = s.irr[c] \ {first} /\ t.imr = s.imr
      /\ t.special = s.special /\ t.isr[c] = s.isr[c] \cup {first} /\ t.active_irq[c] = first
  <2>1. t = [s EXCEPT !.irr[c] = @ \ {first}, !.isr[c] = @ \cup {first},
                      !.active_irq[c] = first]
    BY DEF StartIrq
  <2>2. s.irr[c] \ {first} \in SUBSET (0..7) /\ s.isr[c] \cup {first} \in SUBSET (0..7)
    BY <1>1 DEF PicState
  <2>3. first \in 0..8
    BY <1>1
  <2> HIDE DEF t
  <2> QED
    BY <2>1, <2>2, <2>3 DEF PicState
<1> HIDE DEF t
<1>4. /\ s.isr[c] \in SUBSET (0..7) /\ t.isr[c] \in SUBSET (0..7)
      /\ s.active_irq[c] \in 0..8
  BY <1>3 DEF PicState
<1>5. ASSUME NEW j \in Ready(t, c)
      PROVE  FALSE
  <2>1. /\ j \in Possible(s, c) /\ j \in s.irr[c] /\ j < first
    BY <1>3 DEF Ready, Possible
  <2>2. j \in 0..7
    BY <2>1 DEF PicState
  <2>3. j < s.active_irq[c]
    BY <1>1, <1>2, <1>4, <2>1, <2>2
  <2>4. j \in Ready(s, c)
    BY <2>1, <2>3 DEF Ready
  <2> QED
    BY <1>1, <2>1, <2>2, <2>4
<1>6. ASSUME NEW j \in s.isr[c]
      PROVE  first < j
  <2>1. s.active_irq[c] = Highest(s.isr[c])
    BY <1>6
  <2>2. Highest(s.isr[c]) <= j
    BY <1>4, HighestExists
  <2>3. j \in 0..7
    BY <1>4
  <2>4. s.active_irq[c] <= j
    BY <2>1, <2>2
  <2> HIDE <2>1, <2>2
  <2> QED
    BY <1>1, <1>2, <1>4, <2>3, <2>4
<1>7. first \in t.isr[c] /\ \A j \in t.isr[c] : first <= j
  <2>1. \A j \in s.isr[c] : j \in Int /\ first < j
    BY <1>4, <1>6
  <2> QED
    BY <1>1, <1>3, <2>1
<1>8. first = Highest(t.isr[c])
  BY <1>4, <1>7, HighestExists
<1> QED
  BY <1>3, <1>5, <1>6, <1>7, <1>8 DEF first, t

(* Clearing PIC_IRQCheck changes nothing else.                             *)
LEMMA ClearIrqCheck ==
  ASSUME NEW s \in PicState
  PROVE  /\ [s EXCEPT !.PIC_IRQCheck = FALSE] \in PicState
         /\ [s EXCEPT !.PIC_IRQCheck = FALSE].PIC_IRQCheck = FALSE
         /\ SameButRequests(s, [s EXCEPT !.PIC_IRQCheck = FALSE])
         /\ [s EXCEPT !.PIC_IRQCheck = FALSE].irr = s.irr
  BY DEF PicState, SameButRequests

LEMMA SameReady ==
  ASSUME NEW s, NEW t, SameButRequests(s, t), t.irr = s.irr
  PROVE  Ready(t, 0) = Ready(s, 0) /\ Ready(t, 1) = Ready(s, 1)
  BY DEF Ready, Possible, SameButRequests

(* PIC_runIRQs in any mode: the cascade line stays truthful, so that       *)
(* secondary_startIRQ finds an interrupt.                                  *)
LEMMA RunKeepsCascade ==
  ASSUME TypeOK, PIC_runIRQs, CascadeOn(pic)
  PROVE  /\ pic' \in PicState
         /\ CascadeOn(pic')
         /\ halt' \in {"none", "unsupported"}
<1> USE DEF TypeOK
<1>1. CASE StartPrimary
  <2> DEFINE i == Highest(Ready(pic, 0))
             s == StartIrq(pic, 0, i)
             t == [s EXCEPT !.PIC_IRQCheck = FALSE]
  <2>1. /\ i # CascadeLine /\ Ready(pic, 0) # {}
        /\ halt' \in {"none", "unsupported"} /\ (pic' = pic \/ pic' = t)
    BY <1>1 DEF StartPrimary
  <2>2. i \in 0..7
    BY <2>1, ReadyAreLines, HighestExists DEF Controllers
  <2> HIDE DEF i
  <2>3. /\ s \in PicState /\ s.irr[0] = pic.irr[0] \ {i}
        /\ s.irr[1] = pic.irr[1] /\ s.imr = pic.imr /\ s.special = pic.special
        /\ s.isr[1] = pic.isr[1] /\ s.active_irq[1] = pic.active_irq[1]
    <3>1. s \in PicState
      BY <2>2, StartIrqEffect DEF Controllers
    <3> QED
      BY <2>2, <3>1, SMTT(20) DEF StartIrq, PicState, Controllers
  <2> HIDE DEF s
  <2>4. t \in PicState /\ SameButRequests(s, t) /\ t.irr = s.irr
    BY <2>3, ClearIrqCheck
  <2> HIDE DEF t
  <2>5. Ready(t, 1) = Ready(s, 1)
    BY <2>4, SameReady
  <2>6. Ready(s, 1) = Ready(pic, 1)
    BY <2>3 DEF Ready, Possible
  <2>7. CascadeOn(t)
    BY <2>3, <2>4, <2>5, <2>6 DEF CascadeOn
  <2> QED
    BY <2>1, <2>4, <2>7
<1>2. CASE StartSecondary
  <2> DEFINE i == Highest(Ready(pic, 1))
             r == StartIrq(pic, 1, i)
             s == StartIrq(r, 0, CascadeLine)
             t == [s EXCEPT !.PIC_IRQCheck = FALSE]
  <2>1. /\ Ready(pic, 1) # {}
        /\ halt' \in {"none", "unsupported"} /\ (pic' = pic \/ pic' = t)
    BY <1>2 DEF StartSecondary
  <2>2. i \in 0..7
    BY <2>1, ReadyAreLines, HighestExists DEF Controllers
  <2> HIDE DEF i
  <2>3. r \in PicState
    BY <2>2, StartIrqEffect DEF Controllers
  <2> HIDE DEF r
  <2>4. s \in PicState
    BY <2>3, StartIrqEffect DEF Controllers, CascadeLine
  <2>5. CascadeLine \notin s.irr[0]
    BY <2>3 DEF StartIrq, PicState, Controllers
  <2> HIDE DEF s
  <2>6. t \in PicState /\ t.irr = s.irr
    BY <2>4, ClearIrqCheck
  <2> HIDE DEF t
  <2>7. CascadeOn(t)
    BY <2>5, <2>6 DEF CascadeOn
  <2> QED
    BY <2>1, <2>6, <2>7
<1>3. CASE CascadeExit
  <2>1. /\ Ready(pic, 0) # {} /\ Highest(Ready(pic, 0)) = CascadeLine
        /\ Ready(pic, 1) = {}
    BY <1>3 DEF CascadeExit
  <2>2. CascadeLine \in pic.irr[0]
    BY <2>1, ReadyAreLines, HighestExists DEF Controllers
  <2> QED
    BY <2>1, <2>2 DEF CascadeOn
<1>4. CASE NothingToRun
  <2>1. pic' = [pic EXCEPT !.PIC_IRQCheck = FALSE] /\ halt' = "none"
    BY <1>4 DEF NothingToRun
  <2>2. pic' \in PicState /\ SameButRequests(pic, pic') /\ pic'.irr = pic.irr
    BY <2>1, ClearIrqCheck
  <2>3. Ready(pic', 1) = Ready(pic, 1)
    BY <2>2, SameReady
  <2> QED
    BY <2>1, <2>2, <2>3 DEF CascadeOn
<1> QED
  BY <1>1, <1>2, <1>3, <1>4, RunCases

-----------------------------------------------------------------------------
LEMMA InitPic == Init => /\ pic \in PicState
                         /\ \A c \in Controllers : Ready(pic, c) = {}
                         /\ CascadeLine \notin pic.irr[0]
                         /\ pic.PIC_IRQCheck = FALSE
                         /\ Active(pic)
                         /\ \A c \in Controllers : ~pic.special[c] /\ ~pic.auto_eoi[c]
<1> SUFFICES ASSUME Init
             PROVE  /\ pic \in PicState
                    /\ \A c \in Controllers : Ready(pic, c) = {}
                    /\ CascadeLine \notin pic.irr[0]
                    /\ pic.PIC_IRQCheck = FALSE
                    /\ Active(pic)
                    /\ \A c \in Controllers : ~pic.special[c] /\ ~pic.auto_eoi[c]
  OBVIOUS
<1>1. /\ \A c \in Controllers : pic.irr[c] = {} /\ pic.isr[c] = {}
                                /\ pic.active_irq[c] = 8
                                /\ pic.special[c] = FALSE /\ pic.auto_eoi[c] = FALSE
      /\ pic.PIC_IRQCheck = FALSE
  BY DEF Init
<1>2. pic \in PicState
  BY LineAssumption DEF Init, PicState
<1>3. \A c \in Controllers : Ready(pic, c) = {}
  BY <1>1 DEF Ready, Possible
<1> QED
  BY <1>1, <1>2, <1>3 DEF Active, Controllers

LEMMA IcwSteps ==
  ASSUME TypeOK, InitSequence, [Next]_vars
  PROVE  icw' \in IcwState /\ InitSequence'
<1> USE DEF TypeOK
<1>1. ASSUME icw' = icw
      PROVE  icw' \in IcwState /\ InitSequence'
  BY <1>1 DEF InitSequence
<1>2. ASSUME NEW c \in Controllers, NEW n \in 0..3,
             icw' = [icw EXCEPT !.index[c] = n],
             n = 2 => ~icw.single[c], n = 3 /\ ~icw.single[c] => icw.words[c] = 3
      PROVE  icw' \in IcwState /\ InitSequence'
  <2>1. icw' \in IcwState
    BY <1>2 DEF IcwState
  <2>2. /\ icw'.index[c] = n /\ icw'.words = icw.words /\ icw'.single = icw.single
        /\ \A d \in Controllers \ {c} : icw'.index[d] = icw.index[d]
    BY <1>2 DEF IcwState
  <2> QED
    BY <1>2, <2>1, <2>2 DEF InitSequence
<1>3. ASSUME NEW c \in Controllers, NEW single \in BOOLEAN, NEW icw4 \in BOOLEAN,
             ICW1(c, single, icw4)
      PROVE  icw' \in IcwState /\ InitSequence'
  <2>1. icw' = [icw EXCEPT !.single[c] = single, !.index[c] = 1,
                           !.words[c] = IF icw4 THEN 3 ELSE 2]
    BY <1>3 DEF ICW1
  <2>2. icw' \in IcwState
    <3> DEFINE w == IF icw4 THEN 3 ELSE 2
    <3>1. w \in 0..3
      OBVIOUS
    <3>2. icw' = [icw EXCEPT !.single[c] = single, !.index[c] = 1, !.words[c] = w]
      BY <2>1
    <3> HIDE DEF w
    <3>3. icw' = [index |-> [icw.index EXCEPT ![c] = 1],
                  words |-> [icw.words EXCEPT ![c] = w],
                  single |-> [icw.single EXCEPT ![c] = single]]
      BY <3>2 DEF IcwState
    <3> QED
      BY <3>1, <3>3 DEF IcwState
  <2>3. /\ icw'.index[c] = 1
        /\ \A d \in Controllers \ {c} : /\ icw'.index[d] = icw.index[d]
                                        /\ icw'.words[d] = icw.words[d]
                                        /\ icw'.single[d] = icw.single[d]
    BY <2>1 DEF IcwState
  <2> QED
    BY <2>2, <2>3 DEF InitSequence
<1>4. ASSUME NEW c \in Controllers
      PROVE  /\ icw.index[c] \in 0..3 /\ icw.words[c] \in 0..3
             /\ icw.single[c] \in BOOLEAN
             /\ icw.index[c] = 2 => ~icw.single[c]
             /\ icw.index[c] = 3 /\ ~icw.single[c] => icw.words[c] = 3
  BY DEF IcwState, InitSequence
<1>5. ASSUME NEW c \in Controllers, ICW2(c)
      PROVE  icw' \in IcwState /\ InitSequence'
  <2> DEFINE n == IF icw.index[c] < icw.words[c] /\ icw.single[c] THEN 3 ELSE NextIcw(c)
  <2>1. n \in 0..3 /\ (n = 2 => ~icw.single[c])
        /\ (n = 3 /\ ~icw.single[c] => icw.words[c] = 3)
    BY <1>4, <1>5 DEF ICW2, NextIcw
  <2>2. icw' = [icw EXCEPT !.index[c] = n]
    BY <1>5 DEF ICW2
  <2> QED
    BY <1>2, <2>1, <2>2
<1>6. ASSUME NEW c \in Controllers, ICW3(c)
      PROVE  icw' \in IcwState /\ InitSequence'
  <2>1. /\ NextIcw(c) \in 0..3 /\ NextIcw(c) # 2
        /\ NextIcw(c) = 3 => icw.words[c] = 3
    BY <1>4, <1>6 DEF ICW3, NextIcw
  <2>2. icw' = [icw EXCEPT !.index[c] = NextIcw(c)]
    BY <1>6 DEF ICW3
  <2> QED
    BY <1>2, <2>1, <2>2
<1>7. ASSUME NEW c \in Controllers, NEW auto, NEW mode8086 \in BOOLEAN,
             ICW4(c, auto, mode8086)
      PROVE  icw' \in IcwState /\ InitSequence'
  <2>1. NextIcw(c) = 0
    BY <1>4, <1>7 DEF ICW4, NextIcw
  <2>2. icw' = icw \/ icw' = [icw EXCEPT !.index[c] = NextIcw(c)]
    BY <1>7 DEF ICW4
  <2> QED
    BY <1>1, <1>2, <2>1, <2>2
<1>8. CASE Command
  <2>1. \A c, i, m :
          SpecificEOI(c, i) \/ PIC_SetIRQMask(c, i, m) \/ OCW3SpecialMask(c, i)
            \/ RotateInAutoEOI(c, i) \/ OCW1(c, i) \/ NonspecificEOI(c) => icw' = icw
    BY DEF SpecificEOI, PIC_SetIRQMask, OCW3SpecialMask, RotateInAutoEOI, OCW1,
           NonspecificEOI
  <2> QED
    BY <1>1, <1>3, <1>5, <1>6, <1>7, <1>8, <2>1 DEF Command
<1>9. CASE Device \/ UnsupportedCommand \/ SetInterruptible \/ PIC_runIRQs \/ UNCHANGED vars
  <2>1. icw' = icw
    BY <1>9 DEF Device, PIC_ActivateIRQ, PIC_DeActivateIRQ, UnsupportedCommand,
                SetInterruptible, PIC_runIRQs, vars
  <2> QED
    BY <1>1, <2>1
<1> QED
  BY <1>8, <1>9 DEF Next

(* What halt and interruptible may become outside PIC_runIRQs.             *)
LEMMA OtherFlags ==
  ASSUME TypeOK, NoCascadeExit, Operation \/ ModeChange
  PROVE  halt' \in {"none", "unsupported"} /\ interruptible' \in BOOLEAN
<1>1. halt \in {"none", "unsupported"} /\ interruptible \in BOOLEAN
  BY DEF TypeOK, NoCascadeExit
<1>2. CASE Operation
  BY <1>1, <1>2
     DEF Operation, Device, PIC_ActivateIRQ, PIC_DeActivateIRQ, SpecificEOI,
         PIC_SetIRQMask, ICW1, RotateInAutoEOI, OCW1, NonspecificEOI, ICW2, ICW3,
         UnsupportedCommand, SetInterruptible
<1>3. CASE ModeChange
  BY <1>1, <1>3 DEF ModeChange, OCW3SpecialMask, ICW4
<1> QED
  BY <1>2, <1>3

(* The inductive invariant that holds in every mode.                       *)
SafeInv == TypeOK /\ InitSequence /\ CascadeOn(pic) /\ NoCascadeExit

LEMMA SafeInvInductive ==
  ASSUME CascadeUndriven, SafeInv, [Next]_vars
  PROVE  SafeInv'
<1> USE DEF SafeInv
<1>1. icw' \in IcwState /\ InitSequence'
  BY IcwSteps
<1>2. CASE Operation
  <2>1. pic' \in PicState /\ CascadeOn(pic')
    BY <1>2, OperationPreserves DEF Preserves
  <2> QED
    BY <1>1, <1>2, <2>1, OtherFlags DEF TypeOK, CascadeOn, NoCascadeExit
<1>3. CASE ModeChange
  <2>1. pic' \in PicState /\ CascadeOn(pic')
    BY <1>3, ModeChangeKeeps
  <2> QED
    BY <1>1, <1>3, <2>1, OtherFlags DEF TypeOK, CascadeOn, NoCascadeExit
<1>4. CASE PIC_runIRQs
  <2>1. pic' \in PicState /\ CascadeOn(pic') /\ halt' \in {"none", "unsupported"}
    BY <1>4, RunKeepsCascade
  <2>2. interruptible' \in BOOLEAN
    BY <1>4, RunCases DEF TypeOK, StartPrimary, StartSecondary, CascadeExit, NothingToRun
  <2> QED
    BY <1>1, <2>1, <2>2 DEF TypeOK, CascadeOn, NoCascadeExit
<1>5. CASE UNCHANGED vars
  BY <1>1, <1>5 DEF vars, TypeOK, CascadeOn, NoCascadeExit, Ready, Possible
<1> QED
  BY <1>2, <1>3, <1>4, <1>5, NextCases

LEMMA InitSafe == Init => SafeInv
<1> SUFFICES ASSUME Init PROVE SafeInv
  OBVIOUS
<1>1. pic \in PicState /\ CascadeLine \notin pic.irr[0]
  BY InitPic
<1>2. icw \in IcwState /\ InitSequence
  BY DEF Init, IcwState, InitSequence
<1>3. halt = "none" /\ interruptible = FALSE
  BY DEF Init
<1> QED
  BY <1>1, <1>2, <1>3 DEF SafeInv, TypeOK, CascadeOn, NoCascadeExit

LEMMA SafeInvHolds ==
  ASSUME CascadeUndriven
  PROVE  Spec => []SafeInv
<1>1. Init => SafeInv
  BY InitSafe
<1>2. SafeInv /\ [Next]_vars => SafeInv'
  BY SafeInvInductive
<1> QED
  BY <1>1, <1>2, PTL DEF Spec

(* Every variable keeps its type: in particular no port write or interrupt *)
(* drives active_irq or the position in the initialisation sequence out of *)
(* its range.                                                              *)
THEOREM TypeCorrect ==
  ASSUME CascadeUndriven
  PROVE  Spec => []TypeOK
<1>1. SafeInv => TypeOK
  BY DEF SafeInv
<1> QED
  BY <1>1, SafeInvHolds, PTL

(* In every mode the guest may program, and for every set of lines, the    *)
(* request on line 2 of the primary implies an interrupt that may start on *)
(* the secondary, and the E_Exit in secondary_startIRQ is unreachable, as  *)
(* long as no device is put on IRQ 2.                                      *)
THEOREM CascadeSafe ==
  ASSUME CascadeUndriven
  PROVE  Spec => []CascadeConsistent
<1>1. SafeInv => CascadeConsistent
  BY DEF SafeInv, CascadeConsistent, CascadeOn
<1> QED
  BY <1>1, SafeInvHolds, PTL

(* write_data steps a cascaded controller through exactly the words that   *)
(* ICW1 announced.                                                         *)
THEOREM InitSequenceSafe ==
  ASSUME CascadeUndriven
  PROVE  Spec => []InitSequence
<1>1. SafeInv => InitSequence
  BY DEF SafeInv
<1> QED
  BY <1>1, SafeInvHolds, PTL

-----------------------------------------------------------------------------
(* A guest that uses neither the special mask nor automatic EOI: with      *)
(* either, active_irq no longer orders the interrupts in service, and an   *)
(* interrupt may be ready right after another was started.                 *)
Plain(s) ==
  /\ \A c \in Controllers : ~s.special[c] /\ ~s.auto_eoi[c]
  /\ Exact(s) /\ CascadeOff(s) /\ Active(s)

PlainInv == SafeInv /\ Plain(pic)

(* What may be put in service.                                             *)
HigherOnly ==
  \A c \in Controllers : \A i \in pic'.isr[c] \ pic.isr[c] :
    /\ i \in pic.irr[c] \ pic.imr[c]
    /\ \A j \in pic.isr[c] : i < j

LEMMA PlainStartPrimary ==
  ASSUME PlainInv, StartPrimary
  PROVE  Plain(pic') /\ HigherOnly
<1> USE DEF PlainInv, Plain, SafeInv, TypeOK
<1> DEFINE i == Highest(Ready(pic, 0))
           s == StartIrq(pic, 0, i)
           t == [s EXCEPT !.PIC_IRQCheck = FALSE]
<1>1. /\ i # CascadeLine /\ Ready(pic, 0) # {} /\ pic' = t
  BY DEF StartPrimary, StartIrqExits, Controllers
<1>2. i \in Ready(pic, 0)
  BY <1>1, ReadyAreLines, HighestExists DEF Controllers
<1>3. i \in 0..7 /\ i \in pic.irr[0] \ pic.imr[0]
  BY <1>2, ReadyAreLines DEF Controllers
<1>4. /\ Ready(s, 0) = {} /\ s.active_irq[0] = Highest(s.isr[0]) /\ s.isr[0] # {}
      /\ \A j \in pic.isr[0] : i < j
  BY <1>1, StartHighest DEF Controllers, Active
<1>5. s = [pic EXCEPT !.irr[0] = @ \ {i}, !.isr[0] = @ \cup {i}, !.active_irq[0] = i]
  BY DEF StartIrq, Controllers
<1> HIDE DEF i
<1>6. s \in PicState
  BY <1>3, StartIrqEffect DEF Controllers
<1> HIDE DEF s
<1>7. /\ s.isr[0] = pic.isr[0] \cup {i} /\ s.isr[1] = pic.isr[1]
      /\ s.irr[0] = pic.irr[0] \ {i} /\ s.irr[1] = pic.irr[1]
      /\ s.active_irq[1] = pic.active_irq[1]
      /\ s.imr = pic.imr /\ s.special = pic.special /\ s.auto_eoi = pic.auto_eoi
  BY <1>5 DEF PicState, Controllers
<1>8. /\ t \in PicState /\ SameButRequests(s, t) /\ t.irr = s.irr
      /\ t.PIC_IRQCheck = FALSE
  BY <1>6, ClearIrqCheck
<1> HIDE DEF t
<1>9. Ready(t, 0) = {} /\ Ready(t, 1) = Ready(s, 1)
  BY <1>4, <1>8, SameReady
<1>10. Ready(s, 1) = Ready(pic, 1)
  BY <1>7 DEF Ready, Possible
<1>11. Exact(t)
  BY <1>8, <1>9 DEF Exact
<1>12. CascadeOff(t)
  BY <1>1, <1>7, <1>8, <1>9, <1>10 DEF CascadeOff
<1>13. t.active_irq = s.active_irq /\ t.isr = s.isr
  BY <1>8 DEF SameButRequests
<1>14. Active(t)
  BY <1>4, <1>7, <1>13 DEF Active, Controllers
<1>15. \A c \in Controllers : ~t.special[c] /\ ~t.auto_eoi[c]
  BY <1>7, <1>8 DEF SameButRequests
<1>16. HigherOnly
  BY <1>1, <1>3, <1>4, <1>7, <1>13 DEF HigherOnly, Controllers
<1> QED
  BY <1>1, <1>11, <1>12, <1>14, <1>15, <1>16

LEMMA PlainStartSecondary ==
  ASSUME PlainInv, StartSecondary
  PROVE  Plain(pic') /\ HigherOnly
<1> USE DEF PlainInv, Plain, SafeInv, TypeOK
<1> DEFINE i == Highest(Ready(pic, 1))
           r == StartIrq(pic, 1, i)
           s == StartIrq(r, 0, CascadeLine)
           t == [s EXCEPT !.PIC_IRQCheck = FALSE]
<1>1. /\ Ready(pic, 0) # {} /\ Highest(Ready(pic, 0)) = CascadeLine
      /\ Ready(pic, 1) # {} /\ pic' = t
  BY DEF StartSecondary, StartIrqExits, Controllers
<1>2. i \in Ready(pic, 1) /\ CascadeLine \in Ready(pic, 0)
  BY <1>1, ReadyAreLines, HighestExists DEF Controllers
<1>3. /\ i \in 0..7 /\ i \in pic.irr[1] \ pic.imr[1]
      /\ CascadeLine \in 0..7 /\ CascadeLine \in pic.irr[0] \ pic.imr[0]
  BY <1>2, ReadyAreLines DEF Controllers
<1>4. /\ Ready(r, 1) = {} /\ r.active_irq[1] = Highest(r.isr[1]) /\ r.isr[1] # {}
      /\ \A j \in pic.isr[1] : i < j
  BY <1>1, StartHighest DEF Controllers, Active
<1>5. r = [pic EXCEPT !.irr[1] = @ \ {i}, !.isr[1] = @ \cup {i}, !.active_irq[1] = i]
  BY DEF StartIrq, Controllers
<1> HIDE DEF i
<1>6. r \in PicState
  BY <1>3, StartIrqEffect DEF Controllers
<1> HIDE DEF r
<1>7. /\ r.isr[1] = pic.isr[1] \cup {i} /\ r.isr[0] = pic.isr[0]
      /\ r.irr[0] = pic.irr[0] /\ r.active_irq[0] = pic.active_irq[0]
      /\ r.imr = pic.imr /\ r.special = pic.special /\ r.auto_eoi = pic.auto_eoi
  BY <1>5 DEF PicState, Controllers
<1>8. Ready(r, 0) = Ready(pic, 0)
  BY <1>7 DEF Ready, Possible
<1>9. /\ ~r.special[0] /\ ~r.auto_eoi[0]
      /\ r.active_irq[0] = IF r.isr[0] = {} THEN 8 ELSE Highest(r.isr[0])
  BY <1>7 DEF Active, Controllers
<1>10. /\ Ready(s, 0) = {} /\ s.active_irq[0] = Highest(s.isr[0]) /\ s.isr[0] # {}
       /\ \A j \in r.isr[0] : CascadeLine < j
  BY <1>1, <1>6, <1>8, <1>9, StartHighest DEF Controllers
<1>11. s = [r EXCEPT !.irr[0] = @ \ {CascadeLine}, !.isr[0] = @ \cup {CascadeLine},
                     !.active_irq[0] = CascadeLine]
  BY <1>9 DEF StartIrq
<1>12. s \in PicState
  BY <1>3, <1>6, StartIrqEffect DEF Controllers
<1> HIDE DEF s
<1>13. /\ s.isr[0] = r.isr[0] \cup {CascadeLine} /\ s.isr[1] = r.isr[1]
       /\ s.irr[1] = r.irr[1] /\ s.active_irq[1] = r.active_irq[1]
       /\ s.imr = r.imr /\ s.special = r.special /\ s.auto_eoi = r.auto_eoi
  BY <1>6, <1>11 DEF PicState, Controllers
<1>14. Ready(s, 1) = {}
  <2>1. Ready(s, 1) = Ready(r, 1)
    BY <1>13 DEF Ready, Possible
  <2> QED
    BY <1>4, <2>1
<1>15. /\ t \in PicState /\ SameButRequests(s, t) /\ t.irr = s.irr
       /\ t.PIC_IRQCheck = FALSE
  BY <1>12, ClearIrqCheck
<1> HIDE DEF t
<1>16. Ready(t, 0) = {} /\ Ready(t, 1) = {}
  BY <1>10, <1>14, <1>15, SameReady
<1>17. t.active_irq = s.active_irq /\ t.isr = s.isr
  BY <1>15 DEF SameButRequests
<1>18. Exact(t) /\ CascadeOff(t)
  BY <1>15, <1>16 DEF Exact, CascadeOff
<1>19. Active(t)
  BY <1>4, <1>10, <1>13, <1>17 DEF Active, Controllers
<1>20. \A c \in Controllers : ~t.special[c] /\ ~t.auto_eoi[c]
  BY <1>7, <1>13, <1>15 DEF SameButRequests
<1>21. HigherOnly
  <2>1. \A j \in t.isr[0] \ pic.isr[0] : j = CascadeLine
    BY <1>7, <1>13, <1>17
  <2>2. \A j \in t.isr[1] \ pic.isr[1] : j = i
    BY <1>7, <1>13, <1>17
  <2>3. \A j \in pic.isr[0] : CascadeLine < j
    BY <1>7, <1>10
  <2> QED
    BY <1>1, <1>3, <1>4, <2>1, <2>2, <2>3 DEF HigherOnly, Controllers
<1> QED
  BY <1>1, <1>18, <1>19, <1>20, <1>21

LEMMA PlainPreserved ==
  ASSUME Plain(pic), Preserves(pic, pic')
  PROVE  Plain(pic') /\ HigherOnly
<1>1. pic'.special = pic.special /\ pic'.auto_eoi = pic.auto_eoi
  BY DEF Preserves
<1>2. \A c \in Controllers : ~pic'.special[c] /\ ~pic'.auto_eoi[c]
  BY <1>1 DEF Plain
<1>3. Exact(pic') /\ CascadeOff(pic') /\ Active(pic')
  BY DEF Preserves, Plain
<1>4. HigherOnly
  BY DEF Preserves, HigherOnly
<1> QED
  BY <1>2, <1>3, <1>4 DEF Plain

LEMMA PlainInvInductive ==
  ASSUME CascadeUndriven, GuestModes = {}, PlainInv, [Next]_vars
  PROVE  PlainInv' /\ HigherOnly
<1>1. SafeInv /\ Plain(pic) /\ TypeOK /\ pic \in PicState
  BY DEF PlainInv, SafeInv, TypeOK
<1>2. SafeInv'
  BY <1>1, SafeInvInductive
<1>3. CASE Operation
  BY <1>1, <1>2, <1>3, OperationPreserves, PlainPreserved DEF PlainInv
<1>4. CASE ModeChange
  <2>1. \A c \in Controllers : ~pic.special[c] /\ ~pic.auto_eoi[c]
    BY <1>1 DEF Plain
  <2>2. Preserves(pic, pic')
    BY <1>1, <1>4, <2>1, NoModeChange
  <2> QED
    BY <1>1, <1>2, <2>2, PlainPreserved DEF PlainInv
<1>5. CASE StartPrimary
  BY <1>2, <1>5, PlainStartPrimary DEF PlainInv
<1>6. CASE StartSecondary
  BY <1>2, <1>6, PlainStartSecondary DEF PlainInv
<1>7. CASE CascadeExit \/ UNCHANGED vars
  <2>1. pic' = pic
    BY <1>7 DEF CascadeExit, vars
  <2>2. Preserves(pic, pic')
    BY <1>1, <2>1, PreservesItself
  <2> QED
    BY <1>1, <1>2, <2>2, PlainPreserved DEF PlainInv
<1>8. CASE NothingToRun
  <2>1. Ready(pic, 0) = {} /\ pic.PIC_IRQCheck
    BY <1>8 DEF NothingToRun
  <2> QED
    BY <1>1, <2>1 DEF Plain, Exact
<1> QED
  BY <1>2, <1>3, <1>4, <1>5, <1>6, <1>7, <1>8, NextCases, RunCases DEF PlainInv

LEMMA PlainInvHolds ==
  ASSUME CascadeUndriven, GuestModes = {}
  PROVE  Spec => []PlainInv
<1>1. Init => PlainInv
  <2> SUFFICES ASSUME Init PROVE PlainInv
    OBVIOUS
  <2>1. /\ pic \in PicState /\ CascadeLine \notin pic.irr[0] /\ Active(pic)
        /\ pic.PIC_IRQCheck = FALSE
        /\ \A c \in Controllers : Ready(pic, c) = {}
        /\ \A c \in Controllers : ~pic.special[c] /\ ~pic.auto_eoi[c]
    BY InitPic
  <2>2. SafeInv
    BY InitSafe
  <2> QED
    BY <2>1, <2>2 DEF PlainInv, Plain, Exact, CascadeOff, Controllers
<1>2. PlainInv /\ [Next]_vars => PlainInv'
  BY PlainInvInductive
<1> QED
  BY <1>1, <1>2, PTL DEF Spec

(* Without modes, the flag PIC_IRQCheck that the CPU cores look at is set  *)
(* exactly when the primary has an interrupt that may start.               *)
THEOREM IrqCheckIsExact ==
  ASSUME CascadeUndriven, GuestModes = {}
  PROVE  Spec => []IrqCheckExact
<1>1. PlainInv => IrqCheckExact
  BY DEF PlainInv, Plain, Exact, IrqCheckExact
<1> QED
  BY <1>1, PlainInvHolds, PTL

(* Without modes, the cascade line is requested exactly while the          *)
(* secondary has an interrupt that may start.                              *)
THEOREM CascadeIsExact ==
  ASSUME CascadeUndriven, GuestModes = {}
  PROVE  Spec => []CascadeExact
<1>1. PlainInv => CascadeExact
  BY DEF PlainInv, Plain, SafeInv, CascadeOn, CascadeOff, CascadeExact
<1> QED
  BY <1>1, PlainInvHolds, PTL

(* Without modes, active_irq is the highest priority line in service.      *)
THEOREM ActiveIsHighestHolds ==
  ASSUME CascadeUndriven, GuestModes = {}
  PROVE  Spec => []ActiveIsHighest
<1>1. PlainInv => ActiveIsHighest
  BY DEF PlainInv, Plain, Active, ActiveIsHighest
<1> QED
  BY <1>1, PlainInvHolds, PTL

(* Without modes, an interrupt is started only over interrupts of lower    *)
(* priority, and only if it is requested and not masked.                   *)
THEOREM StartsOnlyHigherHolds ==
  ASSUME CascadeUndriven, GuestModes = {}
  PROVE  Spec => StartsOnlyHigher
<1>1. PlainInv /\ [Next]_vars => [HigherOnly]_vars
  BY PlainInvInductive
<1>2. Spec => [][HigherOnly]_vars
  BY <1>1, PlainInvHolds, PTL DEF Spec
<1> QED
  BY <1>2 DEF StartsOnlyHigher, HigherOnly
=============================================================================
