----------------------------- MODULE Intel8042 -----------------------------
(***************************************************************************)
(* The Intel 8042 controller with the keyboard and the PS/2 mouse behind   *)
(* it.  Its one output byte and its buffer are shared by replies of the    *)
(* controller, scancodes and replies of the keyboard, and frames and       *)
(* replies of the mouse.  A device sends a frame only when the controller  *)
(* is ready for it and is told when it gets ready; the two call each other *)
(* back and forth, so the handlers are operators from state to state.      *)
(* A byte is [from, skip, key]: who sent it, may it be sent before the     *)
(* delay is over, and which byte of which key it is (0 for others).        *)
(***************************************************************************)
EXTENDS Integers, FiniteSets, Sequences

CONSTANTS
    BufferSize,     \* of the controller, in bytes
    KbdBufferSize,  \* of the keyboard, in scancodes
    KeyLengths,     \* bytes of a scancode
    FrameLength,    \* bytes of a mouse frame
    MaxReplies,     \* bytes of the longest reply of a device or the controller
    DumpLength,     \* bytes of the diagnostic dump
    MaxKeys,        \* bound: scancodes the host sends
    MaxWrites       \* bound: bytes the guest writes to ports 60h and 64h

(* What may follow a flush always fits: a scancode, a mouse frame and the  *)
(* reply to a command.                                                     *)
ASSUME ConstantsAssumption ==
    /\ {BufferSize, KbdBufferSize, FrameLength, MaxReplies, DumpLength, MaxKeys, MaxWrites} \subseteq Nat \ {0}
    /\ KeyLengths \subseteq Nat \ {0} /\ KeyLengths # {}
    /\ \A n \in KeyLengths : n + FrameLength + MaxReplies <= BufferSize
    /\ DumpLength <= BufferSize

VARIABLES
    guest,  \* what the guest does: see Forbidden
    s       \* controller, keyboard and mouse

vars == <<guest, s>>

Devices == {"kbd", "aux"}

Reply(from) == [from |-> from, skip |-> from = "ctl", key |-> 0]

Replies(from, n) == [i \in 1..n |-> Reply(from)]

(* I8042_AddAuxFrame: only the first byte of a frame waits for the delay.  *)
MouseFrame == [i \in 1..FrameLength |-> [from |-> "aux", skip |-> i > 1, key |-> 0]]

Init ==
    /\ guest \in {"gentle", "disabling", "ram"}
    /\ s = [ buf |-> <<>>, is_data_new |-> FALSE, out |-> Reply("ctl"),
             waiting |-> [d \in Devices |-> 0],    \* waiting_bytes_from_...
             disabled |-> [d \in Devices |-> FALSE],
             delay_expired |-> TRUE,               \* else the timer is running
             kbd_timer_expired |-> TRUE,           \* kbd_disabled_timer_...
             command |-> "none",                   \* waits for a parameter
             dump |-> FALSE,                       \* is_diagnostic_dump
             keys |-> <<>>, overflowed |-> FALSE,  \* the keyboard's buffer
             is_scanning |-> TRUE, repeating |-> FALSE,
             has_data |-> FALSE, mouse_delay_expired |-> TRUE, reporting |-> FALSE,
             data_byte |-> 0,                      \* its key; stays when it is read
             nextKey |-> 0, lastRead |-> 0, writes |-> 0 ]

-----------------------------------------------------------------------------
(* The controller's buffer.                                                *)

(* maybe_transfer_buffer; the IRQ it raises goes to Pic8259.               *)
Transfer(t) ==
    IF t.is_data_new \/ t.buf = <<>> \/ (~t.delay_expired /\ ~Head(t.buf).skip) THEN t
    ELSE [t EXCEPT !.buf = Tail(@), !.out = Head(t.buf), !.is_data_new = TRUE,
                   !.data_byte = Head(t.buf).key, !.delay_expired = FALSE]

(* buffer_add with room in the buffer.                                     *)
BufferAdd(t, b) ==
    IF b.from \in Devices /\ t.disabled[b.from] THEN t
    ELSE Transfer([t EXCEPT !.buf = Append(@, b),
                            !.waiting = [d \in Devices |-> @[d] + (IF d = b.from THEN 1 ELSE 0)]])

BufferAddAll(t, bytes) ==
    LET added[i \in 0..Len(bytes)] == IF i = 0 THEN t ELSE BufferAdd(added[i - 1], bytes[i])
    IN  added[Len(bytes)]

(* maybe_reenable_kbd_port, the first thing I8042_IsReadyForKbdFrame does. *)
Reenable(t) == [t EXCEPT !.disabled["kbd"] = @ /\ ~t.kbd_timer_expired]

(* I8042_IsReadyForAuxFrame and, of a reenabled state, ..ForKbdFrame.      *)
IsReady(t, d) == t.waiting[d] = 0 /\ ~t.disabled[d] /\ ~t.dump

(* What a device does depends on how its frame is added: after a flush     *)
(* there is room for the frames of both, otherwise see AddFrame.           *)
AddToRoom(t, bytes) == IF t.disabled[Head(bytes).from] THEN t ELSE BufferAddAll(t, bytes)

(* The keyboard's maybe_transfer_buffer.                                   *)
SendScancodeBy(t, Add(_, _)) ==
    LET r == Reenable(t) IN
    IF t.keys = <<>> THEN t
    ELSE IF ~IsReady(r, "kbd") THEN r
    ELSE [Add(r, Head(r.keys)) EXCEPT !.keys = Tail(@)]

(* KEYBOARD_NotifyReadyForFrame sends a scancode after this.               *)
Listening(t) == [t EXCEPT !.overflowed = FALSE]

(* The mouse's maybe_transfer_frame, also MOUSEPS2_NotifyReadyForFrame.    *)
SendMouseFrameBy(t, Add(_, _)) ==
    LET r == [t EXCEPT !.mouse_delay_expired = FALSE, !.has_data = FALSE] IN
    IF ~t.mouse_delay_expired \/ ~t.has_data \/ ~IsReady(t, "aux") THEN t
    ELSE IF t.reporting THEN Add(r, MouseFrame) ELSE r

(* Tell a device that has become ready, if it was not (aux, kbd).          *)
NotifyReadyBy(t, aux, kbd, Add(_, _)) ==
    LET m == IF aux /\ IsReady(t, "aux") THEN SendMouseFrameBy(t, Add) ELSE t
        k == IF kbd THEN Reenable(m) ELSE m
    IN  IF kbd /\ IsReady(k, "kbd") THEN SendScancodeBy(Listening(k), Add) ELSE k

(* Mutant: the devices are not told that their bytes are gone.             *)
FlushSilently(t, skip) ==
    [(IF skip THEN t ELSE Reenable(t)) EXCEPT !.is_data_new = FALSE, !.out = Reply("ctl"), !.buf = <<>>,
                                              !.waiting = [d \in Devices |-> 0]]

(* Mutant: the bytes thrown away are still counted as on their way.        *)
FlushKeepsCounts(t, skip) ==
    [(IF skip THEN t ELSE Reenable(t)) EXCEPT !.is_data_new = FALSE, !.out = Reply("ctl"), !.buf = <<>>]

(* flush_buffer; skip is should_skip_device_notify.                        *)
Flush(t, skip) ==
    LET r == IF skip THEN t ELSE Reenable(t)
        e == [r EXCEPT !.is_data_new = FALSE, !.out = Reply("ctl"), !.buf = <<>>,
                       !.waiting = [d \in Devices |-> 0]]
    IN  NotifyReadyBy(e, ~skip /\ ~IsReady(r, "aux"), ~skip /\ ~IsReady(r, "kbd"), AddToRoom)

(* I8042_AddKbdFrame, ..AuxFrame, ..KbdByte, ..AuxByte: enforce_buffer_space *)
(* makes room by a flush.                                                  *)
AddFrame(t, bytes) ==
    IF t.disabled[Head(bytes).from] THEN t
    ELSE BufferAddAll(IF BufferSize < Len(t.buf) + Len(bytes) THEN Flush(t, FALSE) ELSE t, bytes)

SendScancode(t) == SendScancodeBy(t, AddFrame)
SendMouseFrame(t) == SendMouseFrameBy(t, AddFrame)
NotifyReady(t, aux, kbd) == NotifyReadyBy(t, aux, kbd, AddFrame)

-----------------------------------------------------------------------------
(* Port 60h, read.  lastRead is history: the last byte of a key that the   *)
(* guest was given.                                                        *)

CountRead(t, d) == [t EXCEPT !.waiting[d] = @ - 1]

GivenTo(t) == IF t.data_byte = 0 THEN t.lastRead ELSE t.data_byte

(* The end of a dump, then the byte itself, may make a device ready.       *)
NotifyOfRead(t) ==
    LET a == IF t.dump /\ t.buf = <<>> THEN NotifyReady([t EXCEPT !.dump = FALSE], TRUE, TRUE)
                                       ELSE t
        b == IF a.out.from = "aux" THEN NotifyReady(CountRead(a, "aux"), TRUE, FALSE) ELSE a
    IN  IF b.out.from = "kbd" THEN NotifyReady(CountRead(b, "kbd"), FALSE, TRUE) ELSE b

(* A new byte.  What is returned is data_byte after the notifications,     *)
(* which a flush within them may have changed.                             *)
read_data_port ==
    /\ s.is_data_new
    /\ \E c \in {NotifyOfRead(s)} :
         s' = Transfer([c EXCEPT !.is_data_new = FALSE, !.out = Reply("ctl"),
                                 !.lastRead = GivenTo(c)])
    /\ UNCHANGED guest

(* No new byte: the previous one is returned.                              *)
ReadAgain ==
    /\ ~s.is_data_new
    /\ s' = [s EXCEPT !.lastRead = GivenTo(s)]
    /\ UNCHANGED guest

-----------------------------------------------------------------------------
(* Port 64h: commands of the controller.                                   *)

RestartKbdTimer(t) == [t EXCEPT !.kbd_timer_expired = FALSE]

DisableKbd(t) == RestartKbdTimer([t EXCEPT !.disabled["kbd"] = TRUE])

Answer(t, n) == BufferAddAll(Flush(t, TRUE), Replies("ctl", n))

WithParameter == {"WriteByteConfig", "SimulateInputKbd", "SimulateInputAux", "WriteAux", "Write"}

DisablingKbd == {"TestController", "TestPortKbd", "DisablePortKbd"}

Commands == WithParameter \cup DisablingKbd \cup
    {"Read", "ReadFwCopyright", "ReadRam", "DisablePortAux", "EnablePortAux", "TestPortAux", "DiagnosticDump", "EnablePortKbd"}

(* What a kind of guest does not do: a gentle one leaves the keyboard port *)
(* enabled and asks for no dump; one that reads controller RAM, up to the  *)
(* size of the buffer, sends the controller nothing else.                  *)
Forbidden ==
    CASE guest = "gentle"    -> DisablingKbd \cup {"DiagnosticDump", "ReadRam"}
      [] guest = "disabling" -> {"ReadRam"}
      [] guest = "ram"       -> Commands \ {"ReadRam"}

(* execute_command(command): "Read" is any command that answers with a     *)
(* byte, "ReadFwCopyright" answers with a string, "Write" is any that only *)
(* takes a parameter, "ReadRam" is 21h..3fh, which do not flush.           *)
execute_command(t, c) ==
    CASE c \in WithParameter    -> [t EXCEPT !.command = c]
      [] c = "Read"             -> Answer(t, 1)
      [] c = "ReadFwCopyright"  -> Answer(t, MaxReplies)
      [] c = "ReadRam"          -> IF Len(t.buf) >= BufferSize THEN Flush(t, TRUE)
                                                               ELSE BufferAdd(t, Reply("ctl"))
      [] c = "DisablePortAux"   -> [t EXCEPT !.disabled["aux"] = TRUE]
      [] c = "EnablePortAux"    -> [t EXCEPT !.disabled["aux"] = FALSE]
      [] c = "TestPortAux"      -> Answer([t EXCEPT !.disabled["aux"] = TRUE], 1)
      [] c = "TestController"   -> Answer(DisableKbd([t EXCEPT !.disabled["aux"] = TRUE]), 1)
      [] c = "TestPortKbd"      -> Answer(DisableKbd(t), 1)
      [] c = "DiagnosticDump"   -> BufferAddAll([Flush(t, TRUE) EXCEPT !.dump = TRUE],
                                                Replies("ctl", DumpLength))
      [] c = "DisablePortKbd"   -> DisableKbd(t)
      [] c = "EnablePortKbd"    -> [t EXCEPT !.disabled["kbd"] = FALSE]

write_command_port(c) ==
    LET r == Reenable(s)
        d == IF r.dump THEN Flush([r EXCEPT !.dump = FALSE], TRUE) ELSE r
        e == [d EXCEPT !.command = "none", !.kbd_timer_expired = @ /\ ~d.disabled["kbd"],
                       !.writes = IF c = "ReadRam" THEN @ ELSE @ + 1]
    IN  /\ (s.writes < MaxWrites \/ c = "ReadRam") /\ c \notin Forbidden
        /\ s' = NotifyReady(execute_command(e, c), ~IsReady(r, "aux"), ~IsReady(r, "kbd"))
        /\ UNCHANGED guest

-----------------------------------------------------------------------------
(* Port 60h, written: a parameter of the controller, else a byte for the   *)
(* keyboard.                                                               *)

(* MOUSEPS2_PortWrite: replies, and whether frames are reported after it;  *)
(* or the acknowledged poll of a frame.                                    *)
MouseReplies(t, r, n) ==
    BufferAddAll([t EXCEPT !.delay_expired = FALSE, !.reporting = r], Replies("aux", n))

MousePoll(t) ==
    BufferAddAll([t EXCEPT !.delay_expired = FALSE, !.has_data = FALSE], Replies("aux", 1) \o MouseFrame)

MousePortWrite(t) ==
    {MouseReplies(t, r, n) : r \in BOOLEAN, n \in 1..MaxReplies} \cup {MousePoll(t)}

(* The configuration byte disables each port, or not.                      *)
KbdPorts == IF guest = "disabling" THEN BOOLEAN ELSE {FALSE}
SetPorts(t, k, a) == [t EXCEPT !.disabled["kbd"] = k, !.disabled["aux"] = a]

(* execute_command(command, param): what any parameter may lead to.        *)
ExecuteWith(t, c) ==
    CASE c = "WriteByteConfig"  -> {SetPorts(t, k, a) : k \in KbdPorts, a \in BOOLEAN}
      [] c = "SimulateInputKbd" -> {BufferAdd(t, Reply("kbd"))}
      [] c = "SimulateInputAux" -> {BufferAdd(t, Reply("aux"))}
      [] c = "WriteAux"         -> MousePortWrite(t)
      [] c = "Write"            -> {t}

WriteParameter ==
    LET e == [s EXCEPT !.command = "none", !.kbd_timer_expired = @ /\ ~s.disabled["kbd"],
                       !.writes = @ + 1]
        r == Reenable(e)
    IN  /\ s.command # "none" /\ s.writes < MaxWrites
        /\ \E x \in ExecuteWith(Flush(r, TRUE), s.command) :
             s' = NotifyReady(x, ~IsReady(r, "aux"), ~IsReady(r, "kbd"))
        /\ UNCHANGED guest

(* The keyboard's clear_buffer.                                            *)
ClearKeys(t) == [t EXCEPT !.keys = <<>>, !.overflowed = FALSE, !.repeating = FALSE]

(* KEYBOARD_PortWrite: n replies, the buffer cleared or not; the commands  *)
(* that enable or disable scanning, and the reset, always clear it.        *)
WriteToKeyboard ==
    LET f == Flush([s EXCEPT !.disabled["kbd"] = FALSE, !.writes = @ + 1], FALSE)
        g == [f EXCEPT !.delay_expired = FALSE]
    IN  /\ s.command = "none" /\ s.writes < MaxWrites
        /\ \E n \in 0..MaxReplies : LET h == BufferAddAll(g, Replies("kbd", n)) IN
             \/ s' = h
             \/ \E scan \in BOOLEAN : n > 0 /\ s' = ClearKeys([h EXCEPT !.is_scanning = scan])
        /\ UNCHANGED guest

-----------------------------------------------------------------------------
(* The host and the timers.                                                *)

Scancode(n) ==
    [i \in 1..n |-> [from |-> "kbd", skip |-> FALSE, key |-> s.nextKey + i]]

(* Mutant: the newest scancode is put in front of those that wait.         *)
KeyAddInFront(t, code) == SendScancode([t EXCEPT !.keys = <<code>> \o @])

(* The keyboard's buffer_add.                                              *)
KeyAdd(t, code) ==
    CASE t.overflowed -> t
      [] ~t.overflowed /\ Len(t.keys) = KbdBufferSize -> [t EXCEPT !.keys = <<>>, !.overflowed = TRUE]
      [] OTHER -> SendScancode([t EXCEPT !.keys = Append(@, code)])

(* KEYBOARD_AddKey; the key may or may not be the one that repeats.        *)
KEYBOARD_AddKey ==
    /\ s.is_scanning /\ s.nextKey < MaxKeys
    /\ \E n \in KeyLengths, r \in BOOLEAN :
         s' = KeyAdd([s EXCEPT !.repeating = r, !.nextKey = @ + n], Scancode(n))
    /\ UNCHANGED guest

(* typematic_tick, its countdown over.                                     *)
TypematicTick ==
    LET r == IF s.keys = <<>> THEN Reenable(s) ELSE s IN
    /\ s.repeating /\ s.nextKey < MaxKeys
    /\ \E n \in KeyLengths :
         s' = IF s.keys = <<>> /\ IsReady(r, "kbd") /\ s.is_scanning
              THEN KeyAdd([r EXCEPT !.nextKey = @ + n], Scancode(n)) ELSE r
    /\ UNCHANGED guest

(* KEYBOARD_ClrBuffer, from the GUI.                                       *)
KEYBOARD_ClrBuffer == s' = ClearKeys(s) /\ UNCHANGED guest

(* MOUSEPS2_NotifyMoved, ..Button, ..Wheel with something to report.       *)
MouseEvent == s' = SendMouseFrame([s EXCEPT !.has_data = TRUE]) /\ UNCHANGED guest

(* Mutant: the byte held back is not transferred when the delay is over.   *)
DelayHandlerIdle ==
    /\ ~s.delay_expired /\ s' = [s EXCEPT !.delay_expired = TRUE]
    /\ UNCHANGED guest

(* delay_handler.                                                          *)
DelayHandler ==
    /\ ~s.delay_expired /\ s' = Transfer([s EXCEPT !.delay_expired = TRUE])
    /\ UNCHANGED guest

(* kbd_disabled_timer_handler.                                             *)
KbdDisabledTimer ==
    /\ ~s.kbd_timer_expired /\ s.command = "none"  \* else it is restarted
    /\ s' = [s EXCEPT !.kbd_timer_expired = TRUE]
    /\ UNCHANGED guest

(* The mouse's delay_handler.                                              *)
MouseDelayHandler ==
    /\ ~s.mouse_delay_expired
    /\ s' = SendMouseFrame([s EXCEPT !.mouse_delay_expired = TRUE])
    /\ UNCHANGED guest

Next ==
    \/ read_data_port \/ ReadAgain \/ WriteParameter \/ WriteToKeyboard
    \/ \E c \in Commands : write_command_port(c)
    \/ KEYBOARD_AddKey \/ TypematicTick \/ KEYBOARD_ClrBuffer \/ MouseEvent
    \/ DelayHandler \/ KbdDisabledTimer \/ MouseDelayHandler

(* The timers expire and the guest reads what its interrupt announces.     *)
Spec == Init /\ [][Next]_vars /\ WF_vars(read_data_port) /\ WF_vars(DelayHandler)
        /\ WF_vars(KbdDisabledTimer) /\ WF_vars(MouseDelayHandler)

-----------------------------------------------------------------------------
(* The bytes on their way to the guest: the output byte, then the buffer.  *)
OnTheWay(t) == (IF t.is_data_new THEN <<t.out>> ELSE <<>>) \o t.buf

Bytes(q, d) == Cardinality({i \in DOMAIN q : q[i].from = d})

(* The counters of bytes on their way are exact: the asserts of            *)
(* read_data_port hold, and no device is kept waiting for bytes that no    *)
(* longer exist.  A guest that lets bytes of controller RAM pile up until  *)
(* the buffer overflows is left out: see the README.                       *)
WaitingCounts ==
    guest # "ram" => \A d \in Devices : s.waiting[d] = Bytes(OnTheWay(s), d)

(* The bytes of scancodes in q come in the order of the keys, all after n. *)
Rising(q, n) ==
    \A i \in DOMAIN q : q[i].key > 0 => q[i].key > n /\ \A j \in 1..i - 1 : q[j].key < q[i].key

Precede(p, q) == \A i \in DOMAIN p, j \in DOMAIN q : p[i].key < q[j].key

(* Scancode bytes reach the guest in the order of the keys, whatever is    *)
(* flushed in between: those on their way come after what was read, those  *)
(* in the keyboard after these, and the byte that a read without a new one *)
(* would return is not older than what was read.                           *)
KeysInOrder ==
    /\ Rising(OnTheWay(s), s.lastRead)
    /\ s.data_byte > 0 => s.data_byte >= s.lastRead /\ Rising(s.buf, s.data_byte)
    /\ \A k \in DOMAIN s.keys :
         /\ Rising(s.keys[k], s.lastRead)
         /\ Precede(OnTheWay(s), s.keys[k])
         /\ \A j \in 1..k - 1 : Precede(s.keys[j], s.keys[k])

(* No device sits on a frame, or ignores keys, while the controller is     *)
(* ready: each moment it gets ready is announced.  For the keyboard this   *)
(* is so as long as the guest does not disable its port.                   *)
NotStranded ==
    /\ guest = "gentle" /\ IsReady(s, "kbd") => s.keys = <<>> /\ ~s.overflowed
    /\ s.mouse_delay_expired /\ IsReady(s, "aux") => ~s.has_data

(* With a guest that reads and leaves the port enabled every scancode      *)
(* leaves the keyboard.                                                    *)
KeysServed == guest = "gentle" /\ s.keys # <<>> ~> s.keys = <<>>

(* Every scancode leaves the keyboard of a guest that reads, also after it *)
(* has disabled the port, which is enabled again "after certain time".     *)
KeysServedAfterDisable == s.keys # <<>> ~> s.keys = <<>>
=============================================================================
