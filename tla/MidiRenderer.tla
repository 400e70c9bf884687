---------------------------- MODULE MidiRenderer ----------------------------
(***************************************************************************)
(* The MT-32 and FluidSynth handlers: the main thread sends MIDI messages  *)
(* through work_fifo to a renderer thread, which renders the audio frames  *)
(* due before each message, applies the message to the synthesizer and     *)
(* pushes the frames through audio_frame_fifo back to the main thread,     *)
(* where the mixer's tick takes them.  Both queues are RWQueues and are    *)
(* used here as the BoundedChannel that RWQueue is proved to implement.    *)
(* Emulated time is counted in small units, of which an audio frame and a  *)
(* tick each take a whole number; a tick need not be a whole number of     *)
(* frames (44.1 kHz: 44.1 frames a millisecond).                           *)
(***************************************************************************)
EXTENDS Integers, Sequences, FiniteSetsExt

CONSTANTS
    WorkCap,       \* capacity of work_fifo (1042 * 10 in the code)
    AudioCap,      \* capacity of audio_frame_fifo (40 ms of frames)
    UnitsPerFrame, \* ms_per_audio_frame, in units of emulated time
    UnitsPerTick,  \* one emulated millisecond, in the same units
    Burst,         \* most messages the guest sends in one tick
    FastForward    \* does emulated time outrun the host's audio device?

ASSUME ConstantsAssumption ==
    /\ {WorkCap, AudioCap, UnitsPerFrame, UnitsPerTick, Burst} \subseteq Nat \ {0}
    /\ FastForward \in BOOLEAN

(* Bound: time is counted up to two ticks since the last rendering.        *)
MaxBehind == 2 * UnitsPerTick

(* The frames that cover a span of time, the last one perhaps in part.     *)
FramesIn(units) == (units + UnitsPerFrame - 1) \div UnitsPerFrame

(* The whole frames of a tick.                                             *)
FramesPerTick == UnitsPerTick \div UnitsPerFrame

(* Is a tick a whole number of frames, as at 48 kHz (and not at 44.1)?     *)
WholeFrames == UnitsPerTick % UnitsPerFrame = 0

VARIABLES
    work, workOpen,   \* work_fifo: the pending frames of each message
    audio, audioOpen, \* audio_frame_fifo: how many frames it holds
    main,             \* where the main thread is
    pending,          \* num_pending_audio_frames of the message being sent
    need,             \* frames BulkDequeue has still to get
    renderer,         \* where the renderer thread is
    todo,             \* frames BulkEnqueue has still to put
    message,          \* does the renderer hold a message to apply?
    awake,            \* is the mixer channel enabled?
    phase,            \* emulated time since the last tick
    behind,           \* now less last_rendered_ms, negative when that is ahead
    credit,           \* mixer.tick_counter: time not yet asked for in frames
    sent,             \* messages sent since the last tick
    service           \* is the synthesizer alive?

workVars == <<work, workOpen>>
audioVars == <<audio, audioOpen>>
mainVars == <<main, pending, need>>
rendererVars == <<renderer, todo, message>>
clockVars == <<phase, behind, credit, sent>>
vars == <<workVars, audioVars, mainVars, rendererVars, clockVars, awake, service>>

(* One type invariant: ranges of the counters, among them the chunk left   *)
(* of each bulk call, and the program counters of the two threads.         *)
TypeOK ==
    /\ work \in Seq(0..FramesIn(MaxBehind)) /\ Len(work) <= WorkCap
    /\ audio \in 0..AudioCap
    /\ main \in {"run", "enqueue", "mix", "stop_work", "stop_audio", "join", "closed"}
    /\ renderer \in {"loop", "pick", "render", "fill", "apply", "ended"}
    /\ {workOpen, audioOpen, message, awake, service} \subseteq BOOLEAN
    /\ pending \in 0..FramesIn(MaxBehind) /\ todo \in 0..FramesIn(MaxBehind)
    /\ need \in 0..FramesPerTick + 1 /\ phase \in 0..UnitsPerTick
    /\ behind \in (1 - UnitsPerFrame)..MaxBehind
    /\ credit \in 0..UnitsPerFrame /\ sent \in 0..Burst

(* Open: the queues are sized, the renderer starts, the channel sleeps     *)
(* until the first message.  A mixer whose rate is not whole starts with   *)
(* one frame in tick_counter.                                              *)
Init ==
    /\ work = <<>> /\ workOpen = TRUE /\ audio = 0 /\ audioOpen = TRUE
    /\ main = "run" /\ pending = 0 /\ need = 0
    /\ renderer = "loop" /\ todo = 0 /\ message = FALSE
    /\ awake = FALSE /\ phase = 0 /\ behind = 0 /\ sent = 0
    /\ credit = (IF WholeFrames THEN 0 ELSE UnitsPerFrame)
    /\ service = TRUE

-----------------------------------------------------------------------------
(* The main thread: the guest runs, sends messages and is interrupted by   *)
(* the mixer's tick.                                                       *)

Advance ==
    /\ main = "run" /\ phase < UnitsPerTick
    /\ phase' = phase + 1
    /\ behind' = Min({behind + 1, MaxBehind})
    /\ UNCHANGED <<workVars, audioVars, mainVars, rendererVars, awake, service, credit, sent>>

(* The frames a message must wait for: a sleeping channel owes none, nor   *)
(* does a datum that is ahead of now.                                      *)
Due == IF awake /\ behind > 0 THEN FramesIn(behind) ELSE 0

(* Mutant: last_rendered_ms is not moved forward by the frames asked for.  *)
GetNumPendingAudioFramesAgain ==
    /\ awake' = TRUE
    /\ pending' = Due
    /\ UNCHANGED behind

(* Mutant: the message does not wake up the sleeping channel.              *)
GetNumPendingAudioFramesAsleep ==
    /\ UNCHANGED awake
    /\ pending' = Due
    /\ behind' = IF awake THEN behind - (Due * UnitsPerFrame) ELSE 0

(* A frame begun counts as a frame due, and last_rendered_ms moves to the  *)
(* end of the last one: up to a frame ahead of now.                        *)
GetNumPendingAudioFrames ==
    /\ awake' = TRUE
    /\ pending' = Due
    /\ behind' = IF awake THEN behind - (Due * UnitsPerFrame) ELSE 0

(* PlayMsg and PlaySysex up to the call of work_fifo.Enqueue.              *)
PlayMsg ==
    /\ main = "run" /\ sent < Burst
    /\ GetNumPendingAudioFrames
    /\ sent' = sent + 1
    /\ main' = "enqueue"
    /\ UNCHANGED <<workVars, audioVars, need, rendererVars, phase, credit, service>>

(* Enqueue blocks while the queue is full.                                 *)
EnqueueWork ==
    /\ main = "enqueue" /\ Len(work) < WorkCap
    /\ work' = Append(work, pending)
    /\ main' = "run"
    /\ UNCHANGED <<workOpen, audioVars, pending, need, rendererVars, clockVars, awake, service>>

(* The frames of the time not yet asked for; frames_needed is clamped: a   *)
(* mixer that is full of frames the host has not yet taken asks the        *)
(* channel for none.                                                       *)
FramesRequested ==
    LET n == (credit + UnitsPerTick) \div UnitsPerFrame
    IN  IF FastForward THEN {0, n} ELSE {n}

(* The tick handler mixes every enabled channel.                           *)
Tick ==
    /\ main = "run" /\ phase = UnitsPerTick
    /\ phase' = 0 /\ sent' = 0
    /\ credit' = (credit + UnitsPerTick) % UnitsPerFrame
    /\ \E n \in FramesRequested :
          IF awake /\ n > 0 THEN main' = "mix" /\ need' = n
                            ELSE UNCHANGED <<main, need>>
    /\ UNCHANGED <<workVars, audioVars, pending, rendererVars, behind, awake, service>>

(* MixerCallBack: BulkDequeue takes what is there and blocks for the rest; *)
(* with all frames the samples are added, and the channel may fall asleep. *)
MixerCallBack ==
    /\ main = "mix" /\ audio > 0
    /\ LET n == Min({need, audio}) IN
         /\ audio' = audio - n
         /\ need' = need - n
         /\ IF n < need THEN UNCHANGED <<main, behind, awake>>
            ELSE /\ main' = "run"
                 /\ behind' = 0
                 /\ awake' \in {TRUE, FALSE}
    /\ UNCHANGED <<workVars, audioOpen, pending, rendererVars, phase, credit, sent, service>>

(* Close: disable the channel, stop both queues, join, close the           *)
(* synthesizer.                                                            *)
Close ==
    /\ main = "run"
    /\ awake' = FALSE /\ main' = "stop_work"
    /\ UNCHANGED <<workVars, audioVars, pending, need, rendererVars, clockVars, service>>

StopWork ==
    /\ main = "stop_work"
    /\ workOpen' = FALSE /\ main' = "stop_audio"
    /\ UNCHANGED <<work, audioVars, pending, need, rendererVars, clockVars, awake, service>>

(* Mutant: the audio queue is not stopped before the join.                 *)
StopAudioForgotten ==
    /\ main = "stop_audio"
    /\ main' = "join"
    /\ UNCHANGED <<workVars, audioVars, pending, need, rendererVars, clockVars, awake, service>>

StopAudio ==
    /\ main = "stop_audio"
    /\ audioOpen' = FALSE /\ main' = "join"
    /\ UNCHANGED <<workVars, audio, pending, need, rendererVars, clockVars, awake, service>>

(* Mutant: the synthesizer is closed without waiting for the renderer.     *)
JoinNobody ==
    /\ main = "join"
    /\ service' = FALSE /\ main' = "closed"
    /\ UNCHANGED <<workVars, audioVars, pending, need, rendererVars, clockVars, awake>>

Join ==
    /\ main = "join" /\ renderer = "ended"
    /\ service' = FALSE /\ main' = "closed"
    /\ UNCHANGED <<workVars, audioVars, pending, need, rendererVars, clockVars, awake>>

-----------------------------------------------------------------------------
(* The renderer thread.                                                    *)

Render ==
    /\ renderer = "loop"
    /\ renderer' = IF workOpen THEN "pick" ELSE "ended"
    /\ UNCHANGED <<workVars, audioVars, mainVars, todo, message, clockVars, awake, service>>

(* IsEmpty, then one frame ahead of time or ProcessWorkFromFifo; only this *)
(* thread dequeues, so Dequeue finds the item that IsEmpty saw.            *)
Pick ==
    /\ renderer = "pick"
    /\ message' = (work # <<>>)
    /\ work' = IF work = <<>> THEN work ELSE Tail(work)
    /\ todo' = IF work = <<>> THEN 1 ELSE Head(work)
    /\ renderer' = IF todo' > 0 THEN "render" ELSE "apply"
    /\ UNCHANGED <<workOpen, audioVars, mainVars, clockVars, awake, service>>

(* RenderAudioFramesToFifo, the call of the synthesizer under its mutex.   *)
RenderAudioFrames ==
    /\ renderer = "render"
    /\ renderer' = "fill"
    /\ UNCHANGED <<workVars, audioVars, mainVars, todo, message, clockVars, awake, service>>

(* BulkEnqueue: a chunk as large as the room, blocking while there is      *)
(* none; the rest is dropped once the queue is stopped.                    *)
FillAudio ==
    /\ renderer = "fill" /\ (audio < AudioCap \/ ~audioOpen)
    /\ LET n == IF audioOpen THEN Min({todo, AudioCap - audio}) ELSE 0 IN
         /\ audio' = audio + n
         /\ todo' = IF audioOpen THEN todo - n ELSE 0
         /\ renderer' = IF todo' > 0 THEN "fill" ELSE IF message THEN "apply" ELSE "loop"
    /\ UNCHANGED <<workVars, audioOpen, mainVars, message, clockVars, awake, service>>

ApplyMessage ==
    /\ renderer = "apply"
    /\ message' = FALSE
    /\ renderer' = "loop"
    /\ UNCHANGED <<workVars, audioVars, mainVars, todo, clockVars, awake, service>>

-----------------------------------------------------------------------------
MainStep == \/ EnqueueWork \/ MixerCallBack \/ StopWork \/ StopAudio \/ Join

RendererStep == Render \/ Pick \/ RenderAudioFrames \/ FillAudio \/ ApplyMessage

Next == Advance \/ PlayMsg \/ Tick \/ Close \/ MainStep \/ RendererStep

(* Both threads are scheduled; the guest need not do anything.             *)
Spec == Init /\ [][Next]_vars /\ WF_vars(MainStep) /\ WF_vars(RendererStep)

-----------------------------------------------------------------------------
(* How many frames the first i messages of a queue ask for.                *)
Frames(messages) ==
    LET sum[i \in 0..Len(messages)] == IF i = 0 THEN 0 ELSE sum[i - 1] + messages[i]
    IN  sum

(* The frames asked for by messages that are not yet in the audio queue.   *)
Lag == Frames(work)[Len(work)] + (IF message THEN todo ELSE 0)
       + (IF main = "enqueue" THEN pending ELSE 0)

(* The main thread, blocked on a full work queue in PlayMsg, and the       *)
(* renderer, blocked on a full audio queue, never wait for each other.     *)
NoMutualWait ==
    ~ /\ main = "enqueue" /\ Len(work) = WorkCap
      /\ renderer = "fill" /\ audio = AudioCap /\ audioOpen

(* The renderer never falls behind by more than it was ahead: the frames   *)
(* owed to messages, those due now and those queued for the mixer together *)
(* stay within the audio queue, one tick and the one frame rendered ahead  *)
(* of any message.  GetNumPendingAudioFrames and MixerCallBack both move   *)
(* last_rendered_ms, and a tick of whole frames counts no frame twice.     *)
LagBounded == TypeOK /\ Lag + Due + audio <= AudioCap + FramesPerTick + 1

(* The renderer thread uses the synthesizer only while it exists: Close    *)
(* frees it after the join.                                                *)
ServiceOutlivesRenderer == renderer \in {"render", "apply"} => service

(* No call of the main thread into the handler blocks for ever: Enqueue    *)
(* finds room, the mixer gets its frames, Close returns.                   *)
CallsReturn == main \notin {"run", "closed"} ~> main \in {"run", "closed"}
=============================================================================
