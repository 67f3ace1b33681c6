----------------------------- MODULE AudioSetup -----------------------------
(* The life of the audio renderer (audio.c): ten calls set it up, each with   *)
(* its own roll-back when it fails; the playback thread and the library's     *)
(* receive thread use what was set up; the clean-up takes it down, and is     *)
(* called by the library and once more when the program ends.                 *)
EXTENDS Integers, Sequences

VARIABLES
  phase,          \* off, init, undo, on, stop, cleanup: where the main thread is
  step,           \* the next call of ps3_renderer_init
  todo,           \* releases the roll-back or the clean-up has yet to make
  held,           \* what the calls so far have acquired
  g_use_spu_opus,
  active,         \* active_audio_thread
  initialized,    \* audio_system_initialized
  audio_thread,   \* none, loop, wait, block, ended
  receiver,       \* the library's receive thread: none, idle, decode, write
  exiting         \* the program ends: the clean-up is called once more

setupVars == <<phase, step, todo, held, g_use_spu_opus, active, initialized,
          audio_thread, receiver, exiting>>

(* The calls of the set-up, in order; each but "config" acquires what it is   *)
(* named for.                                                                 *)
Calls == <<"audio", "mutex", "spu", "decoder", "port", "config", "queue", "notify",
           "playing", "thread">>
Resources == {"audio", "mutex", "spu", "decoder", "port", "queue", "notify", "playing"}
Orphans == {"spu_image", "spu_group"}

After(s) == LET i == CHOOSE i \in 1 .. Len(Calls) : Calls[i] = s IN Calls[i + 1]

-----------------------------------------------------------------------------
(* ps3_renderer_init.                                                         *)

StartRenderer ==
  /\ phase = "off" /\ ~exiting
  /\ phase' = "init" /\ step' = "audio"
  /\ UNCHANGED <<todo, held, g_use_spu_opus, active, initialized, audio_thread,
                 receiver, exiting>>

(* A call succeeds. With the SPU no software decoder is created.              *)
Acquire ==
  /\ phase = "init" /\ step \notin {"spu", "thread"}
  /\ held' = IF step = "config" THEN held ELSE held \cup {step}
  /\ step' = After(step)
  /\ UNCHANGED <<phase, todo, g_use_spu_opus, active, initialized, audio_thread,
                 receiver, exiting>>

UseSpu ==
  /\ phase = "init" /\ step = "spu"
  /\ held' = held \cup {"spu"}
  /\ g_use_spu_opus' = TRUE
  /\ step' = "port"
  /\ UNCHANGED <<phase, todo, active, initialized, audio_thread, receiver, exiting>>

(* A failed spu_opus_init frees its memory and its mutex, but closes the image*)
(* and destroys the thread group only if it had succeeded.                    *)
SpuUnavailable ==
  /\ phase = "init" /\ step = "spu"
  /\ \E left \in {{}, {"spu_image"}, Orphans} : held' = held \cup left
  /\ g_use_spu_opus' = FALSE
  /\ step' = "decoder"
  /\ UNCHANGED <<phase, todo, active, initialized, audio_thread, receiver, exiting>>

StartThread ==
  /\ phase = "init" /\ step = "thread"
  /\ active' = TRUE /\ initialized' = TRUE
  /\ audio_thread' = "loop"
  /\ phase' = "on"
  /\ UNCHANGED <<step, todo, held, g_use_spu_opus, receiver, exiting>>

(* The lists of releases. A decoder is released if there is one.              *)
Base == <<"mutex", "audio">>
Decoders == <<"spu", "decoder", "mutex", "audio">>
Port == <<"port", "spu", "decoder", "mutex", "audio">>
Queue == <<"notify", "queue", "port", "spu", "decoder", "mutex", "audio">>
Playing == <<"playing", "notify", "queue", "port", "spu", "decoder", "mutex", "audio">>

(* Fault: a port that cannot be opened leaves the decoder behind.             *)
RollBackOfDecoder ==
  [audio |-> << >>, mutex |-> <<"audio">>, decoder |-> Base, port |-> Base,
   config |-> Port, queue |-> Port, notify |-> Queue, playing |-> Queue, thread |-> Playing]

(* What the failure of each call releases, in the order of its own list.      *)
RollBack ==
  [audio |-> << >>, mutex |-> <<"audio">>, decoder |-> Base, port |-> Decoders,
   config |-> Port, queue |-> Port, notify |-> Queue, playing |-> Queue, thread |-> Playing]

CallFails ==
  /\ phase = "init" /\ step # "spu"
  /\ todo' = RollBack[step]
  /\ phase' = "undo"
  /\ active' = FALSE
  /\ UNCHANGED <<step, held, g_use_spu_opus, initialized, audio_thread, receiver, exiting>>

-----------------------------------------------------------------------------
(* The library: the receive thread decodes and writes what it receives.       *)

(* If the receive thread cannot be created, the renderer is cleaned up.       *)
CreateReceiver ==
  /\ phase = "on" /\ receiver = "none"
  /\ \/ receiver' = "idle" /\ UNCHANGED phase
     \/ phase' = "stop" /\ UNCHANGED receiver
  /\ UNCHANGED <<step, todo, held, g_use_spu_opus, active, initialized, audio_thread, exiting>>

decode_and_play_sample ==
  /\ \/ receiver = "idle" /\ phase = "on" /\ receiver' = "decode"
     \/ receiver = "decode" /\ receiver' \in {"write", "idle"}
     \/ receiver = "write" /\ receiver' = "idle"
  /\ UNCHANGED <<phase, step, todo, held, g_use_spu_opus, active, initialized,
                 audio_thread, exiting>>

(* Fault: the receive thread is told to end, and not waited for.              *)
StopUnjoined ==
  /\ phase = "on" /\ receiver # "none"
  /\ phase' = "stop"
  /\ UNCHANGED <<step, todo, held, g_use_spu_opus, active, initialized, audio_thread,
                 receiver, exiting>>

(* stopAudioStream interrupts and joins the receive thread.                   *)
stopAudioStream ==
  /\ phase = "on" /\ receiver = "idle"
  /\ receiver' = "none"
  /\ phase' = "stop"
  /\ UNCHANGED <<step, todo, held, g_use_spu_opus, active, initialized, audio_thread, exiting>>

(* The program ends: LiStopConnection, if there is one, then ps3audio_stop.   *)
Exit ==
  /\ phase \in {"off", "on"} /\ ~exiting
  /\ exiting' = TRUE
  /\ phase' = IF phase = "off" THEN "stop" ELSE "on"
  /\ UNCHANGED <<step, todo, held, g_use_spu_opus, active, initialized, audio_thread, receiver>>

-----------------------------------------------------------------------------
(* ps3_renderer_cleanup, and the releases of a roll-back.                     *)

All == <<"thread", "playing", "notify", "port", "queue", "mutex", "spu", "decoder", "audio">>

(* Fault: the clean-up waits for the playback thread without telling it to    *)
(* end.                                                                       *)
CleanupSilent ==
  /\ phase = "stop"
  /\ IF initialized
     THEN /\ todo' = All
          /\ phase' = "cleanup"
     ELSE phase' = "off" /\ UNCHANGED todo
  /\ UNCHANGED <<active, step, held, g_use_spu_opus, initialized, audio_thread, receiver, exiting>>

(* Fault: the clean-up does not ask whether there is anything to clean.       *)
CleanupAlways ==
  /\ phase = "stop"
  /\ active' = FALSE
  /\ todo' = All
  /\ phase' = "cleanup"
  /\ UNCHANGED <<step, held, g_use_spu_opus, initialized, audio_thread, receiver, exiting>>

Cleanup ==
  /\ phase = "stop"
  /\ IF initialized
     THEN /\ active' = FALSE
          /\ todo' = All
          /\ phase' = "cleanup"
     ELSE phase' = "off" /\ UNCHANGED <<active, todo>>
  /\ UNCHANGED <<step, held, g_use_spu_opus, initialized, audio_thread, receiver, exiting>>

JoinThread ==
  /\ todo # << >> /\ Head(todo) = "thread"
  /\ audio_thread \in {"none", "ended"}
  /\ audio_thread' = "none"
  /\ todo' = Tail(todo)
  /\ UNCHANGED <<phase, step, held, g_use_spu_opus, active, initialized, receiver, exiting>>

(* The SPU is shut down if it is used, the decoder destroyed if there is one. *)
Release ==
  /\ todo # << >> /\ Head(todo) # "thread"
  /\ held' = held \ {Head(todo)}
  /\ g_use_spu_opus' = (g_use_spu_opus /\ Head(todo) # "spu")
  /\ todo' = Tail(todo)
  /\ UNCHANGED <<phase, step, active, initialized, audio_thread, receiver, exiting>>

(* At the end of the program one more clean-up follows the library's.         *)
Released ==
  /\ phase \in {"undo", "cleanup"} /\ todo = << >>
  /\ initialized' = FALSE
  /\ phase' = IF exiting THEN "stop" ELSE "off"
  /\ UNCHANGED <<step, todo, held, g_use_spu_opus, active, audio_thread, receiver, exiting>>

-----------------------------------------------------------------------------
(* audio_loop: wait 20 ms for the hardware, read a block, write it out. It    *)
(* ends when active_audio_thread is clear, before or after the wait.          *)

AudioLoop ==
  /\ \/ audio_thread = "loop" /\ audio_thread' = IF active THEN "wait" ELSE "ended"
     \/ audio_thread = "wait" /\ audio_thread' = IF active THEN "block" ELSE "ended"
     \/ audio_thread = "wait" /\ audio_thread' = "loop"
     \/ audio_thread = "block" /\ audio_thread' = "loop"
  /\ UNCHANGED <<phase, step, todo, held, g_use_spu_opus, active, initialized, receiver, exiting>>

Main ==
  \/ Acquire \/ UseSpu \/ SpuUnavailable \/ StartThread \/ CallFails
  \/ CreateReceiver \/ Cleanup \/ JoinThread \/ Release \/ Released

SetupNext ==
  StartRenderer \/ stopAudioStream \/ Exit \/ Main \/ decode_and_play_sample \/ AudioLoop

SetupInit ==
  /\ phase = "off" /\ step = "audio" /\ todo = << >> /\ held = {}
  /\ g_use_spu_opus = FALSE /\ active = FALSE /\ initialized = FALSE
  /\ audio_thread = "none" /\ receiver = "none" /\ exiting = FALSE

SetupSpec == SetupInit /\ [][SetupNext]_setupVars
FairSetupSpec ==
  /\ SetupSpec
  /\ WF_setupVars(Main) /\ WF_setupVars(AudioLoop) /\ WF_setupVars(decode_and_play_sample)
  /\ WF_setupVars(exiting /\ stopAudioStream)

-----------------------------------------------------------------------------
(* Whichever call of the set-up failed, and after every clean-up, nothing the *)
(* audio renderer acquired itself is left, and no thread of it runs.          *)
NothingLeaks ==
  phase = "off" =>
    /\ held \cap Resources = {}
    /\ ~g_use_spu_opus /\ ~active /\ ~initialized
    /\ audio_thread = "none" /\ receiver = "none"

(* Neither thread, and no other resource, outlives what it uses: the playback *)
(* thread waits on the queue, takes the mutex and writes the port's buffer;   *)
(* the receive thread decodes and takes the mutex.                            *)
NothingUsedAfterRelease ==
  /\ audio_thread \in {"loop", "wait", "block"} => {"mutex", "port", "queue"} \subseteq held
  /\ receiver # "none" => "mutex" \in held /\ held \cap {"spu", "decoder"} # {}
  /\ "playing" \in held => "port" \in held
  /\ "notify" \in held => "queue" \in held
  /\ "port" \in held => "audio" \in held

(* No release is made of what was never acquired or is already released, also *)
(* not by the second clean-up at the end of the program. (The registration    *)
(* of the queue is the exception: it is also removed when it failed.)         *)
ReleasesHeld ==
  /\ todo # << >> /\ Head(todo) \in {"audio", "mutex", "port", "queue", "playing"} =>
       Head(todo) \in held
  /\ g_use_spu_opus <=> "spu" \in held

(* A roll-back and a clean-up always end: the playback thread, which waits    *)
(* for the hardware at most 20 ms, sees that it is to end.                    *)
CleanupReturns == phase \in {"undo", "stop", "cleanup"} ~> phase = "off"

(* "freeing resources": nothing at all is left by the clean-up.               *)
EverythingReleased == phase = "off" => held = {}
=============================================================================
