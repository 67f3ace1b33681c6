----------------------------- MODULE FramePool -----------------------------
(***************************************************************************)
(* The pool of decoded-frame buffers of src/video.c.  The main thread      *)
(* (vdec_poll) lets VDEC write a picture into vdec_frame_bufs[write_buf]   *)
(* and then, under frame_mutex, queues that buffer and picks the next one  *)
(* to write; the UI thread (ps3video_draw) takes the newest queued buffer, *)
(* under the same mutex, and has the RSX sample it after the mutex is      *)
(* released.  The main thread also starts and ends a stream               *)
(* (ps3_video_setup, ps3_video_cleanup); nothing but a flag and a sleep    *)
(* keeps the UI thread out of the buffers that cleanup frees, so that time *)
(* is modelled: Tick lets some of it pass at any point of either thread.   *)
(***************************************************************************)
EXTENDS Integers

CONSTANTS
  VDEC_FRAME_COUNT,  \* number of buffers, 6 in the code
  MaxPicture,        \* bound: pictures VDEC outputs in a behaviour
  SleepTicks,        \* ticks in the 32 ms that ps3_video_cleanup sleeps
  DrawTicks          \* ticks that the longest draw takes (the environment's)

ASSUME FrameCountAssumption ==
  VDEC_FRAME_COUNT \in Nat /\ VDEC_FRAME_COUNT >= 3
ASSUME FrameBoundAssumption ==
  MaxPicture \in Nat /\ SleepTicks \in Nat /\ DrawTicks \in Nat

VARIABLES
  front_buf, write_buf,                             \* roles of the buffers
  ready_queue, ready_head, ready_tail, ready_count, \* ring of queued buffers
  active_video_thread,  \* the flag ps3video_start/stop set
  allocated,            \* vdec_frame_bufs mapped and frame_mutex created
  main,                 \* where the main thread is
  ui, draw_idx,         \* where the UI thread is, and its local copy of front_buf
  picture,              \* the picture each buffer holds
  decoded,              \* number of pictures VDEC has output
  slept,                \* ticks since the cleanup went to sleep, up to SleepTicks
  age,                  \* ticks since the draw under way tested the flag
  latest                \* history: newest picture queued in this stream, or 0

poolVars == <<front_buf, write_buf, ready_queue, ready_head, ready_tail, ready_count>>
timers == <<slept, age>>
vars == <<poolVars, active_video_thread, allocated, main, ui, draw_idx,
          picture, decoded, timers, latest>>

Buf == 0 .. VDEC_FRAME_COUNT - 1
NoBuf == -1
Blank == -2    \* what memset leaves in a new buffer
Torn == -1     \* what a buffer holds while VDEC writes into it

Next1(i) == (i + 1) % VDEC_FRAME_COUNT

\* The buffers in a ring that starts at tail and has count entries.
Entries(queue, tail, count) ==
  {queue[(tail + j) % VDEC_FRAME_COUNT] : j \in 0 .. count - 1}

-----------------------------------------------------------------------------
\* Fault: front_buf is left out of the reset.
ResetKeepsFront ==
  /\ write_buf' = 0
  /\ ready_head' = 0 /\ ready_tail' = 0 /\ ready_count' = 0
  /\ UNCHANGED <<front_buf, ready_queue>>
  /\ latest' = 0

ResetRuntimeState ==
  /\ front_buf' = NoBuf
  /\ write_buf' = 0
  /\ ready_head' = 0
  /\ ready_tail' = 0
  /\ ready_count' = 0
  /\ UNCHANGED ready_queue
  /\ latest' = 0

Init ==
  /\ front_buf = NoBuf /\ write_buf = 0
  /\ ready_queue = [i \in Buf |-> 0]
  /\ ready_head = 0 /\ ready_tail = 0 /\ ready_count = 0
  /\ active_video_thread = FALSE /\ allocated = FALSE
  /\ main = "off"
  /\ ui = "idle" /\ draw_idx = NoBuf
  /\ picture = [b \in Buf |-> Blank]
  /\ decoded = 0 /\ latest = 0
  /\ slept = 0 /\ age = 0

\* ps3_video_setup, when every allocation succeeds (a failed one releases what
\* it had and leaves the flag FALSE, which no other thread can tell apart).
Setup ==
  /\ main = "off"
  /\ ResetRuntimeState
  /\ allocated' = TRUE
  /\ picture' = [b \in Buf |-> Blank]
  /\ active_video_thread' = TRUE
  /\ main' = "poll"
  /\ UNCHANGED <<ui, draw_idx, decoded, timers>>

\* vdec_poll: vdecGetPicture starts to write into write_buf, without the mutex.
GetPicture ==
  /\ main = "poll" /\ active_video_thread /\ allocated /\ decoded < MaxPicture
  /\ picture' = [picture EXCEPT ![write_buf] = Torn]
  /\ main' = "decoding"
  /\ UNCHANGED <<poolVars, active_video_thread, allocated, ui, draw_idx,
                 decoded, timers, latest>>

\* The ring once write_buf is queued: the oldest entry goes when it is full.
QueueFullOneLate == ready_count >= VDEC_FRAME_COUNT - 1   \* fault: off by one
QueueFull == ready_count >= VDEC_FRAME_COUNT - 2
PushedQueue == [ready_queue EXCEPT ![ready_head] = write_buf]
PushedTail == IF QueueFull THEN Next1(ready_tail) ELSE ready_tail
PushedCount == IF QueueFull THEN ready_count ELSE ready_count + 1
FreeOfQueue == Buf \ Entries(PushedQueue, PushedTail, PushedCount)  \* fault: front_buf is free
FreeBufs == Buf \ ({front_buf} \cup Entries(PushedQueue, PushedTail, PushedCount))

\* The search for the next write_buf goes round the buffers once from the
\* successor of write_buf and stops at the first free one.
FirstFree(b) ==
  \E k \in 1 .. VDEC_FRAME_COUNT :
    /\ b = (write_buf + k) % VDEC_FRAME_COUNT
    /\ b \in FreeBufs
    /\ \A i \in 1 .. k - 1 : (write_buf + i) % VDEC_FRAME_COUNT \notin FreeBufs

\* vdec_poll, after vdecGetPicture has returned: the part under frame_mutex.
Enqueue ==
  /\ main = "decoding"
  /\ picture' = [picture EXCEPT ![write_buf] = decoded + 1]
  /\ decoded' = decoded + 1
  /\ latest' = decoded + 1
  /\ ready_queue' = PushedQueue
  /\ ready_head' = Next1(ready_head)
  /\ ready_tail' = PushedTail
  /\ ready_count' = PushedCount
  /\ \E b \in Buf : FirstFree(b) /\ write_buf' = b
  /\ main' = "poll"
  /\ UNCHANGED <<front_buf, active_video_thread, allocated, ui, draw_idx, timers>>

\* ps3_video_cleanup clears the flag and goes to sleep for 32 ms ...
StopVideo ==
  /\ main = "poll"
  /\ active_video_thread' = FALSE
  /\ main' = "stopping"
  /\ slept' = 0
  /\ UNCHANGED <<poolVars, allocated, ui, draw_idx, picture, decoded, age, latest>>

\* Fault: cleanup does not sleep.
ReleaseAtOnce ==
  /\ main = "stopping"
  /\ allocated' = FALSE
  /\ ResetRuntimeState
  /\ main' = "off"
  /\ UNCHANGED <<active_video_thread, ui, draw_idx, picture, decoded, timers>>

\* ... and then calls release_video_resources, wherever the UI thread is.
Release ==
  /\ main = "stopping"
  /\ slept = SleepTicks
  /\ allocated' = FALSE
  /\ ResetRuntimeState
  /\ main' = "off"
  /\ UNCHANGED <<active_video_thread, ui, draw_idx, picture, decoded, timers>>

-----------------------------------------------------------------------------
\* ps3video_draw: the test at its top.
DrawCheck ==
  /\ ui = "idle" /\ active_video_thread /\ allocated
  /\ ui' = "checked"
  /\ age' = 0
  /\ UNCHANGED <<poolVars, active_video_thread, allocated, main, draw_idx,
                 picture, decoded, slept, latest>>

\* Fault: the ring is only looked at while there is no front buffer.
DrawTakeOnce ==
  /\ ui = "checked"
  /\ IF ready_count > 0 /\ front_buf = NoBuf
     THEN /\ front_buf' = ready_queue[ready_tail]
          /\ ready_tail' = Next1(ready_tail)
          /\ ready_count' = ready_count - 1
     ELSE UNCHANGED <<front_buf, ready_tail, ready_count>>
  /\ draw_idx' = front_buf'
  /\ ui' = IF front_buf' = NoBuf THEN "idle" ELSE "sampling"
  /\ UNCHANGED <<write_buf, ready_queue, ready_head, active_video_thread, allocated,
                 main, picture, decoded, timers, latest>>

\* ps3video_draw under frame_mutex: drain the ring to its newest entry.
DrawTake ==
  /\ ui = "checked"
  /\ IF ready_count > 0
     THEN LET newest == (ready_tail + (ready_count - 1)) % VDEC_FRAME_COUNT IN
          /\ front_buf' = ready_queue[newest]
          /\ ready_tail' = Next1(newest)
          /\ ready_count' = 0
     ELSE UNCHANGED <<front_buf, ready_tail, ready_count>>
  /\ draw_idx' = front_buf'
  /\ ui' = IF front_buf' = NoBuf THEN "idle" ELSE "sampling"
  /\ UNCHANGED <<write_buf, ready_queue, ready_head, active_video_thread, allocated,
                 main, picture, decoded, timers, latest>>

\* The RSX has sampled vdec_frame_bufs[draw_idx] and the frame is flipped.
DrawEnd ==
  /\ ui = "sampling"
  /\ ui' = "idle"
  /\ UNCHANGED <<poolVars, active_video_thread, allocated, main, draw_idx,
                 picture, decoded, timers, latest>>

\* Time passes, at any point of the draw under way and of the sleep; what is not
\* counted (no draw, no sleep) does not tick.
Tick ==
  /\ ui # "idle" => age < DrawTicks
  /\ ui # "idle" \/ main = "stopping"
  /\ age' = IF ui # "idle" THEN age + 1 ELSE age
  /\ slept' = IF main = "stopping" /\ slept < SleepTicks THEN slept + 1 ELSE slept
  /\ UNCHANGED <<poolVars, active_video_thread, allocated, main, ui, draw_idx,
                 picture, decoded, latest>>

MainStep == Setup \/ GetPicture \/ Enqueue \/ StopVideo \/ Release
UiStep == DrawCheck \/ DrawTake \/ DrawEnd
Next == MainStep \/ UiStep \/ Tick

Spec == Init /\ [][Next]_vars

\* The UI thread's loop never stops.  Nothing is assumed of the main thread.
FairSpec == Spec /\ WF_vars(UiStep)

-----------------------------------------------------------------------------
\* Every variable of the pool has a value of its C type, in its range; the ring
\* never holds more than two buffers less than there are.
TypeOK ==
  /\ front_buf \in Buf \cup {NoBuf} /\ draw_idx \in Buf \cup {NoBuf}
  /\ write_buf \in Buf
  /\ ready_queue \in [Buf -> Buf]
  /\ ready_head \in Buf /\ ready_tail \in Buf
  /\ ready_count \in 0 .. VDEC_FRAME_COUNT - 2
  /\ active_video_thread \in BOOLEAN /\ allocated \in BOOLEAN
  /\ main \in {"off", "poll", "decoding", "stopping"}
  /\ ui \in {"idle", "checked", "sampling"}
  /\ picture \in [Buf -> Nat \cup {Blank, Torn}]
  /\ decoded \in Nat /\ latest \in Nat
  /\ slept \in 0 .. SleepTicks /\ age \in 0 .. DrawTicks

\* While the RSX samples a buffer VDEC does not write into it: the picture on
\* screen is complete (vdec_poll writes outside frame_mutex, and ps3video_draw
\* samples outside it, so only the choice of write_buf keeps them apart).
NoTearing ==
  ui = "sampling" => picture[draw_idx] # Torn

\* The search for the next write_buf, a loop under frame_mutex that has no exit
\* of its own, finds a buffer: the main thread cannot spin with the mutex held.
SearchTerminates ==
  main = "decoding" => FreeBufs # {}

\* No draw is under way in buffers, or on a mutex, that release_video_resources
\* has freed: a draw that tested the flag before ps3video_stop cleared it is over
\* when the sleep is, provided that no draw takes as long as the sleep.
NoDrawAfterRelease ==
  ui # "idle" => allocated

\* Every draw shows the newest picture of the running stream: frames that piled
\* up are skipped ("strictly zero input lag accumulation"), and no picture of an
\* earlier stream comes back through a buffer or an index left over from it.
DrawsNewest ==
  [][ui = "checked" /\ ui' # ui =>
       /\ ui' = "sampling" => picture[draw_idx'] = latest
       /\ ui' = "idle" => latest = 0]_vars

\* FramePool implements the register: what the display samples is always the
\* whole content of a register that decoding overwrites.
Register == INSTANCE FrameRegister WITH
  latest <- latest,
  sampled <- IF ui = "sampling" THEN picture[draw_idx] ELSE 0

RegisterSpec == Register!RegSpec

\* A picture that was queued reaches the screen, or a newer one does, unless the
\* stream ends first.
QueuedIsShown ==
  \A p \in 1 .. MaxPicture :
    latest = p ~> \/ ui = "sampling" /\ picture[draw_idx] >= p
                  \/ ~active_video_thread
=============================================================================
