----------------------------- MODULE AudioRing -----------------------------
(***************************************************************************)
(* The ring of decoded audio samples in src/audio.c.  The Moonlight audio  *)
(* thread writes every decoded packet into it (rb_write), the playback     *)
(* thread takes one hardware block at a time out of it (rb_read, called    *)
(* from audio_loop), both under rb_mutex.  Neither ever waits for the      *)
(* other: a full ring drops its oldest floats, an empty one yields         *)
(* silence, and a reader that has fallen behind skips ahead.  Floats are   *)
(* numbered in the order in which they are written; left and right         *)
(* alternate, so an odd number is a left sample.                           *)
(***************************************************************************)
EXTENDS Integers

CONSTANTS
  RING_BUFFER_SIZE,  \* floats in the ring, 32768 in the code
  BlockFloats,       \* floats in a hardware block, 512
  SkipAbove,         \* backlog above which the reader skips, 4096
  KeepFloats,        \* what a skip leaves, 1024
  PacketFloats,      \* the sizes of decoded packets, at most 2 * 5760
  MaxFloats          \* bound: floats written in a behaviour

ASSUME RingAssumption ==
  /\ RING_BUFFER_SIZE \in Nat /\ RING_BUFFER_SIZE > 1
  /\ BlockFloats \in 1 .. RING_BUFFER_SIZE - 1
  /\ SkipAbove \in 1 .. RING_BUFFER_SIZE - 1
  /\ KeepFloats \in 1 .. SkipAbove
  /\ PacketFloats \subseteq 1 .. RING_BUFFER_SIZE - 1
  /\ MaxFloats \in Nat

VARIABLES
  rb_write_idx, rb_read_idx, audio_ring_buffer,
  written,  \* history: floats written since the program started
  since,    \* history: written when the present stream's audio was set up
  played,   \* history: number of the last float handed to the hardware, or since
  block     \* what audio_loop put into the last hardware block, or Silence

vars == <<rb_write_idx, rb_read_idx, audio_ring_buffer, written, since, played, block>>

Idx == 0 .. RING_BUFFER_SIZE - 1
Silence == <<>>

\* "(rb_write_idx - rb_read_idx + RING_BUFFER_SIZE) % RING_BUFFER_SIZE"
Available == (rb_write_idx - rb_read_idx + RING_BUFFER_SIZE) % RING_BUFFER_SIZE
FreeSpace == (rb_read_idx - rb_write_idx - 1 + RING_BUFFER_SIZE) % RING_BUFFER_SIZE

Init ==
  /\ rb_write_idx = 0 /\ rb_read_idx = 0
  /\ audio_ring_buffer = [i \in Idx |-> 0]
  /\ written = 0 /\ since = 0 /\ played = 0
  /\ block = Silence

\* Fault: the reader's index is not reset.
RestartKeepsReader ==
  /\ rb_write_idx' = 0
  /\ since' = written
  /\ played' = written
  /\ block' = Silence
  /\ UNCHANGED <<rb_read_idx, audio_ring_buffer, written>>

\* ps3_renderer_cleanup and ps3_renderer_init, between two streams: the indices
\* are reset, the contents stay.
Restart ==
  /\ rb_write_idx' = 0
  /\ rb_read_idx' = 0
  /\ since' = written
  /\ played' = written
  /\ block' = Silence
  /\ UNCHANGED <<audio_ring_buffer, written>>

\* Fault: a full ring gives up as many floats as it takes in.
DropsPacket(n) ==
  IF FreeSpace < n THEN (rb_read_idx + n) % RING_BUFFER_SIZE ELSE rb_read_idx

\* The read index once there is room for n floats: the oldest are given up.
MadeRoom(n) ==
  IF FreeSpace < n
  THEN (rb_read_idx + (n - FreeSpace)) % RING_BUFFER_SIZE
  ELSE rb_read_idx

\* The ring after n floats were copied in from rb_write_idx on.
Filled(n) ==
  [i \in Idx |->
     LET ofs == (i - rb_write_idx) % RING_BUFFER_SIZE IN
     IF ofs < n THEN written + 1 + ofs ELSE audio_ring_buffer[i]]

rb_write(n) ==
  /\ written + n <= MaxFloats
  /\ rb_read_idx' = MadeRoom(n)
  /\ audio_ring_buffer' = Filled(n)
  /\ rb_write_idx' = (rb_write_idx + n) % RING_BUFFER_SIZE
  /\ written' = written + n
  /\ UNCHANGED <<since, played, block>>

\* Fault: the reader skips after every block.
AlwaysSkips(idx) == (rb_write_idx - KeepFloats + RING_BUFFER_SIZE) % RING_BUFFER_SIZE

\* Where the reader goes on after a block that leaves it at idx.
SkippedAhead(idx) ==
  IF (rb_write_idx - idx + RING_BUFFER_SIZE) % RING_BUFFER_SIZE > SkipAbove
  THEN (rb_write_idx - KeepFloats + RING_BUFFER_SIZE) % RING_BUFFER_SIZE
  ELSE idx

\* rb_read copies a block out of the ring and skips stale floats behind it.
rb_read ==
  /\ Available >= BlockFloats
  /\ block' = [i \in 1 .. BlockFloats |->
                 audio_ring_buffer[(rb_read_idx + i - 1) % RING_BUFFER_SIZE]]
  /\ played' = block'[BlockFloats]
  /\ rb_read_idx' = SkippedAhead((rb_read_idx + BlockFloats) % RING_BUFFER_SIZE)
  /\ UNCHANGED <<rb_write_idx, audio_ring_buffer, written, since>>

\* rb_read returns 0 and audio_loop clears the block.
Underflow ==
  /\ Available < BlockFloats
  /\ block' = Silence
  /\ UNCHANGED <<rb_write_idx, rb_read_idx, audio_ring_buffer, written, since, played>>

audio_loop == rb_read \/ Underflow

Next == Restart \/ (\E n \in PacketFloats : rb_write(n)) \/ audio_loop

Spec == Init /\ [][Next]_vars

-----------------------------------------------------------------------------
\* Indices stay in the ring; what was played was written, and in this stream.
TypeOK ==
  /\ rb_write_idx \in Idx /\ rb_read_idx \in Idx
  /\ audio_ring_buffer \in [Idx -> Nat]
  /\ written \in Nat /\ since \in 0 .. written /\ played \in since .. written
  /\ block \in [1 .. BlockFloats -> Nat] \cup {Silence}

\* What is in the ring is the tail of the stream: the newest floats, in order,
\* none missing, none overwritten, whatever was dropped in front of them.
RingIsTail ==
  /\ Available <= written - played
  /\ \A j \in 0 .. Available - 1 :
       audio_ring_buffer[(rb_read_idx + j) % RING_BUFFER_SIZE] = written - Available + 1 + j

\* A block that is played is a run of consecutive floats of this stream, later
\* than everything played before: no float is repeated, reordered or left over
\* from an earlier stream.
PlaysOnwards ==
  [][block' \notin {block, Silence} =>
       /\ block'[1] > played
       /\ \A i \in 1 .. BlockFloats : block'[i] = block'[1] + i - 1]_vars

\* Floats are dropped only for the two reasons the code gives, and no more of
\* them than it says: a full ring stays full, a skip leaves KeepFloats.
OldestUnread == written - Available + 1
DropsOnlyStale ==
  [][since' = since /\ OldestUnread' > OldestUnread =>
       \/ written' > written /\ Available' = RING_BUFFER_SIZE - 1
       \/ OldestUnread' = OldestUnread + BlockFloats
       \/ Available' = KeepFloats /\ Available - BlockFloats > SkipAbove]_vars

\* The ring implements AudioStream, a queue without indices that gives up its
\* oldest floats: what is written, dropped, skipped and played is what that
\* queue would hold, at every step.
Stream == INSTANCE AudioStream WITH
  Capacity <- RING_BUFFER_SIZE - 1,
  newest <- written,
  oldest <- OldestUnread
StreamSpec == Stream!StreamSpec

\* Once a block is played the next one is at most SkipAbove floats behind the
\* newest sample (src/audio.c:84-85, 101-105).
LatencyBounded == [][played' > played => Available' <= SkipAbove]_vars

\* "Attempt to pull stereo samples from the ring buffer" (src/audio.c:147): a
\* block starts with a left sample.  PacketFloats, BlockFloats and the sizes of
\* the ring are all even, but a full ring holds an odd number of floats: the first
\* block read after a drop is exchanged.  That read skips to an even backlog.
BlocksAreStereo == block # Silence => block[1] % 2 = 1
=============================================================================
