---------------------------- MODULE AudioStream ----------------------------
(***************************************************************************)
(* What the ring of decoded audio promises to the playback thread: a       *)
(* bounded queue of floats, numbered as they come, in which neither side   *)
(* ever waits.  A queue that is full gives up its oldest floats, exactly   *)
(* as many as the new ones need; a block that leaves more than SkipAbove   *)
(* floats behind it gives up all but the newest KeepFloats; an empty queue *)
(* is silent.  There are no indices and no buffer here.  AudioRing is      *)
(* shown to implement this specification.                                  *)
(***************************************************************************)
EXTENDS Integers

CONSTANTS Capacity, BlockFloats, SkipAbove, KeepFloats, PacketFloats

VARIABLES
  newest,   \* number of the last float that came
  oldest,   \* number of the next float to be played
  block     \* the block played last, << >> for silence

streamVars == <<newest, oldest, block>>

Backlog == newest - oldest + 1

StreamInit == newest = 0 /\ oldest = 1 /\ block = << >>

\* A packet comes; the backlog stays within the capacity.
Receive(n) ==
  /\ newest' = newest + n
  /\ oldest' = IF Backlog + n > Capacity THEN newest + n - Capacity + 1 ELSE oldest
  /\ UNCHANGED block

\* The oldest floats are played, in order.
Play ==
  /\ Backlog >= BlockFloats
  /\ block' = [i \in 1 .. BlockFloats |-> oldest + i - 1]
  /\ oldest' = IF Backlog - BlockFloats > SkipAbove THEN newest - KeepFloats + 1
                                                    ELSE oldest + BlockFloats
  /\ UNCHANGED newest

Silent ==
  /\ Backlog < BlockFloats
  /\ block' = << >>
  /\ UNCHANGED <<newest, oldest>>

\* Between two streams everything is given up.
Restart ==
  /\ oldest' = newest + 1
  /\ block' = << >>
  /\ UNCHANGED newest

StreamNext == (\E n \in PacketFloats : Receive(n)) \/ Play \/ Silent \/ Restart

StreamSpec == StreamInit /\ [][StreamNext]_streamVars
=============================================================================
