---------------------------- MODULE OpusDecoder ----------------------------
(***************************************************************************)
(* What the SPU Opus bridge promises to audio.c as long as the SPU is in   *)
(* time: a decoder with a state of its own, to which a packet is given and *)
(* which decodes it exactly once, before the next one is given, and        *)
(* returns its PCM, or nothing if it rejects the packet.  There is no      *)
(* block, no signal and no transfer here.  SpuOpus is shown to implement   *)
(* this specification.                                                     *)
(***************************************************************************)
EXTENDS Integers

VARIABLES
  stage,    \* closed; idle; asked: a packet was given; done: it was decoded
  packet,   \* the packet given last
  result,   \* the packet whose PCM was decoded, 0 for none
  pcm       \* what the last call returned, 0 for nothing

decoderVars == <<stage, packet, result, pcm>>

DecoderInit == stage = "closed" /\ packet = 0 /\ result = 0 /\ pcm = 0

Create ==
  /\ stage = "closed" /\ stage' = "idle"
  /\ UNCHANGED <<packet, result, pcm>>

Give ==
  /\ stage = "idle" /\ stage' = "asked"
  /\ packet' = packet + 1
  /\ UNCHANGED <<result, pcm>>

Decode ==
  /\ stage = "asked" /\ stage' = "done"
  /\ result' \in {packet, 0}
  /\ UNCHANGED <<packet, pcm>>

Return ==
  /\ stage = "done" /\ stage' = "idle"
  /\ pcm' = result /\ result' = 0
  /\ UNCHANGED packet

Destroy ==
  /\ stage = "idle" /\ stage' = "closed"
  /\ UNCHANGED <<packet, result, pcm>>

DecoderNext == Create \/ Give \/ Decode \/ Return \/ Destroy

DecoderSpec == DecoderInit /\ [][DecoderNext]_decoderVars
=============================================================================
