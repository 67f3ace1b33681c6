---------------------------- MODULE AudioProofs ----------------------------
(***************************************************************************)
(* Proofs about the audio renderer.  First its SPU Opus bridge, for every  *)
(* number of packets: whether or not the SPU is ever late, a request that  *)
(* finds it idle is answered properly, and the memory a stream's worker    *)
(* uses outlives it; when it is never late, the bridge is a plain decoder. *)
(* Then its set-up: what is held, used and released whichever call fails.  *)
(***************************************************************************)
EXTENDS SpuOpus, AudioSetup, TLAPS

\* The host's part of the block while it waits for a request the SPU was idle
\* for: the request is on its way, being decoded, or answered.
InFlight ==
  host = "decode" /\ quiet =>
    /\ orphan = "none"
    /\ bounce_opus = request
    /\ \/ /\ spu = "wait" /\ signal
          /\ block = [cmd |-> "DECODE", status |-> "BUSY", opus_len |-> request]
       \/ /\ spu = "decode" /\ ~signal
          /\ block.status = "BUSY"
          /\ local.opus_len = request
       \/ /\ spu = "put" /\ ~signal
          /\ block.status = "BUSY"
          /\ local.status = "OK" => bounce_pcm = request
       \/ /\ spu = "wait" /\ ~signal
          /\ block.status = "OK" => bounce_pcm = request

\* The host has copied the packet it is about to post.
Copied == host = "copied" => bounce_opus = request

\* Between two requests, and between two streams, the last answer stands.
AnswerStands ==
  host \in {"ready", "join", "off", "init", "software"} /\ quiet => answer \in {None, request}

\* The buffers exist from the start of a worker to the end of the join, or of the
\* poll that times out.
MemoryHeld ==
  /\ allocated <=> host \in {"init", "ready", "copied", "decode", "join"}
  /\ spu \notin {"none", "exited"} => allocated

IInv == TypeOK /\ InFlight /\ Copied /\ AnswerStands /\ MemoryHeld

-----------------------------------------------------------------------------
LEMMA InitIInv == Init => IInv
<1> SUFFICES ASSUME Init PROVE IInv
  OBVIOUS
<1>1. None \in Packet /\ Zeroed \in Block
  BY SpuAssumption DEF Packet, None, Block, Zeroed, Cmd, Status
<1>2. TypeOK
  BY <1>1 DEF Init, TypeOK, WorkerState
<1> QED BY <1>2 DEF Init, IInv, InFlight, Copied, AnswerStands, MemoryHeld

LEMMA TypeStep == TypeOK /\ [Next]_vars => TypeOK'
<1> SUFFICES ASSUME TypeOK, [Next]_vars PROVE TypeOK'
  OBVIOUS
<1> USE DEF TypeOK, WorkerState, hostVars, orphanVars, spuVars
<1>z. Zeroed \in Block
  BY SpuAssumption DEF Packet, None, Block, Zeroed, Cmd, Status
<1>1. CASE StartWorker
  <2>1. block' \in Block
    BY <1>1, SpuAssumption DEF StartWorker, Post, Block, Packet, None, Cmd, Status
  <2>2. orphan_local' \in Block /\ orphan' \in WorkerState
    BY <1>1, <1>z DEF StartWorker
  <2> QED BY <1>1, <2>1, <2>2 DEF StartWorker, Post
<1>2. CASE InitCall
  BY <1>2 DEF InitCall, InitDone, InitTimeout
<1>3. CASE CopyPacket
  BY <1>3, SpuAssumption DEF CopyPacket, Packet, None
<1>4. CASE PostDecode
  BY <1>4, SpuAssumption DEF PostDecode, Post, Block, Packet, None, Garbage, Cmd, Status
<1>5. CASE DecodeDone
  BY <1>5, SpuAssumption DEF DecodeDone, Packet, None
<1>6. CASE DecodeTimeout
  BY <1>6, SpuAssumption DEF DecodeTimeout, Packet, None
<1>7. CASE PostQuit
  BY <1>7 DEF PostQuit, Block, Cmd
<1>8. CASE Joined
  BY <1>8 DEF Joined
<1>9. CASE Fetch
  BY <1>9 DEF Fetch, Task
<1>10. CASE SpuInit
  BY <1>10 DEF SpuInit, Block, Status
<1>11. CASE SpuDecode
  BY <1>11 DEF SpuDecode, Decoded, Block, Status
<1>12. CASE PutBack
  BY <1>12 DEF PutBack
<1>13. CASE SpuQuit
  BY <1>13 DEF SpuQuit, Block, Status
<1>14. CASE OrphanStep
  <2>1. CASE OrphanFetch
    BY <2>1 DEF OrphanFetch, Task
  <2>2. CASE OrphanWork
    BY <2>2 DEF OrphanWork, Decoded, Block, Status
  <2>3. CASE OrphanPut
    BY <2>3, <1>z DEF OrphanPut
  <2> QED BY <1>14, <2>1, <2>2, <2>3 DEF OrphanStep
<1>15. CASE UNCHANGED vars
  BY <1>15 DEF vars
<1> QED BY <1>1, <1>2, <1>3, <1>4, <1>5, <1>6, <1>7, <1>8, <1>9, <1>10, <1>11, <1>12,
           <1>13, <1>14, <1>15 DEF Next, DecodeCall, SpuStep

LEMMA StepIInv == IInv /\ [Next]_vars => IInv'
<1> SUFFICES ASSUME IInv, [Next]_vars PROVE IInv'
  OBVIOUS
<1>0. TypeOK'
  BY TypeStep DEF IInv
<1>t. TypeOK
  BY DEF IInv
<1> USE <1>0 DEF IInv, InFlight, Copied, AnswerStands, MemoryHeld, hostVars, orphanVars, spuVars
<1>1. CASE StartWorker
  BY <1>1 DEF StartWorker
<1>2. CASE InitCall
  BY <1>2 DEF InitCall, InitDone, InitTimeout
<1>3. CASE CopyPacket
  BY <1>3 DEF CopyPacket
<1>4. CASE PostDecode
  BY <1>4 DEF PostDecode, Post
<1>5. CASE DecodeDone
  BY <1>5 DEF DecodeDone
<1>6. CASE DecodeTimeout
  BY <1>6 DEF DecodeTimeout
<1>7. CASE PostQuit
  BY <1>7 DEF PostQuit
<1>8. CASE Joined
  BY <1>8 DEF Joined
<1>9. CASE Fetch
  BY <1>9 DEF Fetch, Task
<1>10. CASE SpuInit
  BY <1>10 DEF SpuInit
<1>11. CASE SpuDecode
  <2>0. local \in Block
    BY <1>t DEF TypeOK
  <2>1. spu = "decode" /\ spu' = "put" /\ UNCHANGED <<hostVars, block, bounce_opus, signal, orphan>>
    BY <1>11 DEF SpuDecode, Decoded
  <2>2. CASE local' = [local EXCEPT !.status = "ERR"]
    <3>1. local'.status = "ERR"
      BY <2>0, <2>2 DEF Block
    <3> QED BY <2>1, <3>1
  <2>3. CASE /\ local' = [local EXCEPT !.status = "OK"]
             /\ bounce_pcm' = Decoded(local.opus_len)
    BY <2>1, <2>3 DEF Decoded
  <2> QED BY <1>11, <2>2, <2>3 DEF SpuDecode, Decoded
<1>12. CASE PutBack
  BY <1>12 DEF PutBack
<1>13. CASE SpuQuit
  BY <1>13 DEF SpuQuit
<1>14. CASE OrphanStep
  <2>1. orphan # "none" /\ UNCHANGED <<hostVars, bounce_opus, spu>>
    BY <1>14 DEF OrphanStep, OrphanFetch, OrphanWork, OrphanPut
  <2> QED BY <2>1
<1>15. CASE UNCHANGED vars
  BY <1>15 DEF vars
<1> QED BY <1>1, <1>2, <1>3, <1>4, <1>5, <1>6, <1>7, <1>8, <1>9, <1>10, <1>11, <1>12,
           <1>13, <1>14, <1>15 DEF Next, DecodeCall, SpuStep

\* The strengthened invariant holds in every behaviour, late answers or not.
THEOREM Invariance == Spec => []IInv
<1> QED BY InitIInv, StepIInv, PTL DEF Spec

\* The bridge recovers from late answers by itself: a request posted to an idle
\* SPU gets its own PCM or none.
THEOREM QuietRequests == Spec => []QuietRequestIsAnswered
<1>1. IInv => QuietRequestIsAnswered
  BY DEF IInv, AnswerStands, QuietRequestIsAnswered
<1> QED BY <1>1, Invariance, PTL

\* The memory that the worker of a stream transfers from and to is freed only after it
\* has stopped, whatever was late and whatever a worker left behind has written; the
\* worker of a start that timed out is the one exception (src/spu_opus_bridge.c 142-176).
THEOREM MemoryOutlivesWorker == Spec => []WorkerMemoryAllocated
<1>1. IInv => WorkerMemoryAllocated
  BY DEF IInv, MemoryHeld, WorkerMemoryAllocated
<1> QED BY <1>1, Invariance, PTL

-----------------------------------------------------------------------------
(* A worker that is never late. *)

\* Between two requests the SPU is idle, every request finds it idle, and QUIT is
\* the last thing it is told.
Handshake ==
  /\ quiet /\ orphan = "none"
  /\ host \in {"ready", "copied"} => spu = "wait" /\ ~signal /\ block.status # "BUSY"
  /\ host \in {"init", "decode"} =>
       \/ spu = "wait" /\ signal /\ block.cmd # "QUIT" /\ block.status = "BUSY"
       \/ spu = "wait" /\ ~signal /\ block.status # "BUSY"
       \/ spu \in {"work", "decode"} /\ ~signal /\ block.status = "BUSY"
       \/ spu = "put" /\ ~signal /\ block.status = "BUSY" /\ local.status # "BUSY"
  /\ host = "join" =>
       \/ spu = "wait" /\ signal /\ block.cmd = "QUIT"
       \/ spu \in {"quit", "exited"}

LEMMA StepHandshake ==
  ASSUME Timely, TypeOK, Handshake, [Next]_vars
  PROVE  Handshake'
<1> USE DEF Handshake, hostVars, orphanVars, spuVars
<1>t. block \in Block /\ local \in Block
  BY DEF TypeOK
<1>1. CASE StartWorker
  BY <1>1 DEF StartWorker, Post
<1>2. CASE InitCall
  BY <1>2 DEF InitCall, InitDone, InitTimeout
<1>3. CASE CopyPacket
  BY <1>3 DEF CopyPacket
<1>4. CASE PostDecode
  BY <1>4 DEF PostDecode, Post
<1>5. CASE DecodeDone
  BY <1>5 DEF DecodeDone
<1>6. CASE DecodeTimeout
  BY <1>6 DEF DecodeTimeout
<1>7. CASE PostQuit
  BY <1>7, <1>t DEF PostQuit, Block
<1>8. CASE Joined
  BY <1>8 DEF Joined
<1>9. CASE Fetch
  BY <1>9 DEF Fetch, Task
<1>10. CASE SpuInit
  BY <1>10, <1>t DEF SpuInit, Block
<1>11. CASE SpuDecode
  BY <1>11, <1>t DEF SpuDecode, Decoded, Block
<1>12. CASE PutBack
  BY <1>12 DEF PutBack
<1>13. CASE SpuQuit
  BY <1>13 DEF SpuQuit
<1>14. CASE OrphanStep
  BY <1>14 DEF OrphanStep, OrphanFetch, OrphanWork, OrphanPut
<1>15. CASE UNCHANGED vars
  BY <1>15 DEF vars
<1> QED BY <1>1, <1>2, <1>3, <1>4, <1>5, <1>6, <1>7, <1>8, <1>9, <1>10, <1>11, <1>12,
           <1>13, <1>14, <1>15 DEF Next, DecodeCall, SpuStep

THEOREM HandshakeInvariance ==
  ASSUME Timely
  PROVE  Spec => [](IInv /\ Handshake)
<1>1. Init => Handshake
  BY DEF Init, Handshake, Zeroed
<1>2. IInv /\ Handshake /\ [Next]_vars => Handshake'
  BY StepHandshake DEF IInv
<1> QED BY <1>1, <1>2, InitIInv, StepIInv, PTL DEF Spec

\* Every decode that succeeds returns the PCM of its own packet.
THEOREM AnswersMatch ==
  ASSUME Timely
  PROVE  Spec => []AnswerIsForRequest
<1>1. IInv /\ Handshake => AnswerIsForRequest
  BY DEF IInv, AnswerStands, Handshake, AnswerIsForRequest
<1> QED BY <1>1, HandshakeInvariance, PTL

\* The call, the transfers and the signal look like one decoder with a state of its
\* own, which decodes each packet once.
LEMMA InitDecoder == Init => Decoder!DecoderInit
BY DEF Init, Decoder!DecoderInit, Stage, Result, WorkerIsDone, None

LEMMA StepDecoder ==
  ASSUME Timely, IInv, Handshake, [Next]_vars
  PROVE  [Decoder!DecoderNext]_Decoder!decoderVars
<1> USE DEF Stage, Result, WorkerIsDone, Handshake, hostVars, orphanVars, spuVars
<1>t. block \in Block /\ local \in Block
  BY DEF IInv, TypeOK
<1> DEFINE Mapped == <<Stage, request, Result, answer>>
<1>1. CASE StartWorker
  <2>1. UNCHANGED Mapped
    BY <1>1 DEF StartWorker
  <2> QED BY <2>1 DEF Decoder!decoderVars
<1>2. CASE InitCall
  <2>1. Decoder!Create
    BY <1>2 DEF InitCall, InitDone, InitTimeout, Decoder!Create
  <2> QED BY <2>1 DEF Decoder!DecoderNext
<1>3. CASE CopyPacket
  <2>1. Decoder!Give
    BY <1>3 DEF CopyPacket, Decoder!Give
  <2> QED BY <2>1 DEF Decoder!DecoderNext
<1>4. CASE PostDecode
  <2>1. UNCHANGED Mapped
    BY <1>4 DEF PostDecode, Post
  <2> QED BY <2>1 DEF Decoder!decoderVars
<1>5. CASE DecodeDone
  <2>1. Decoder!Return
    BY <1>5 DEF DecodeDone, Decoder!Return, None
  <2> QED BY <2>1 DEF Decoder!DecoderNext
<1>6. CASE DecodeTimeout
  BY <1>6 DEF DecodeTimeout
<1>7. CASE PostQuit
  <2>1. Decoder!Destroy
    BY <1>7 DEF PostQuit, Decoder!Destroy
  <2> QED BY <2>1 DEF Decoder!DecoderNext
<1>8. CASE Joined
  <2>1. UNCHANGED Mapped
    BY <1>8 DEF Joined
  <2> QED BY <2>1 DEF Decoder!decoderVars
<1>9. CASE Fetch
  <2>1. UNCHANGED Mapped
    BY <1>9 DEF Fetch, Task
  <2> QED BY <2>1 DEF Decoder!decoderVars
<1>10. CASE SpuInit
  <2>1. host # "decode"
    BY <1>10 DEF SpuInit, IInv, InFlight
  <2>2. UNCHANGED Mapped
    BY <1>10, <2>1 DEF SpuInit
  <2> QED BY <2>2 DEF Decoder!decoderVars
<1>11. CASE SpuDecode
  <2>1. CASE host = "decode"
    <3>1. /\ spu = "decode" /\ spu' = "put" /\ UNCHANGED <<hostVars, block, signal>>
          /\ bounce_opus = request /\ local.opus_len = request
      BY <1>11, <2>1 DEF SpuDecode, Decoded, IInv, InFlight
    <3>2. \/ local'.status = "OK" /\ bounce_pcm' = request
          \/ local'.status = "ERR"
      BY <1>11, <1>t, <3>1 DEF SpuDecode, Decoded, Block
    <3>3. Decoder!Decode
      BY <2>1, <3>1, <3>2 DEF Decoder!Decode, None
    <3> QED BY <3>3 DEF Decoder!DecoderNext
  <2>2. CASE host # "decode"
    <3>1. UNCHANGED Mapped
      BY <1>11, <2>2 DEF SpuDecode, Decoded
    <3> QED BY <3>1 DEF Decoder!decoderVars
  <2> QED BY <2>1, <2>2
<1>12. CASE PutBack
  <2>1. UNCHANGED Mapped
    BY <1>12 DEF PutBack
  <2> QED BY <2>1 DEF Decoder!decoderVars
<1>13. CASE SpuQuit
  <2>1. UNCHANGED Mapped
    BY <1>13 DEF SpuQuit
  <2> QED BY <2>1 DEF Decoder!decoderVars
<1>14. CASE OrphanStep
  BY <1>14 DEF OrphanStep, OrphanFetch, OrphanWork, OrphanPut
<1>15. CASE UNCHANGED vars
  <2>1. UNCHANGED Mapped
    BY <1>15 DEF vars
  <2> QED BY <2>1 DEF Decoder!decoderVars
<1> QED BY <1>1, <1>2, <1>3, <1>4, <1>5, <1>6, <1>7, <1>8, <1>9, <1>10, <1>11, <1>12,
           <1>13, <1>14, <1>15 DEF Next, DecodeCall, SpuStep

\* When the SPU is never late, the bridge is an Opus decoder: it decodes every packet
\* it is given once, before the next one is given, and returns that packet's PCM.
THEOREM ImplementsDecoder ==
  ASSUME Timely
  PROVE  Spec => DecoderSpec
<1>1. IInv /\ Handshake /\ [Next]_vars => [Decoder!DecoderNext]_Decoder!decoderVars
  BY StepDecoder
<1> QED BY <1>1, InitDecoder, HandshakeInvariance, PTL
        DEF Spec, DecoderSpec, Decoder!DecoderSpec

-----------------------------------------------------------------------------
(***************************************************************************)
(* The set-up of the renderer that calls the bridge.                       *)
(***************************************************************************)

Elements(t) == {t[i] : i \in 1 .. Len(t)}

Before(t, a, b) ==
  \A i \in 1 .. Len(t) : t[i] = a => \E j \in 1 .. Len(t) : j > i /\ t[j] = b

\* A list of releases names nothing twice, and what stands on something else
\* before that: the playback thread's wait before the port, the registration of
\* the queue before the queue, the port before the audio system.
Sound(t) ==
  /\ t \in Seq(Resources)
  /\ \A i, j \in 1 .. Len(t) : t[i] = t[j] => i = j
  /\ Before(t, "playing", "port") /\ Before(t, "notify", "queue") /\ Before(t, "port", "audio")

\* What is never released unless it is held. Of the rest, the registration of the
\* queue is removed in any case and a decoder is released only if there is one.
Strict == {"audio", "mutex", "port", "queue", "playing"}

\* The list t releases everything in h, and of the strict resources nothing else.
Releases(t, h) ==
  /\ Sound(t)
  /\ h \cap Resources \subseteq Elements(t)
  /\ Elements(t) \cap Strict \subseteq h

LEMMA ReleaseFirst ==
  ASSUME NEW t, NEW h, Releases(t, h), t # << >>
  PROVE  /\ Releases(Tail(t), h \ {Head(t)})
         /\ Head(t) \in Resources
         /\ Head(t) \in Strict => Head(t) \in h
<1> USE DEF Releases, Sound
<1>1. /\ t \in Seq(Resources) /\ Tail(t) \in Seq(Resources)
      /\ Len(t) \in Nat \ {0} /\ Len(Tail(t)) = Len(t) - 1
      /\ \A i \in 1 .. Len(Tail(t)) : Tail(t)[i] = t[i + 1]
      /\ Head(t) = t[1] /\ 1 \in 1 .. Len(t)
  OBVIOUS
<1>2. \A r \in Elements(t) : r # Head(t) => r \in Elements(Tail(t))
  <2> SUFFICES ASSUME NEW i \in 1 .. Len(t), t[i] # Head(t) PROVE t[i] \in Elements(Tail(t))
    BY DEF Elements
  <2>1. i # 1 /\ i - 1 \in 1 .. Len(Tail(t)) /\ Tail(t)[i - 1] = t[i]
    BY <1>1
  <2> QED BY <2>1 DEF Elements
<1>3. \A r \in Elements(Tail(t)) : r \in Elements(t) /\ r # Head(t)
  <2> SUFFICES ASSUME NEW i \in 1 .. Len(Tail(t))
               PROVE  Tail(t)[i] \in Elements(t) /\ Tail(t)[i] # Head(t)
    BY DEF Elements
  <2>1. i + 1 \in 1 .. Len(t) /\ i + 1 # 1 /\ Tail(t)[i] = t[i + 1]
    BY <1>1
  <2> QED BY <1>1, <2>1 DEF Elements
<1>4. \A i, j \in 1 .. Len(Tail(t)) : Tail(t)[i] = Tail(t)[j] => i = j
  <2> SUFFICES ASSUME NEW i \in 1 .. Len(Tail(t)), NEW j \in 1 .. Len(Tail(t)),
                      Tail(t)[i] = Tail(t)[j]
               PROVE  i = j
    OBVIOUS
  <2>1. i + 1 \in 1 .. Len(t) /\ j + 1 \in 1 .. Len(t) /\ t[i + 1] = t[j + 1]
    BY <1>1
  <2> QED BY <2>1
<1>5. ASSUME NEW a, NEW b, Before(t, a, b)
      PROVE  Before(Tail(t), a, b)
  <2> SUFFICES ASSUME NEW i \in 1 .. Len(Tail(t)), Tail(t)[i] = a
               PROVE  \E j \in 1 .. Len(Tail(t)) : j > i /\ Tail(t)[j] = b
    BY DEF Before
  <2>1. i + 1 \in 1 .. Len(t) /\ t[i + 1] = a
    BY <1>1
  <2>2. PICK j \in 1 .. Len(t) : j > i + 1 /\ t[j] = b
    BY <1>5, <2>1 DEF Before
  <2>3. j - 1 \in 1 .. Len(Tail(t)) /\ j - 1 > i /\ Tail(t)[j - 1] = b
    BY <1>1, <2>2
  <2> QED BY <2>3
<1>6. Sound(Tail(t))
  BY <1>1, <1>4, <1>5
<1>7. Head(t) \in Elements(t) /\ Head(t) \in Resources
  BY <1>1 DEF Elements
<1> QED BY <1>2, <1>3, <1>6, <1>7

\* The lists of the code, each for what is held where it is used.
LEMMA ListsSound ==
  ASSUME NEW h, NEW dec \in {"spu", "decoder"}
  PROVE  /\ h \cap Resources = {} => Releases(<< >>, h)
         /\ h \cap Resources = {"audio"} => Releases(<<"audio">>, h)
         /\ h \cap Resources = {"audio", "mutex"} => Releases(Base, h)
         /\ h \cap Resources = {"audio", "mutex", dec} => Releases(Decoders, h)
         /\ h \cap Resources = {"audio", "mutex", dec, "port"} => Releases(Port, h)
         /\ h \cap Resources = {"audio", "mutex", dec, "port", "queue"}
              => Releases(Queue, h)
         /\ h \cap Resources = {"audio", "mutex", dec, "port", "queue", "notify"}
              => Releases(Queue, h)
         /\ h \cap Resources = {"audio", "mutex", dec, "port", "queue", "notify", "playing"}
              => Releases(Playing, h) /\ Releases(Tail(All), h)
<1> USE DEF Releases, Sound, Before, Elements, Strict, Resources
<1>1. h \cap Resources = {} => Releases(<< >>, h)
  OBVIOUS
<1>2. h \cap Resources = {"audio"} => Releases(<<"audio">>, h)
  OBVIOUS
<1>3. h \cap Resources = {"audio", "mutex"} => Releases(Base, h)
  BY DEF Base
<1>4. h \cap Resources = {"audio", "mutex", dec} => Releases(Decoders, h)
  BY DEF Decoders
<1>5. h \cap Resources = {"audio", "mutex", dec, "port"} => Releases(Port, h)
  BY DEF Port
<1>6. h \cap Resources = {"audio", "mutex", dec, "port", "queue"} => Releases(Queue, h)
  BY DEF Queue
<1>7. h \cap Resources = {"audio", "mutex", dec, "port", "queue", "notify"}
        => Releases(Queue, h)
  BY DEF Queue
<1>8. h \cap Resources = {"audio", "mutex", dec, "port", "queue", "notify", "playing"}
        => Releases(Playing, h) /\ Releases(Tail(All), h)
  BY DEF Playing, All
<1> QED BY <1>1, <1>2, <1>3, <1>4, <1>5, <1>6, <1>7, <1>8

-----------------------------------------------------------------------------
Mine == held \cap Resources
Decoding == IF g_use_spu_opus THEN {"spu"} ELSE {"decoder"}

\* What is held when the set-up makes each of its calls.
Acquired ==
  [audio |-> {}, mutex |-> {"audio"}, spu |-> {"audio", "mutex"}, decoder |-> {"audio", "mutex"},
   port |-> Decoding \cup {"audio", "mutex"},
   config |-> Decoding \cup {"audio", "mutex", "port"},
   queue |-> Decoding \cup {"audio", "mutex", "port"},
   notify |-> Decoding \cup {"audio", "mutex", "port", "queue"},
   playing |-> Decoding \cup {"audio", "mutex", "port", "queue", "notify"},
   thread |-> Decoding \cup {"audio", "mutex", "port", "queue", "notify", "playing"}]

Nothing == Mine = {} /\ ~active /\ ~initialized /\ audio_thread = "none"
Everything == Mine = Acquired.thread /\ initialized

SetupTypes ==
  /\ phase \in {"off", "init", "undo", "on", "stop", "cleanup"}
  /\ step \in DOMAIN Acquired
  /\ {g_use_spu_opus, active, initialized, exiting} \subseteq BOOLEAN
  /\ audio_thread \in {"none", "loop", "wait", "block", "ended"}
  /\ receiver \in {"none", "idle", "decode", "write"}

\* The flag tells which of the two decoders is held.
FlagIsSpu == g_use_spu_opus <=> "spu" \in held

Building ==
  phase = "init" =>
    /\ Mine = Acquired[step]
    /\ step \in {"audio", "mutex", "spu", "decoder"} => ~g_use_spu_opus
    /\ ~active /\ ~initialized /\ audio_thread = "none"

\* Between two calls all is held or nothing, and the receive thread runs only
\* while all is.
Running ==
  /\ phase \notin {"undo", "cleanup"} => todo = << >>
  /\ phase = "off" => Nothing
  /\ phase = "on" => Everything
  /\ phase = "stop" => Nothing \/ Everything
  /\ receiver # "none" => phase = "on"

Undoing ==
  phase = "undo" => Releases(todo, held) /\ ~active /\ ~initialized /\ audio_thread = "none"

\* The clean-up waits for the playback thread, which was told to end, before it
\* releases anything.
Cleaning ==
  phase = "cleanup" =>
    /\ ~active /\ initialized
    /\ \/ todo = All /\ Everything
       \/ audio_thread = "none" /\ Releases(todo, held)

SetupInv == SetupTypes /\ FlagIsSpu /\ Building /\ Running /\ Undoing /\ Cleaning

LEMMA InitSetupInv == SetupInit => SetupInv
BY DEF SetupInit, Resources, SetupInv, SetupTypes, FlagIsSpu, Building, Running, Undoing,
       Cleaning, Nothing, Mine, Acquired

\* The next call in order, and what is held then.
LEMMA CallOrder ==
  ASSUME NEW s \in {"audio", "mutex", "decoder", "port", "config", "queue", "notify", "playing"},
         s = "decoder" => ~g_use_spu_opus
  PROVE  /\ After(s) \in DOMAIN Acquired \ {"audio", "decoder"}
         /\ After(s) = "mutex" <=> s = "audio"
         /\ After(s) = "spu" <=> s = "mutex"
         /\ Acquired[After(s)] = IF s = "config" THEN Acquired[s] ELSE Acquired[s] \cup {s}
<1>1. /\ After("audio") = "mutex" /\ After("mutex") = "spu"
      /\ After("decoder") = "port" /\ After("port") = "config"
      /\ After("config") = "queue" /\ After("queue") = "notify"
      /\ After("notify") = "playing" /\ After("playing") = "thread"
  BY DEF After, Calls
<1>2. /\ Acquired["mutex"] = Acquired["audio"] \cup {"audio"}
      /\ Acquired["spu"] = Acquired["mutex"] \cup {"mutex"}
      /\ ~g_use_spu_opus => Acquired["port"] = Acquired["decoder"] \cup {"decoder"}
      /\ Acquired["config"] = Acquired["port"] \cup {"port"}
      /\ Acquired["queue"] = Acquired["config"]
  BY DEF Acquired, Decoding
<1>3. /\ Acquired["notify"] = Acquired["queue"] \cup {"queue"}
      /\ Acquired["playing"] = Acquired["notify"] \cup {"notify"}
      /\ Acquired["thread"] = Acquired["playing"] \cup {"playing"}
  BY DEF Acquired
<1>4. DOMAIN Acquired = {"audio", "mutex", "spu", "decoder", "port", "config", "queue", "notify",
                         "playing", "thread"}
  BY DEF Acquired
<1> QED BY <1>1, <1>2, <1>3, <1>4

\* The set-up makes one call after the other, or rolls back.
LEMMA SetupCalls ==
  ASSUME SetupInv,
         StartRenderer \/ Acquire \/ UseSpu \/ SpuUnavailable
           \/ StartThread \/ CallFails
  PROVE  SetupInv'
<1> USE DEF SetupInv, SetupTypes, FlagIsSpu, Building, Running, Undoing, Cleaning
<1>1. CASE StartRenderer
  BY <1>1 DEF StartRenderer, Nothing, Mine, Acquired, Decoding, Resources
<1>2. CASE Acquire
  <2>1. phase = "init" /\ phase' = "init" /\ step' = After(step)
    BY <1>2 DEF Acquire
  <2>2. UNCHANGED <<todo, g_use_spu_opus, active, initialized, audio_thread, receiver, exiting>>
    BY <1>2 DEF Acquire
  <2>3. step \in {"audio", "mutex", "decoder", "port", "config", "queue", "notify", "playing"}
    BY <1>2 DEF Acquire, Acquired
  <2>4. FlagIsSpu' /\ Decoding' = Decoding
    BY <1>2, <2>2 DEF Acquire, Decoding
  <2>5. Mine' = IF step = "config" THEN Mine ELSE Mine \cup {step}
    BY <1>2, <2>3 DEF Acquire, Mine, Resources
  <2>6. Acquired' = Acquired /\ Mine = Acquired[step]
        /\ (step \in {"audio", "mutex", "decoder"} => ~g_use_spu_opus)
    BY <2>1, <2>4 DEF Acquired
  <2>7. /\ step' \in DOMAIN Acquired' /\ Mine' = Acquired'[step']
        /\ step' \in {"audio", "mutex", "spu", "decoder"} => ~g_use_spu_opus'
    <3>1. /\ step' \in DOMAIN Acquired \ {"audio", "decoder"}
          /\ step' \in {"mutex", "spu"} => step \in {"audio", "mutex"}
          /\ Acquired[step'] = IF step = "config" THEN Acquired[step]
                                                  ELSE Acquired[step] \cup {step}
      BY <2>1, <2>3, <2>6, CallOrder
    <3> QED BY <2>2, <2>5, <2>6, <3>1
  <2> QED BY <2>1, <2>2, <2>4, <2>7
<1>3. CASE UseSpu
  BY <1>3 DEF UseSpu, Mine, Acquired, Decoding, Resources
<1>4. CASE SpuUnavailable
  BY <1>4 DEF SpuUnavailable, Mine, Acquired, Decoding, Resources, Orphans
<1>5. CASE StartThread
  BY <1>5 DEF StartThread, Everything, Mine, Acquired, Decoding
<1>6. CASE CallFails
  <2>1. PICK dec \in {"spu", "decoder"} : Decoding = {dec}
    BY DEF Decoding
  <2>2. Releases(RollBack[step], held)
    BY <1>6, <2>1, ListsSound DEF CallFails, RollBack, Mine, Acquired
  <2> QED BY <1>6, <2>2 DEF CallFails, Mine, Acquired, Decoding
<1> QED BY <1>1, <1>2, <1>3, <1>4, <1>5, <1>6

\* The threads, and the library's calls.
LEMMA SetupRuns ==
  ASSUME SetupInv,
         CreateReceiver \/ decode_and_play_sample \/ stopAudioStream
           \/ Exit \/ AudioLoop \/ UNCHANGED setupVars
  PROVE  SetupInv'
<1> USE DEF SetupInv, SetupTypes, FlagIsSpu, Building, Running, Undoing, Cleaning, Nothing,
            Everything, Mine, Acquired, Decoding
<1>1. CASE CreateReceiver
  BY <1>1 DEF CreateReceiver
<1>2. CASE decode_and_play_sample
  BY <1>2 DEF decode_and_play_sample
<1>3. CASE stopAudioStream
  BY <1>3 DEF stopAudioStream
<1>4. CASE Exit
  BY <1>4 DEF Exit
<1>5. CASE AudioLoop
  BY <1>5 DEF AudioLoop
<1>6. CASE UNCHANGED setupVars
  BY <1>6 DEF setupVars
<1> QED BY <1>1, <1>2, <1>3, <1>4, <1>5, <1>6

\* The clean-up, and the releases of both.
LEMMA SetupReleases ==
  ASSUME SetupInv, Cleanup \/ JoinThread \/ Release \/ Released
  PROVE  SetupInv'
<1> USE DEF SetupInv, SetupTypes, FlagIsSpu, Building, Running, Undoing, Cleaning
<1>1. CASE Cleanup
  BY <1>1 DEF Cleanup, Nothing, Everything, Mine, Acquired, Decoding
<1>2. CASE JoinThread
  <2>1. PICK dec \in {"spu", "decoder"} : Decoding = {dec}
    BY DEF Decoding
  <2>2. phase = "cleanup" /\ todo = All /\ Everything
    BY <1>2, ReleaseFirst DEF JoinThread, Resources
  <2>3. Releases(Tail(todo), held)
    BY <2>1, <2>2, ListsSound DEF Everything, Mine, Acquired
  <2> QED BY <1>2, <2>2, <2>3 DEF JoinThread, Acquired
<1>3. CASE Release
  <2>1. phase \in {"undo", "cleanup"} /\ audio_thread = "none" /\ Releases(todo, held)
    BY <1>3 DEF Release, All
  <2>2. Releases(todo', held')
    BY <1>3, <2>1, ReleaseFirst DEF Release
  <2> QED BY <1>3, <2>1, <2>2 DEF Release, Acquired
<1>4. CASE Released
  <2>1. audio_thread = "none" /\ Releases(todo, held)
    BY <1>4 DEF Released, All
  <2>2. Mine = {}
    BY <1>4, <2>1 DEF Released, Releases, Elements, Mine
  <2> QED BY <1>4, <2>1, <2>2 DEF Released, Nothing, Mine, Acquired
<1> QED BY <1>1, <1>2, <1>3, <1>4

THEOREM SetupInvariance == SetupSpec => []SetupInv
<1>1. SetupInv /\ [SetupNext]_setupVars => SetupInv'
  BY SetupCalls, SetupRuns, SetupReleases DEF SetupNext, Main
<1> QED BY <1>1, InitSetupInv, PTL DEF SetupSpec

\* Whichever call of the set-up fails, and after every clean-up, nothing is left.
THEOREM NothingEverLeaks == SetupSpec => []NothingLeaks
<1>1. SetupInv => NothingLeaks
  BY DEF SetupInv, Running, Nothing, FlagIsSpu, Mine, Resources, NothingLeaks
<1> QED BY <1>1, SetupInvariance, PTL

\* Nothing is used, by either thread or by another resource, after its release.
THEOREM NothingEverUsedAfterRelease == SetupSpec => []NothingUsedAfterRelease
<1>1. SetupInv => NothingUsedAfterRelease
  <2> SUFFICES ASSUME SetupInv PROVE NothingUsedAfterRelease
    OBVIOUS
  <2> USE DEF SetupInv, SetupTypes
  <2>1. ASSUME Releases(todo, held)
        PROVE  /\ "playing" \in held => "port" \in held
               /\ "notify" \in held => "queue" \in held
               /\ "port" \in held => "audio" \in held
    BY <2>1 DEF Releases, Sound, Before, Elements, Strict, Resources
  <2>2. CASE Everything
    BY <2>2 DEF Everything, Mine, Acquired, Decoding, FlagIsSpu, NothingUsedAfterRelease,
                Resources
  <2>3. CASE Nothing
    BY <2>3 DEF Nothing, Mine, Running, Everything, Acquired, Decoding, Resources,
                NothingUsedAfterRelease
  <2>4. CASE phase = "init"
    BY <2>4 DEF Building, Running, Mine, Acquired, Decoding, Resources,
                NothingUsedAfterRelease
  <2>5. CASE phase \in {"undo", "cleanup"} /\ ~Everything
    BY <2>1, <2>5 DEF Undoing, Cleaning, Running, NothingUsedAfterRelease
  <2> QED BY <2>2, <2>3, <2>4, <2>5 DEF Running
<1> QED BY <1>1, SetupInvariance, PTL

\* No release is made of what was never acquired or is already released.
THEOREM ReleasesAlwaysHeld == SetupSpec => []ReleasesHeld
<1>1. SetupInv => ReleasesHeld
  <2> SUFFICES ASSUME SetupInv, todo # << >>, Head(todo) \in Strict
               PROVE  Head(todo) \in held
    BY DEF SetupInv, FlagIsSpu, Strict, ReleasesHeld
  <2>1. Releases(todo, held)
    BY DEF SetupInv, SetupTypes, Running, Undoing, Cleaning, All, Strict
  <2> QED BY <2>1, ReleaseFirst
<1> QED BY <1>1, SetupInvariance, PTL
=============================================================================
