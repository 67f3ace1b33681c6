------------------------------ MODULE SpuOpus ------------------------------
(***************************************************************************)
(* The Opus decoder on an SPU: src/spu_opus_bridge.c on the host and the   *)
(* worker in src/spu/source/spu_opus.c.  They share one command block and  *)
(* two bounce buffers in main memory.  The host fills the block, sets its  *)
(* status to BUSY, signals the SPU and polls the status for at most 20 ms; *)
(* the SPU copies the whole block to its local store, works, and copies    *)
(* the whole block back.  A signal that is pending already is overwritten. *)
(* Packets are numbered; a packet's PCM carries the packet's number.       *)
(* A start-up that times out frees the memory and leaves the worker it     *)
(* started running; the next stream starts another one beside it.          *)
(***************************************************************************)
EXTENDS Integers

CONSTANTS
  MaxPacket,  \* bound: packets decoded in a behaviour
  Timely      \* TRUE: the SPU always answers before the host gives up

ASSUME SpuAssumption == MaxPacket \in Nat /\ Timely \in BOOLEAN

VARIABLES
  host,       \* where the host is
  allocated,  \* g_cmd and the bounce buffers are allocated
  block,      \* the command block in main memory: cmd, status, opus_len
  bounce_opus, bounce_pcm,  \* the packets whose data the bounce buffers hold
  request,    \* the packet the host is decoding, or decoded last
  answer,     \* the packet whose PCM the last successful decode returned, or None
  quiet,      \* history: the SPU was idle when that request was posted
  signal,     \* a signal waits in SPU signal register 1
  spu,        \* where the SPU worker is
  local,      \* the SPU's copy of the block
  orphan,     \* where the worker is that a start-up timeout left behind; none once
              \* it waits for a signal, since nothing signals it any more
  orphan_local  \* that worker's copy of the block

hostVars == <<host, allocated, request, answer, quiet>>
orphanVars == <<orphan, orphan_local>>
spuVars == <<signal, spu, local, orphanVars>>
vars == <<hostVars, block, bounce_opus, bounce_pcm, spuVars>>

None == 0
Garbage == -1   \* the result of decoding a packet under another one's length
Packet == None .. MaxPacket
Cmd == {"NOP", "INIT", "DECODE", "QUIT"}
Status == {"BUSY", "OK", "ERR"}
Block == [cmd : Cmd, status : Status, opus_len : Packet]

WorkerState == {"none", "wait", "work", "decode", "put", "quit", "exited"}

Zeroed == [cmd |-> "NOP", status |-> "OK", opus_len |-> None]

Init ==
  /\ host = "off" /\ allocated = FALSE
  /\ block = Zeroed /\ local = Zeroed
  /\ bounce_opus = None /\ bounce_pcm = None
  /\ request = None /\ answer = None /\ quiet = TRUE
  /\ signal = FALSE
  /\ spu = "none"
  /\ orphan = "none" /\ orphan_local = Zeroed

Post(cmd, status, len) ==
  /\ block' = [cmd |-> cmd, status |-> status, opus_len |-> len]
  /\ signal' = TRUE

-----------------------------------------------------------------------------
(* The host. *)

\* spu_opus_init up to the poll; when it fails before the SPU thread group runs,
\* it frees what it had and audio.c falls back to the software decoder.  The new
\* memory is where a worker left behind still works, or elsewhere; what it does to
\* others' memory then is not followed.
StartWorker ==
  /\ host \in {"off", "software"}
  /\ allocated' = TRUE
  /\ Post("INIT", "BUSY", None)
  /\ spu' = "wait"
  /\ host' = "init"
  /\ \/ UNCHANGED orphanVars
     \/ orphan' = "none" /\ orphan_local' = Zeroed
  /\ UNCHANGED <<request, answer, quiet, bounce_opus, bounce_pcm, local>>

\* The status is no longer BUSY; whether it is OK or ERR is not looked at.
InitDone ==
  /\ host = "init" /\ block.status # "BUSY"
  /\ host' = "ready"
  /\ UNCHANGED <<allocated, request, answer, quiet, block, bounce_opus, bounce_pcm,
                 spuVars>>

\* 20 ms have passed: spu_opus_shutdown, with g_initialized still false, frees
\* the buffers and leaves the SPU alone.  The software decoder takes over.  Bound:
\* one worker is left behind at a time.
InitTimeout ==
  /\ ~Timely
  /\ host = "init" /\ block.status = "BUSY" /\ orphan = "none"
  /\ allocated' = FALSE
  /\ host' = "software"
  /\ orphan' = IF spu = "wait" /\ ~signal THEN "none" ELSE spu
  /\ orphan_local' = local
  /\ spu' = "none" /\ signal' = FALSE
  /\ UNCHANGED <<request, answer, quiet, block, bounce_opus, bounce_pcm, local>>

\* spu_opus_decode_float, under the bridge's mutex: copy the packet ...
CopyPacket ==
  /\ host = "ready" /\ request < MaxPacket
  /\ request' = request + 1
  /\ bounce_opus' = request + 1
  /\ host' = "copied"
  /\ UNCHANGED <<allocated, answer, quiet, block, bounce_pcm, spuVars>>

\* Fault: the status of the last request is left in the block.
PostNotBusy ==
  /\ host = "copied"
  /\ Post("DECODE", block.status, request)
  /\ host' = "decode"
  /\ quiet' = (spu = "wait" /\ ~signal /\ orphan = "none")
  /\ UNCHANGED <<allocated, request, answer, bounce_opus, bounce_pcm, spu, local, orphanVars>>

\* ... and post the request.
PostDecode ==
  /\ host = "copied"
  /\ Post("DECODE", "BUSY", request)
  /\ host' = "decode"
  /\ quiet' = (spu = "wait" /\ ~signal /\ orphan = "none")
  /\ UNCHANGED <<allocated, request, answer, bounce_opus, bounce_pcm, spu, local, orphanVars>>

\* The poll ends: status OK returns the PCM in the bounce buffer, ERR nothing.
DecodeDone ==
  /\ host = "decode" /\ block.status # "BUSY"
  /\ answer' = IF block.status = "OK" THEN bounce_pcm ELSE None
  /\ host' = "ready"
  /\ UNCHANGED <<allocated, request, quiet, block, bounce_opus, bounce_pcm, spuVars>>

\* The poll gives up.
DecodeTimeout ==
  /\ ~Timely
  /\ host = "decode" /\ block.status = "BUSY"
  /\ answer' = None
  /\ host' = "ready"
  /\ UNCHANGED <<allocated, request, quiet, block, bounce_opus, bounce_pcm, spuVars>>

\* spu_opus_shutdown, up to sysSpuThreadGroupJoin: only cmd is set.
PostQuit ==
  /\ host = "ready"
  /\ block' = [block EXCEPT !.cmd = "QUIT"]
  /\ signal' = TRUE
  /\ host' = "join"
  /\ UNCHANGED <<allocated, request, answer, quiet, bounce_opus, bounce_pcm, spu, local, orphanVars>>

\* Fault: the buffers are freed without the join.
FreedWithoutJoin ==
  /\ host = "join"
  /\ allocated' = FALSE
  /\ host' = "off"
  /\ UNCHANGED <<request, answer, quiet, block, bounce_opus, bounce_pcm, spuVars>>

\* The SPU has stopped: the group is destroyed and the buffers are freed.
Joined ==
  /\ host = "join" /\ spu = "exited"
  /\ allocated' = FALSE
  /\ host' = "off"
  /\ UNCHANGED <<request, answer, quiet, block, bounce_opus, bounce_pcm, spuVars>>

-----------------------------------------------------------------------------
(* The worker.  Each step ends with a DMA transfer. *)

\* Fault: QUIT is not told apart from INIT.
FetchIgnoresQuit ==
  /\ spu = "wait" /\ signal
  /\ signal' = FALSE
  /\ local' = block
  /\ spu' = IF block.cmd = "DECODE" THEN "decode" ELSE "work"
  /\ UNCHANGED <<hostVars, block, bounce_opus, bounce_pcm, orphanVars>>

\* What a block that was fetched tells the worker to do.
Task(b) == IF b.cmd = "QUIT" THEN "quit"
           ELSE IF b.cmd = "DECODE" THEN "decode" ELSE "work"

\* The signal is taken and the block copied in.
Fetch ==
  /\ spu = "wait" /\ signal
  /\ signal' = FALSE
  /\ local' = block
  /\ spu' = Task(block)
  /\ UNCHANGED <<hostVars, block, bounce_opus, bounce_pcm, orphanVars>>

\* INIT: the decoder is created, or its state does not fit.
SpuInit ==
  /\ spu = "work"
  /\ \E s \in {"OK", "ERR"} :
       /\ s = "ERR" => local.cmd = "INIT"
       /\ local' = [local EXCEPT !.status = s]
  /\ spu' = "put"
  /\ UNCHANGED <<hostVars, block, bounce_opus, bounce_pcm, signal, orphanVars>>

\* The PCM of the packet in the bounce buffer, decoded with a length.
Decoded(len) == IF bounce_opus = len THEN bounce_opus ELSE Garbage

\* DECODE: what is in the bounce buffer is decoded with the length in the block,
\* and the PCM is copied out, or the packet is rejected and nothing is.
SpuDecode ==
  /\ spu = "decode"
  /\ \/ /\ bounce_pcm' = Decoded(local.opus_len)
        /\ local' = [local EXCEPT !.status = "OK"]
     \/ /\ local' = [local EXCEPT !.status = "ERR"]
        /\ UNCHANGED bounce_pcm
  /\ spu' = "put"
  /\ UNCHANGED <<hostVars, block, bounce_opus, signal, orphanVars>>

\* The whole block goes back.
PutBack ==
  /\ spu = "put"
  /\ block' = local
  /\ spu' = "wait"
  /\ UNCHANGED <<hostVars, bounce_opus, bounce_pcm, signal, local, orphanVars>>

SpuQuit ==
  /\ spu = "quit"
  /\ block' = [local EXCEPT !.status = "OK"]
  /\ spu' = "exited"
  /\ UNCHANGED <<hostVars, bounce_opus, bounce_pcm, signal, local, orphanVars>>

-----------------------------------------------------------------------------
(* The worker left behind.  It finishes what it was told by the one signal it *)
(* got, on memory that is freed, or that a later start was given again.       *)

\* It copies in the block; freed memory holds anything.
OrphanFetch ==
  /\ orphan = "wait"
  /\ orphan_local' \in IF allocated THEN {block} ELSE Block
  /\ orphan' = Task(orphan_local')
  /\ UNCHANGED <<hostVars, block, bounce_opus, bounce_pcm, signal, spu, local>>

\* It does what that says; a decode may write PCM where the new stream has its own.
OrphanWork ==
  /\ orphan \in {"work", "decode", "quit"}
  /\ \E status \in {"OK", "ERR"} :
       /\ status = "ERR" => orphan_local.cmd \in {"INIT", "DECODE"}
       /\ orphan_local' = [orphan_local EXCEPT !.status = status]
  /\ bounce_pcm' \in IF orphan = "decode" /\ allocated
                     THEN {bounce_pcm, Decoded(orphan_local.opus_len)} ELSE {bounce_pcm}
  /\ orphan' = "put"
  /\ UNCHANGED <<hostVars, block, bounce_opus, signal, spu, local>>

\* It puts the block back, over the one of the running stream if that is there now,
\* and ends or waits for a signal that nobody sends.
OrphanPut ==
  /\ orphan = "put"
  /\ block' = IF allocated THEN orphan_local ELSE block
  /\ orphan' = "none" /\ orphan_local' = Zeroed
  /\ UNCHANGED <<hostVars, bounce_opus, bounce_pcm, signal, spu, local>>

-----------------------------------------------------------------------------
InitCall == InitDone \/ InitTimeout
DecodeCall == PostDecode \/ DecodeDone \/ DecodeTimeout
SpuStep == Fetch \/ SpuInit \/ SpuDecode \/ PutBack \/ SpuQuit
OrphanStep == OrphanFetch \/ OrphanWork \/ OrphanPut
Next == StartWorker \/ InitCall \/ CopyPacket \/ DecodeCall \/ PostQuit \/ Joined
        \/ SpuStep \/ OrphanStep

Spec == Init /\ [][Next]_vars

\* A call that was entered runs on and the SPU executes; packets and the end of
\* the stream come when they come.
FairSpec == Spec /\ WF_vars(InitCall) /\ WF_vars(DecodeCall) /\ WF_vars(Joined) /\ WF_vars(SpuStep)

-----------------------------------------------------------------------------
\* Every variable stays in its domain; the block holds no other status than the
\* three the header defines.
TypeOK ==
  /\ host \in {"off", "init", "ready", "copied", "decode", "join", "software"}
  /\ allocated \in BOOLEAN /\ signal \in BOOLEAN /\ quiet \in BOOLEAN
  /\ block \in Block /\ local \in Block /\ orphan_local \in Block
  /\ bounce_opus \in Packet /\ bounce_pcm \in Packet \cup {Garbage}
  /\ request \in Packet /\ answer \in Packet \cup {Garbage}
  /\ spu \in WorkerState /\ orphan \in WorkerState

\* A decode that succeeds returns the PCM of the packet it was given
\* (src/spu_opus_bridge.h:33-39).
AnswerIsForRequest ==
  host = "ready" => answer \in {None, request}

\* The call, the block and the worker seen as one decoder: a packet is decoded when
\* the worker is about to put its answer back or has done so.
WorkerIsDone == host = "decode" /\ (spu = "put" \/ (spu = "wait" /\ ~signal))
Stage == IF host = "ready" THEN "idle"
         ELSE IF WorkerIsDone THEN "done"
         ELSE IF host \in {"copied", "decode"} THEN "asked" ELSE "closed"
Result ==
  LET status == IF spu = "put" THEN local.status ELSE block.status
  IN  IF WorkerIsDone /\ status = "OK" THEN bounce_pcm ELSE None
Decoder == INSTANCE OpusDecoder WITH
  stage <- Stage, packet <- request, result <- Result, pcm <- answer

\* With a timely SPU the bridge implements OpusDecoder: every packet is decoded
\* exactly once, although the whole block is written back after it and the next
\* request is posted into the same block, and Opus keeps a state from one packet
\* to the next (src/spu_opus_bridge.h:33-39).
DecoderSpec == Decoder!DecoderSpec

\* Late answers do not poison the bridge for good: whatever was late before, a
\* request that finds the SPU idle, and no worker left behind at work, is answered
\* with its own packet or not at all.
QuietRequestIsAnswered ==
  host = "ready" /\ quiet => answer \in {None, request}

\* As long as the worker of a stream runs, the memory it transfers from and to is
\* allocated (src/spu_opus_bridge.h:27-29), also when decodes time out, a QUIT is
\* overwritten, or a worker left behind by an earlier start writes into that memory.
WorkerMemoryAllocated ==
  spu \notin {"none", "exited"} => allocated

\* The same of every worker that runs, which is what the bridge's header says of its
\* memory; a start-up timeout breaks it.
NoWorkerOnFreedMemory ==
  spu \notin {"none", "exited"} \/ orphan # "none" => allocated

\* Shutting down stops the worker and releases the resources
\* (src/spu_opus_bridge.h:27-29).
ShutdownCompletes == host = "join" ~> host = "off"
=============================================================================
