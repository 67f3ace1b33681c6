---------------------------- MODULE DecodeQueue ----------------------------
(***************************************************************************)
(* From the network to the decoder: the receive thread puts frames         *)
(* together and offers them to a queue of a few units                      *)
(* (VideoDepacketizer.c), the decoder thread takes them and submits them   *)
(* to VDEC (VideoStream.c).  A frame that is lost, refused or pushed out   *)
(* leaves the following ones without their reference; what mends the       *)
(* picture is an IDR frame, which the client must ask for                  *)
(* (ControlStream.c).  Both threads write the flags that say which frame   *)
(* may be decoded next, and only the queue itself has a lock.              *)
(***************************************************************************)
EXTENDS Integers, Sequences, SequencesExt

CONSTANTS
  QueueBound, \* sizeBound of decodeUnitQueue: 4 on this console
  DropLimit,  \* CONSECUTIVE_DROP_LIMIT
  MaxWire,    \* bound: frames between the host and the receive thread
  MaxFaults   \* bound: frames lost, corrupt, refused or too many, in all streams

ASSUME DecodeQueueAssumption ==
  /\ QueueBound \in Nat \ {0} /\ DropLimit \in Nat \ {0}
  /\ MaxWire \in Nat \ {0} /\ MaxFaults \in Nat

VARIABLES
  decodeUnitQueue, shutdown,     \* the queue of units
  waitingForIdrFrame,            \* only an IDR frame may be queued
  waitingForNextSuccessfulFrame, \* a complete frame is to tell that the network is back
  dropStatePending,              \* the decoder thread asks for one frame to be dropped
  idrFrameProcessed,             \* the decoder has accepted an IDR frame in this stream
  consecutiveFrameDrops,
  behind,                        \* nextFrameNumber is that of a frame lost since
  rx, frame,                     \* the receive thread and the frame it has
  dec, unit,                     \* the decoder thread and the unit it has
  idrFrameRequiredEvent,         \* wakes the control thread that asks for an IDR frame
  asked, wire,                   \* the host has been asked; the frames it has sent
  broken,                        \* history: a frame is missing after the newest IDR unit
  overflowed, refreshed,         \* history: no IDR unit was queued since such a flush
  spoilt,                        \* history: since an overflow an IDR frame turned out corrupt
  misjudged,                     \* history: nor since a frame given up as lost arrived
  faults

flags == <<waitingForIdrFrame, waitingForNextSuccessfulFrame, dropStatePending,
           idrFrameProcessed, consecutiveFrameDrops, behind>>
network == <<asked, wire>>
history == <<broken, overflowed, spoilt, refreshed, misjudged>>
vars == <<decodeUnitQueue, shutdown, flags, rx, frame, dec, unit, idrFrameRequiredEvent,
          network, history, faults>>

Frames == {"IDR", "PFRAME"}
None == "NONE"
RxPoints == {"off", "idle", "lost", "begin", "parse", "last", "pending", "offer",
             "drop", "overflow", "request", "exited"}
DecPoints == {"off", "wait", "submit", "flush", "pend", "request", "exited"}

TypeOK ==
  /\ decodeUnitQueue \in Seq(Frames) /\ Len(decodeUnitQueue) <= QueueBound
  /\ shutdown \in BOOLEAN
  /\ waitingForIdrFrame \in BOOLEAN /\ waitingForNextSuccessfulFrame \in BOOLEAN
  /\ dropStatePending \in BOOLEAN /\ idrFrameProcessed \in BOOLEAN
  /\ consecutiveFrameDrops \in 0 .. DropLimit - 1
  /\ behind \in BOOLEAN
  /\ rx \in RxPoints /\ frame \in Frames \cup {None}
  /\ dec \in DecPoints /\ unit \in Frames \cup {None}
  /\ idrFrameRequiredEvent \in BOOLEAN
  /\ asked \in BOOLEAN /\ wire \in Seq(Frames) /\ Len(wire) <= MaxWire
  /\ broken \in BOOLEAN /\ overflowed \in BOOLEAN /\ refreshed \in BOOLEAN
  /\ spoilt \in BOOLEAN /\ misjudged \in BOOLEAN
  /\ faults \in 0 .. MaxFaults

\* What may go wrong next does.
Fault ==
  /\ faults < MaxFaults
  /\ faults' = faults + 1

-----------------------------------------------------------------------------
(* Start and stop of the stream. *)

\* The host opens every stream with an IDR frame.
Init ==
  /\ decodeUnitQueue = <<>> /\ shutdown = FALSE
  /\ waitingForIdrFrame = TRUE /\ waitingForNextSuccessfulFrame = FALSE
  /\ dropStatePending = FALSE /\ idrFrameProcessed = FALSE
  /\ consecutiveFrameDrops = 0
  /\ behind = FALSE
  /\ rx = "idle" /\ frame = None /\ dec = "wait" /\ unit = None
  /\ idrFrameRequiredEvent = FALSE
  /\ asked = TRUE /\ wire = <<>>
  /\ broken = TRUE /\ overflowed = FALSE /\ refreshed = FALSE
  /\ spoilt = FALSE /\ misjudged = FALSE
  /\ faults = 0

\* stopVideoDepacketizer, and the interruption of both threads.
StopDepacketizer ==
  /\ rx # "off" /\ ~shutdown
  /\ shutdown' = TRUE
  /\ UNCHANGED <<decodeUnitQueue, flags, rx, frame, dec, unit, idrFrameRequiredEvent,
                 network, history, faults>>

\* The receive thread looks for the interruption between two batches of packets.
RxExit ==
  /\ rx = "idle" /\ shutdown
  /\ rx' = "exited"
  /\ UNCHANGED <<decodeUnitQueue, shutdown, flags, frame, dec, unit, idrFrameRequiredEvent,
                 network, history, faults>>

\* A shut queue hands out nothing, even if it is not empty.
DecExit ==
  /\ dec = "wait" /\ shutdown
  /\ dec' = "exited"
  /\ UNCHANGED <<decodeUnitQueue, shutdown, flags, rx, frame, unit, idrFrameRequiredEvent,
                 network, history, faults>>

\* destroyVideoDepacketizer frees what is still queued.
Destroy ==
  /\ rx = "exited" /\ dec = "exited"
  /\ rx' = "off" /\ dec' = "off"
  /\ decodeUnitQueue' = <<>>
  /\ UNCHANGED <<shutdown, flags, frame, unit, idrFrameRequiredEvent, network, history, faults>>

\* initializeVideoDepacketizer for the next stream: only the count of drops is kept.
Start ==
  /\ rx = "off"
  /\ decodeUnitQueue' = <<>> /\ shutdown' = FALSE
  /\ waitingForIdrFrame' = TRUE /\ waitingForNextSuccessfulFrame' = FALSE
  /\ dropStatePending' = FALSE /\ idrFrameProcessed' = FALSE
  /\ behind' = FALSE
  /\ rx' = "idle" /\ frame' = None /\ dec' = "wait" /\ unit' = None
  /\ idrFrameRequiredEvent' = FALSE
  /\ asked' = TRUE /\ wire' = <<>>
  /\ broken' = TRUE /\ overflowed' = FALSE /\ spoilt' = FALSE
  /\ refreshed' = FALSE /\ misjudged' = FALSE
  /\ UNCHANGED <<consecutiveFrameDrops, faults>>

-----------------------------------------------------------------------------
(* The receive thread. *)

\* dropFrameState.  Once an IDR frame was processed the following frames are let through
\* and another one is only asked for after a gap, or after many drops.
DropFrameState(waits, afterGap, asks) ==
  LET count == consecutiveFrameDrops + 1
  IN /\ dropStatePending' = FALSE
     /\ waitingForIdrFrame' = (waits \/ ~idrFrameProcessed)
     /\ consecutiveFrameDrops' = count % DropLimit
     /\ idrFrameRequiredEvent' =
          (idrFrameRequiredEvent \/ asks \/ (idrFrameProcessed /\ afterGap) \/ count = DropLimit)
     /\ broken' = TRUE

\* The thread is done with its frame.
FrameDone == rx' = "idle" /\ frame' = None

\* A complete frame: only such frames reach the depacketizer.
ReceiveFrame ==
  /\ rx = "idle" /\ wire # <<>>
  /\ frame' = Head(wire) /\ wire' = Tail(wire)
  /\ rx' = "begin"
  /\ UNCHANGED <<decodeUnitQueue, shutdown, flags, dec, unit, idrFrameRequiredEvent, asked,
                 history, faults>>

\* notifyFrameLost: a frame cannot be recovered, or so it seems.
FrameLost ==
  /\ rx = "idle" /\ wire # <<>>
  /\ Fault
  /\ frame' = Head(wire) /\ wire' = Tail(wire)
  /\ DropFrameState(waitingForIdrFrame, waitingForNextSuccessfulFrame, FALSE)
  /\ rx' = "lost"
  /\ UNCHANGED <<decodeUnitQueue, shutdown, waitingForNextSuccessfulFrame, idrFrameProcessed,
                 behind, dec, unit, asked, overflowed, spoilt, refreshed, misjudged>>

\* Fault: a loss is dealt with, but not reported.
ReportLossSilent ==
  /\ rx = "lost" /\ FrameDone
  /\ behind' = waitingForIdrFrame
  /\ UNCHANGED <<decodeUnitQueue, shutdown, waitingForIdrFrame, waitingForNextSuccessfulFrame,
                 dropStatePending, idrFrameProcessed, consecutiveFrameDrops, dec, unit,
                 idrFrameRequiredEvent, network, history, faults>>

\* While an IDR frame is awaited nothing is reported: the gap is noticed with the next
\* frame, unless the one given up arrives after all.  Otherwise it is reported, and the
\* frame would be ignored.  Reference frame invalidation is off (video.c 774), so that a
\* report is a request for an IDR frame.  (The assertion of waitingForRefInvalFrame at
\* 1162 would refuse this last branch; it is compiled with LC_DEBUG only.)
ReportLoss ==
  /\ rx = "lost"
  /\ \/ /\ waitingForIdrFrame
        /\ behind' = TRUE /\ FrameDone
        /\ UNCHANGED <<idrFrameRequiredEvent, misjudged>>
     \/ /\ waitingForIdrFrame
        /\ rx' = "begin" /\ misjudged' = TRUE
        /\ UNCHANGED <<behind, frame, idrFrameRequiredEvent>>
     \/ /\ ~waitingForIdrFrame
        /\ behind' = FALSE /\ FrameDone
        /\ idrFrameRequiredEvent' = TRUE
        /\ UNCHANGED misjudged
  /\ UNCHANGED <<decodeUnitQueue, shutdown, waitingForIdrFrame, waitingForNextSuccessfulFrame,
                 dropStatePending, idrFrameProcessed, consecutiveFrameDrops, dec, unit,
                 network, broken, overflowed, spoilt, refreshed, faults>>

\* The first packet of a frame: is it the next one?
BeginFrame ==
  /\ rx = "begin"
  /\ \/ /\ behind
        /\ waitingForNextSuccessfulFrame' = TRUE
        /\ DropFrameState(waitingForIdrFrame, TRUE, FALSE)
     \/ /\ ~behind
        /\ UNCHANGED <<waitingForNextSuccessfulFrame, dropStatePending, waitingForIdrFrame,
                       consecutiveFrameDrops, idrFrameRequiredEvent, broken>>
  /\ behind' = FALSE
  /\ rx' = "parse"
  /\ UNCHANGED <<decodeUnitQueue, shutdown, idrFrameProcessed, frame, dec, unit, network,
                 overflowed, spoilt, refreshed, misjudged, faults>>

\* processAvcHevcRtpPayloadSlow: an IDR frame ends every wait.
ParseUnits ==
  /\ rx = "parse"
  /\ \/ /\ frame = "IDR"
        /\ waitingForIdrFrame' = FALSE /\ waitingForNextSuccessfulFrame' = FALSE
     \/ /\ frame = "PFRAME"
        /\ UNCHANGED <<waitingForIdrFrame, waitingForNextSuccessfulFrame>>
  /\ rx' = "last"
  /\ UNCHANGED <<decodeUnitQueue, shutdown, dropStatePending, idrFrameProcessed,
                 consecutiveFrameDrops, behind, frame, dec, unit, idrFrameRequiredEvent,
                 network, history, faults>>

\* A packet of the frame does not follow the one before it: either branch after the drop
\* asks for an IDR frame.  If this was one the wait has ended all the same: its first packet
\* ended it, and dropFrameState begins none once the decoder has had an IDR frame.
CorruptFrame ==
  /\ rx = "last"
  /\ Fault
  /\ DropFrameState(waitingForIdrFrame, waitingForNextSuccessfulFrame, FALSE)
  /\ spoilt' = (spoilt \/ (overflowed /\ frame = "IDR"))
  /\ rx' = "request" /\ frame' = None
  /\ UNCHANGED <<decodeUnitQueue, shutdown, waitingForNextSuccessfulFrame, idrFrameProcessed,
                 behind, dec, unit, network, overflowed, refreshed, misjudged>>

\* Fault: a frame that is dropped asks for nothing.
LastPacketSilent ==
  /\ rx = "last"
  /\ \/ /\ waitingForIdrFrame
        /\ DropFrameState(TRUE, FALSE, FALSE)
        /\ FrameDone
     \/ /\ ~waitingForIdrFrame
        /\ rx' = "pending"
        /\ UNCHANGED <<dropStatePending, waitingForIdrFrame, consecutiveFrameDrops, frame,
                       idrFrameRequiredEvent, broken>>
  /\ waitingForNextSuccessfulFrame' = FALSE
  /\ UNCHANGED <<decodeUnitQueue, shutdown, idrFrameProcessed, behind, dec, unit, network,
                 overflowed, spoilt, refreshed, misjudged, faults>>

\* The last packet: a frame that may not be decoded is dropped.  The first complete one
\* after a gap asks for an IDR frame.
LastPacket ==
  /\ rx = "last"
  /\ \/ /\ waitingForIdrFrame
        /\ DropFrameState(TRUE, FALSE, waitingForNextSuccessfulFrame)
        /\ FrameDone
     \/ /\ ~waitingForIdrFrame
        /\ rx' = "pending"
        /\ UNCHANGED <<dropStatePending, waitingForIdrFrame, consecutiveFrameDrops, frame,
                       idrFrameRequiredEvent, broken>>
  /\ waitingForNextSuccessfulFrame' = FALSE
  /\ UNCHANGED <<decodeUnitQueue, shutdown, idrFrameProcessed, behind, dec, unit, network,
                 overflowed, spoilt, refreshed, misjudged, faults>>

\* The drop the decoder thread asked for, unless this is an IDR frame.
PendingDrop ==
  /\ rx = "pending"
  /\ \/ /\ dropStatePending /\ frame = "PFRAME"
        /\ DropFrameState(waitingForIdrFrame, FALSE, FALSE)
        /\ FrameDone
     \/ /\ ~(dropStatePending /\ frame = "PFRAME")
        /\ dropStatePending' = FALSE
        /\ rx' = "offer"
        /\ UNCHANGED <<waitingForIdrFrame, consecutiveFrameDrops, frame,
                       idrFrameRequiredEvent, broken>>
  /\ UNCHANGED <<decodeUnitQueue, shutdown, waitingForNextSuccessfulFrame, idrFrameProcessed,
                 behind, dec, unit, network, overflowed, spoilt, refreshed, misjudged, faults>>

\* reassembleFrame: the queue takes the unit.
Enqueue ==
  /\ rx = "offer" /\ ~shutdown /\ Len(decodeUnitQueue) < QueueBound
  /\ decodeUnitQueue' = Append(decodeUnitQueue, frame)
  /\ broken' = (broken /\ frame # "IDR")
  /\ overflowed' = (overflowed /\ frame # "IDR")
  /\ spoilt' = (spoilt /\ frame # "IDR")
  /\ refreshed' = (refreshed /\ frame # "IDR")
  /\ misjudged' = (misjudged /\ frame # "IDR")
  /\ consecutiveFrameDrops' = 0
  /\ FrameDone
  /\ UNCHANGED <<shutdown, waitingForIdrFrame, waitingForNextSuccessfulFrame, dropStatePending,
                 idrFrameProcessed, behind, dec, unit, idrFrameRequiredEvent, network, faults>>

\* A queue that was shut down does not, and nobody looks at its answer.
EnqueueInterrupted ==
  /\ rx = "offer" /\ shutdown
  /\ consecutiveFrameDrops' = 0
  /\ FrameDone
  /\ UNCHANGED <<decodeUnitQueue, shutdown, waitingForIdrFrame, waitingForNextSuccessfulFrame,
                 dropStatePending, idrFrameProcessed, behind, dec, unit,
                 idrFrameRequiredEvent, network, history, faults>>

\* Fault: after an overflow, too, the following frames are let through.
OverflowLetsThrough ==
  /\ rx = "offer" /\ ~shutdown /\ Len(decodeUnitQueue) = QueueBound
  /\ Fault
  /\ broken' = TRUE
  /\ rx' = "drop"
  /\ UNCHANGED <<decodeUnitQueue, shutdown, flags, frame, dec, unit, idrFrameRequiredEvent,
                 network, overflowed, spoilt, refreshed, misjudged>>

\* A full queue refuses the unit: only an IDR frame may be queued from now on.  (With all
\* faults spent the receive thread waits for the decoder thread here: a bound of the model.)
Overflow ==
  /\ rx = "offer" /\ ~shutdown /\ Len(decodeUnitQueue) = QueueBound
  /\ Fault
  /\ waitingForIdrFrame' = TRUE
  /\ broken' = TRUE
  /\ rx' = "drop"
  /\ UNCHANGED <<decodeUnitQueue, shutdown, waitingForNextSuccessfulFrame, dropStatePending,
                 idrFrameProcessed, consecutiveFrameDrops, behind, frame, dec, unit,
                 idrFrameRequiredEvent, network, overflowed, spoilt, refreshed, misjudged>>

\* The unit is dropped ...
DropRefused ==
  /\ rx = "drop"
  /\ DropFrameState(waitingForIdrFrame, waitingForNextSuccessfulFrame, FALSE)
  /\ rx' = "overflow" /\ frame' = None
  /\ UNCHANGED <<decodeUnitQueue, shutdown, waitingForNextSuccessfulFrame, idrFrameProcessed,
                 behind, dec, unit, network, overflowed, spoilt, refreshed, misjudged, faults>>

\* ... then all units that waited ...
FlushOverflow ==
  /\ rx = "overflow"
  /\ decodeUnitQueue' = <<>>
  /\ overflowed' = TRUE /\ spoilt' = FALSE
  /\ rx' = "request"
  /\ UNCHANGED <<shutdown, flags, frame, dec, unit, idrFrameRequiredEvent, network, broken,
                 refreshed, misjudged, faults>>

\* ... and an IDR frame is asked for.
RequestIdr ==
  /\ rx = "request"
  /\ idrFrameRequiredEvent' = TRUE
  /\ rx' = "idle"
  /\ UNCHANGED <<decodeUnitQueue, shutdown, flags, frame, dec, unit, network, history, faults>>

RxStep ==
  \/ ReceiveFrame \/ FrameLost \/ ReportLoss \/ BeginFrame \/ ParseUnits \/ CorruptFrame
  \/ LastPacket \/ PendingDrop \/ Enqueue \/ EnqueueInterrupted \/ Overflow
  \/ DropRefused \/ FlushOverflow \/ RequestIdr

-----------------------------------------------------------------------------
(* The decoder thread. *)

\* LiWaitForNextVideoFrame
TakeUnit ==
  /\ dec = "wait" /\ ~shutdown /\ decodeUnitQueue # <<>>
  /\ unit' = Head(decodeUnitQueue) /\ decodeUnitQueue' = Tail(decodeUnitQueue)
  /\ dec' = "submit"
  /\ UNCHANGED <<shutdown, flags, rx, frame, idrFrameRequiredEvent, network, history, faults>>

\* LiCompleteVideoFrame of a unit that was accepted.
CompleteOk ==
  /\ dec = "submit"
  /\ idrFrameProcessed' = (idrFrameProcessed \/ unit = "IDR")
  /\ dec' = "wait" /\ unit' = None
  /\ UNCHANGED <<decodeUnitQueue, shutdown, waitingForIdrFrame, waitingForNextSuccessfulFrame,
                 dropStatePending, consecutiveFrameDrops, behind, rx, frame,
                 idrFrameRequiredEvent, network, history, faults>>

\* LiCompleteVideoFrame of one that was refused with DR_NEED_IDR, and the four steps of
\* requestDecoderRefresh.
CompleteNeedIdr ==
  /\ dec = "submit"
  /\ Fault
  /\ waitingForIdrFrame' = TRUE
  /\ broken' = TRUE
  /\ dec' = "flush" /\ unit' = None
  /\ UNCHANGED <<decodeUnitQueue, shutdown, waitingForNextSuccessfulFrame, dropStatePending,
                 idrFrameProcessed, consecutiveFrameDrops, behind, rx, frame,
                 idrFrameRequiredEvent, network, overflowed, spoilt, refreshed, misjudged>>

FlushRefresh ==
  /\ dec = "flush"
  /\ decodeUnitQueue' = <<>>
  /\ broken' = TRUE /\ refreshed' = TRUE
  /\ dec' = "pend"
  /\ UNCHANGED <<shutdown, flags, rx, frame, unit, idrFrameRequiredEvent, network, overflowed,
                 spoilt, misjudged, faults>>

PendDrop ==
  /\ dec = "pend"
  /\ dropStatePending' = TRUE
  /\ dec' = "request"
  /\ UNCHANGED <<decodeUnitQueue, shutdown, waitingForIdrFrame, waitingForNextSuccessfulFrame,
                 idrFrameProcessed, consecutiveFrameDrops, behind, rx, frame, unit,
                 idrFrameRequiredEvent, network, history, faults>>

RefreshRequest ==
  /\ dec = "request"
  /\ idrFrameRequiredEvent' = TRUE
  /\ dec' = "wait"
  /\ UNCHANGED <<decodeUnitQueue, shutdown, flags, rx, frame, unit, network, history, faults>>

DecStep == TakeUnit \/ CompleteOk \/ CompleteNeedIdr \/ FlushRefresh \/ PendDrop \/ RefreshRequest

-----------------------------------------------------------------------------
(* The control thread and the host. *)

\* requestIdrFrameFunc: requests made since the last one become one, sent reliably.
SendRequest ==
  /\ idrFrameRequiredEvent /\ rx # "off"
  /\ idrFrameRequiredEvent' = FALSE
  /\ asked' = TRUE
  /\ UNCHANGED <<decodeUnitQueue, shutdown, flags, rx, frame, dec, unit, wire, history, faults>>

\* The host sends an IDR frame when it was asked, and when it likes.
SendFrame(kind) ==
  /\ rx # "off" /\ Len(wire) < MaxWire
  /\ asked => kind = "IDR"
  /\ asked' = FALSE
  /\ wire' = Append(wire, kind)
  /\ UNCHANGED <<decodeUnitQueue, shutdown, flags, rx, frame, dec, unit,
                 idrFrameRequiredEvent, history, faults>>

HostStep == \E kind \in Frames : SendFrame(kind)

Next == RxStep \/ DecStep \/ SendRequest \/ HostStep
        \/ StopDepacketizer \/ RxExit \/ DecExit \/ Destroy \/ Start

\* The threads and the host go on; that the stream is stopped, or that anything is lost,
\* is not assumed.
Spec == Init /\ [][Next]_vars
        /\ WF_vars(RxStep) /\ WF_vars(DecStep) /\ WF_vars(SendRequest) /\ WF_vars(HostStep)

-----------------------------------------------------------------------------
(* Properties. *)

\* A frame that may yet mend the picture is on its way to the queue.
Mending ==
  \/ "IDR" \in ToSet(wire)
  \/ frame = "IDR" /\ rx \in {"begin", "parse", "last", "pending", "offer"}

\* One of the threads is about to ask, or will when the next frame arrives.
WillAsk ==
  \/ rx \in {"lost", "drop", "overflow", "request"}
  \/ dec \in {"flush", "pend", "request"}
  \/ behind \/ (waitingForNextSuccessfulFrame /\ waitingForIdrFrame)

\* While the decoder misses a frame an IDR frame is on its way, or has been asked for, or
\* will be: at no point do all of the flags, the queue and the host forget about a frame
\* that was lost, refused, flushed or dropped (VideoDepacketizer.c).
GapIsRequested ==
  broken /\ ~misjudged /\ ~shutdown => idrFrameRequiredEvent \/ asked \/ Mending \/ WillAsk

\* After an overflow nothing but an IDR frame is queued, however late the decoder thread
\* asks for a refresh of its own (VideoDepacketizer.c 533-552).  The one way around it is an
\* IDR frame whose first packet ends the wait and that is then found corrupt (701, 803-815).
OverflowResumesWithIdr == overflowed /\ ~spoilt => decodeUnitQueue = <<>>

\* The same without that exception.  The code does not have it: after the corrupt IDR frame
\* it queues P frames until the next one comes (VideoDepacketizer.c 118-131).
OverflowEndsWithIdr == overflowed => decodeUnitQueue = <<>>

\* A picture that misses a frame is mended, unless the stream is stopped.
StreamHeals == broken ~> ~broken \/ shutdown

\* "ensures the next frame submitted to the decoder will be an IDR frame"
\* (VideoDepacketizer.c 735-736, of requestDecoderRefresh).
RefreshResumesWithIdr == refreshed => decodeUnitQueue = <<>>

\* "free malloced memory" (VideoDepacketizer.c 171): every unit is freed in the end.
UnitsAreFreed ==
  [][rx = "offer" /\ rx' = "idle" => Len(decodeUnitQueue') = Len(decodeUnitQueue) + 1]_vars
=============================================================================
