------------------------- MODULE DecodeQueueProofs -------------------------
(***************************************************************************)
(* Safety of the decode-unit queue for any bound of the queue and any      *)
(* number of frames that are lost, refused or too many.                    *)
(*                                                                         *)
(* Of the two threads only the receive thread ends a wait for an IDR       *)
(* frame; that is why nothing slips into the queue after an overflow       *)
(* (Resumes).  That no gap is forgotten rests on the order of the decoder  *)
(* thread's refresh, whose request comes last: as long as its flag or its  *)
(* pending drop may still cost an IDR frame, another one is to come        *)
(* (Refused, Unbroken, Pended).                                            *)
(***************************************************************************)
EXTENDS DecodeQueue, TLAPS

\* An IDR frame that was not yet received has been asked for.
Coming == idrFrameRequiredEvent \/ asked \/ "IDR" \in ToSet(wire)

Refreshing == dec \in {"flush", "pend", "request"}

Resumes ==
  /\ rx \in {"drop", "overflow"} => waitingForIdrFrame
  /\ overflowed /\ ~spoilt =>
       /\ decodeUnitQueue = <<>>
       /\ \/ shutdown
          \/ /\ waitingForIdrFrame \/ (frame = "IDR" /\ rx \in {"last", "pending", "offer"})
             /\ rx \in {"pending", "offer"} => frame = "IDR"

\* An IDR frame that came while the decoder thread refused a unit is followed by another.
Refused ==
  rx \in {"last", "pending", "offer"} /\ frame = "IDR" /\ waitingForIdrFrame =>
    Refreshing \/ Coming

\* So is one that has mended the picture, if there is a wait all the same.
Unbroken ==
  waitingForIdrFrame /\ ~broken =>
    Refreshing \/ Coming \/ (frame = "IDR" /\ rx \in {"begin", "parse"})

\* The same goes for a frame that will be dropped to please the decoder thread.
Pended ==
  dropStatePending =>
    \/ dec = "request" \/ Coming
    \/ frame = "IDR" /\ rx \in {"begin", "parse", "last", "pending"}

\* Between its first and its last packet the thread has a frame.
HasFrame ==
  rx \in {"lost", "begin", "parse", "last", "pending", "offer", "drop"} => frame \in Frames

IInv == TypeOK /\ HasFrame /\ Resumes /\ Refused /\ Unbroken /\ Pended /\ GapIsRequested

-----------------------------------------------------------------------------

\* The frames of a sequence that has grown, or lost its head.
LEMMA FramesOfAppend ==
  ASSUME NEW S, NEW s \in Seq(S), NEW x \in S
  PROVE  ToSet(Append(s, x)) = ToSet(s) \cup {x}
<1>1. /\ DOMAIN Append(s, x) = DOMAIN s \cup {Len(s) + 1}
      /\ Append(s, x)[Len(s) + 1] = x
      /\ \A i \in DOMAIN s : Append(s, x)[i] = s[i]
  OBVIOUS
<1>2. ToSet(Append(s, x)) \subseteq ToSet(s) \cup {x}
  BY <1>1 DEF ToSet
<1>3. ToSet(s) \cup {x} \subseteq ToSet(Append(s, x))
  BY <1>1 DEF ToSet
<1> QED BY <1>2, <1>3

LEMMA FramesOfTail ==
  ASSUME NEW S, NEW s \in Seq(S), s # <<>>
  PROVE  ToSet(s) = ToSet(Tail(s)) \cup {Head(s)}
<1>1. ToSet(s) \subseteq ToSet(Tail(s)) \cup {Head(s)}
  <2> SUFFICES ASSUME NEW i \in DOMAIN s PROVE s[i] \in ToSet(Tail(s)) \cup {Head(s)}
    BY DEF ToSet
  <2>1. CASE i = 1
    BY <2>1
  <2>2. CASE i # 1
    <3>1. i - 1 \in DOMAIN Tail(s) /\ Tail(s)[i - 1] = s[i]
      BY <2>2
    <3> QED BY <3>1 DEF ToSet
  <2> QED BY <2>1, <2>2
<1>2. ToSet(Tail(s)) \cup {Head(s)} \subseteq ToSet(s)
  <2>1. Head(s) \in ToSet(s)
    BY DEF ToSet
  <2>2. ASSUME NEW i \in DOMAIN Tail(s) PROVE Tail(s)[i] \in ToSet(s)
    <3>1. i + 1 \in DOMAIN s /\ s[i + 1] = Tail(s)[i]
      OBVIOUS
    <3> QED BY <3>1 DEF ToSet
  <2> QED BY <2>1, <2>2 DEF ToSet
<1> QED BY <1>1, <1>2

\* Every initial state satisfies the invariant.
LEMMA InitInvariant == Init => IInv
<1> SUFFICES ASSUME Init PROVE IInv OBVIOUS
<1>1. /\ shutdown \in BOOLEAN /\ behind \in BOOLEAN /\ idrFrameRequiredEvent \in BOOLEAN
      /\ waitingForIdrFrame \in BOOLEAN /\ waitingForNextSuccessfulFrame \in BOOLEAN
      /\ dropStatePending \in BOOLEAN /\ idrFrameProcessed \in BOOLEAN /\ asked \in BOOLEAN
      /\ broken \in BOOLEAN /\ overflowed \in BOOLEAN /\ refreshed \in BOOLEAN
      /\ spoilt \in BOOLEAN /\ misjudged \in BOOLEAN
  BY Zenon DEF Init
<1>2. /\ 0 \in 0 .. DropLimit - 1 /\ 0 \in 0 .. MaxFaults
      /\ <<>> \in Seq(Frames) /\ Len(<<>>) <= QueueBound /\ Len(<<>>) <= MaxWire
  BY DecodeQueueAssumption
<1>3. TypeOK
  BY <1>1, <1>2 DEF Init, TypeOK, RxPoints, DecPoints
<1>4. HasFrame /\ Resumes /\ Refused /\ Unbroken /\ Pended /\ GapIsRequested
  BY DEF Init, HasFrame, Resumes, Refused, Unbroken, Pended, GapIsRequested
<1> QED BY <1>3, <1>4 DEF IInv

\* What arrives and what is sent changes who waits for an IDR frame, not whether.
LEMMA WireStep ==
  ASSUME TypeOK
  PROVE  /\ ReceiveFrame \/ FrameLost =>
              /\ wire' \in Seq(Frames) /\ Len(wire') < Len(wire) /\ frame' \in Frames
              /\ "IDR" \in ToSet(wire) => frame' = "IDR" \/ "IDR" \in ToSet(wire')
         /\ HostStep =>
              /\ wire' \in Seq(Frames) /\ Len(wire') <= MaxWire
              /\ asked \/ "IDR" \in ToSet(wire) => "IDR" \in ToSet(wire')
<1> USE DEF TypeOK
<1>1. ASSUME ReceiveFrame \/ FrameLost
      PROVE  /\ wire' \in Seq(Frames) /\ Len(wire') < Len(wire) /\ frame' \in Frames
             /\ "IDR" \in ToSet(wire) => frame' = "IDR" \/ "IDR" \in ToSet(wire')
  <2>1. wire # <<>> /\ frame' = Head(wire) /\ wire' = Tail(wire)
    BY <1>1 DEF ReceiveFrame, FrameLost
  <2>2. ToSet(wire) = ToSet(wire') \cup {frame'}
    BY <2>1, FramesOfTail
  <2> QED BY <2>1, <2>2
<1>2. ASSUME HostStep
      PROVE  /\ wire' \in Seq(Frames) /\ Len(wire') <= MaxWire
             /\ asked \/ "IDR" \in ToSet(wire) => "IDR" \in ToSet(wire')
  <2>1. PICK kind \in Frames : SendFrame(kind)
    BY <1>2 DEF HostStep
  <2>2. ToSet(wire') = ToSet(wire) \cup {kind}
    BY <2>1, FramesOfAppend DEF SendFrame
  <2> QED BY <2>1, <2>2, DecodeQueueAssumption DEF SendFrame
<1> QED BY <1>1, <1>2


\* dropFrameState keeps the types of what it writes.
LEMMA DropTyped ==
  ASSUME TypeOK, NEW waits, NEW afterGap, NEW asks, DropFrameState(waits, afterGap, asks)
  PROVE  /\ dropStatePending' \in BOOLEAN /\ waitingForIdrFrame' \in BOOLEAN
         /\ consecutiveFrameDrops' \in 0 .. DropLimit - 1
         /\ idrFrameRequiredEvent' \in BOOLEAN /\ broken' \in BOOLEAN
<1>1. /\ dropStatePending' \in BOOLEAN /\ waitingForIdrFrame' \in BOOLEAN
      /\ idrFrameRequiredEvent' \in BOOLEAN /\ broken' \in BOOLEAN
  BY Zenon DEF DropFrameState
<1>2. consecutiveFrameDrops' \in 0 .. DropLimit - 1
  <2>1. consecutiveFrameDrops' = (consecutiveFrameDrops + 1) % DropLimit
    BY DEF DropFrameState
  <2>2. consecutiveFrameDrops + 1 \in Nat
    BY DecodeQueueAssumption DEF TypeOK
  <2> QED BY <2>1, <2>2, DecodeQueueAssumption
<1> QED BY <1>1, <1>2

\* A frame that is dropped withdraws no request, and leaves a gap.
LEMMA DropAsks ==
  ASSUME NEW waits, NEW afterGap, NEW asks, DropFrameState(waits, afterGap, asks)
  PROVE  /\ idrFrameRequiredEvent \/ asks \/ (idrFrameProcessed /\ afterGap) =>
              idrFrameRequiredEvent'
         /\ waits \/ ~idrFrameProcessed <=> waitingForIdrFrame'
         /\ ~dropStatePending' /\ broken'
BY Zenon DEF DropFrameState

\* A step of the receive thread keeps the types.
LEMMA RxTypes ==
  ASSUME TypeOK, HasFrame, RxStep
  PROVE  TypeOK' /\ HasFrame'
<1> USE DecodeQueueAssumption DEF TypeOK, HasFrame, RxPoints, DecPoints, flags, network, history
<1>0. Len(wire) <= MaxWire /\ Len(decodeUnitQueue) \in Nat /\ Len(wire) \in Nat
  OBVIOUS
<1>f. ASSUME Fault PROVE faults' \in 0 .. MaxFaults
  BY <1>f DEF Fault
<1>1. CASE ReceiveFrame
  <2>1. wire' \in Seq(Frames) /\ Len(wire') <= MaxWire /\ frame' \in Frames
    BY <1>1, <1>0, WireStep
  <2> QED BY <1>1, <2>1 DEF ReceiveFrame
<1>2. CASE FrameLost
  <2>1. wire' \in Seq(Frames) /\ Len(wire') <= MaxWire /\ frame' \in Frames
    BY <1>2, <1>0, WireStep
  <2>2. faults' \in 0 .. MaxFaults
    BY <1>2, <1>f DEF FrameLost
  <2>3. DropFrameState(waitingForIdrFrame, waitingForNextSuccessfulFrame, FALSE)
    BY <1>2 DEF FrameLost
  <2>4. /\ dropStatePending' \in BOOLEAN /\ waitingForIdrFrame' \in BOOLEAN
        /\ consecutiveFrameDrops' \in 0 .. DropLimit - 1
        /\ idrFrameRequiredEvent' \in BOOLEAN /\ broken' \in BOOLEAN
    BY <2>3, DropTyped
  <2> QED BY <1>2, <2>1, <2>2, <2>4 DEF FrameLost
<1>3. CASE CorruptFrame
  <2>1. DropFrameState(waitingForIdrFrame, waitingForNextSuccessfulFrame, FALSE)
    BY <1>3 DEF CorruptFrame
  <2>2. faults' \in 0 .. MaxFaults
    BY <1>3, <1>f DEF CorruptFrame
  <2>3. spoilt' \in BOOLEAN
    BY Zenon, <1>3 DEF CorruptFrame
  <2>4. /\ dropStatePending' \in BOOLEAN /\ waitingForIdrFrame' \in BOOLEAN
        /\ consecutiveFrameDrops' \in 0 .. DropLimit - 1
        /\ idrFrameRequiredEvent' \in BOOLEAN /\ broken' \in BOOLEAN
    BY <2>1, DropTyped
  <2> QED BY <1>3, <2>2, <2>3, <2>4 DEF CorruptFrame
<1>4. CASE LastPacket
  <2>1. /\ dropStatePending' \in BOOLEAN /\ waitingForIdrFrame' \in BOOLEAN
        /\ consecutiveFrameDrops' \in 0 .. DropLimit - 1
        /\ idrFrameRequiredEvent' \in BOOLEAN /\ broken' \in BOOLEAN
    BY <1>4, DropTyped DEF LastPacket
  <2>2. /\ waitingForNextSuccessfulFrame' \in BOOLEAN
        /\ rx' \in {"idle", "pending"} /\ frame' \in Frames \cup {None}
        /\ rx' = "pending" => frame' \in Frames
    BY <1>4 DEF LastPacket, FrameDone
  <2>3. UNCHANGED <<decodeUnitQueue, shutdown, idrFrameProcessed, behind, dec, unit, network,
                    overflowed, spoilt, refreshed, misjudged, faults>>
    BY <1>4 DEF LastPacket
  <2> QED BY <2>1, <2>2, <2>3
<1>5. CASE PendingDrop
  <2>1. /\ dropStatePending' \in BOOLEAN /\ waitingForIdrFrame' \in BOOLEAN
        /\ consecutiveFrameDrops' \in 0 .. DropLimit - 1
        /\ idrFrameRequiredEvent' \in BOOLEAN /\ broken' \in BOOLEAN
    BY <1>5, DropTyped DEF PendingDrop
  <2>2. /\ rx' \in {"idle", "offer"} /\ frame' \in Frames \cup {None}
        /\ rx' = "offer" => frame' \in Frames
    BY <1>5 DEF PendingDrop, FrameDone
  <2>3. UNCHANGED <<decodeUnitQueue, shutdown, waitingForNextSuccessfulFrame,
                    idrFrameProcessed, behind, dec, unit, network, overflowed, spoilt,
                    refreshed, misjudged, faults>>
    BY <1>5 DEF PendingDrop
  <2> QED BY <2>1, <2>2, <2>3
<1>6. CASE BeginFrame
  <2>1. /\ dropStatePending' \in BOOLEAN /\ waitingForIdrFrame' \in BOOLEAN
        /\ consecutiveFrameDrops' \in 0 .. DropLimit - 1
        /\ idrFrameRequiredEvent' \in BOOLEAN /\ broken' \in BOOLEAN
    BY <1>6, DropTyped DEF BeginFrame
  <2>2. waitingForNextSuccessfulFrame' \in BOOLEAN
    BY <1>6 DEF BeginFrame
  <2> QED BY <1>6, <2>1, <2>2 DEF BeginFrame
<1>7. CASE Overflow \/ DropRefused
  <2>1. CASE Overflow
    <3>1. faults' \in 0 .. MaxFaults
      BY <2>1, <1>f DEF Overflow
    <3> QED BY <2>1, <3>1 DEF Overflow
  <2>2. CASE DropRefused
    <3>1. /\ dropStatePending' \in BOOLEAN /\ waitingForIdrFrame' \in BOOLEAN
          /\ consecutiveFrameDrops' \in 0 .. DropLimit - 1
          /\ idrFrameRequiredEvent' \in BOOLEAN /\ broken' \in BOOLEAN
      BY <2>2, DropTyped DEF DropRefused
    <3> QED BY <2>2, <3>1 DEF DropRefused
  <2> QED BY <1>7, <2>1, <2>2
<1>8. CASE ReportLoss
  <2>1. /\ behind' \in BOOLEAN /\ idrFrameRequiredEvent' \in BOOLEAN /\ misjudged' \in BOOLEAN
        /\ rx' \in {"idle", "begin"} /\ frame' \in Frames \cup {None}
        /\ rx' = "begin" => frame' \in Frames
    BY <1>8 DEF ReportLoss, FrameDone
  <2>2. UNCHANGED <<decodeUnitQueue, shutdown, waitingForIdrFrame,
                    waitingForNextSuccessfulFrame, dropStatePending, idrFrameProcessed,
                    consecutiveFrameDrops, dec, unit, network, broken, overflowed, spoilt,
                    refreshed, faults>>
    BY <1>8 DEF ReportLoss
  <2> QED BY <2>1, <2>2
<1>9. CASE ParseUnits
  <2>1. /\ waitingForIdrFrame' \in BOOLEAN /\ waitingForNextSuccessfulFrame' \in BOOLEAN
        /\ rx' = "last"
    BY <1>9 DEF ParseUnits
  <2> QED BY <1>9, <2>1 DEF ParseUnits
<1>10. CASE EnqueueInterrupted
  <2>1. 0 \in 0 .. DropLimit - 1
    OBVIOUS
  <2> QED BY <1>10, <2>1 DEF EnqueueInterrupted, FrameDone
<1>11. CASE FlushOverflow
  <2>0. <<>> \in Seq(Frames) /\ Len(<<>>) <= QueueBound
    OBVIOUS
  <2>1. /\ decodeUnitQueue' \in Seq(Frames) /\ Len(decodeUnitQueue') <= QueueBound
        /\ overflowed' \in BOOLEAN /\ spoilt' \in BOOLEAN /\ rx' = "request"
    BY Zenon, <1>11, <2>0 DEF FlushOverflow
  <2>2. UNCHANGED <<shutdown, flags, frame, dec, unit, idrFrameRequiredEvent, network, broken,
                    refreshed, misjudged, faults>>
    BY <1>11 DEF FlushOverflow
  <2> QED BY <2>1, <2>2
<1>12. CASE RequestIdr
  BY <1>12 DEF RequestIdr
<1>13. CASE Enqueue
  <2>1. /\ frame \in Frames
        /\ decodeUnitQueue' \in Seq(Frames) /\ Len(decodeUnitQueue') <= QueueBound
    BY <1>13, <1>0 DEF Enqueue
  <2>2. /\ broken' \in BOOLEAN /\ overflowed' \in BOOLEAN /\ spoilt' \in BOOLEAN
        /\ refreshed' \in BOOLEAN /\ misjudged' \in BOOLEAN
    BY Zenon, <1>13 DEF Enqueue
  <2>3. 0 \in 0 .. DropLimit - 1
    OBVIOUS
  <2> QED BY <2>1, <2>2, <2>3, <1>13 DEF Enqueue, FrameDone
<1> QED BY <1>1, <1>2, <1>3, <1>4, <1>5, <1>6, <1>7, <1>8, <1>9, <1>10, <1>11, <1>12, <1>13
         DEF RxStep

\* Every step keeps the types.
LEMMA TypeStep ==
  ASSUME TypeOK, HasFrame, [Next]_vars
  PROVE  TypeOK' /\ HasFrame'
<1> USE DecodeQueueAssumption DEF TypeOK, HasFrame, RxPoints, DecPoints, flags, network, history
<1>1. CASE RxStep
  BY <1>1, RxTypes
<1>2. CASE TakeUnit
  BY <1>2 DEF TakeUnit
<1>3. CASE CompleteOk
  <2>1. idrFrameProcessed' \in BOOLEAN
    BY Zenon, <1>3 DEF CompleteOk
  <2> QED BY <1>3, <2>1 DEF CompleteOk
<1>4. CASE CompleteNeedIdr
  BY <1>4 DEF CompleteNeedIdr, Fault
<1>5. CASE FlushRefresh
  BY <1>5 DEF FlushRefresh
<1>6. CASE PendDrop
  BY <1>6 DEF PendDrop
<1>7. CASE RefreshRequest
  BY <1>7 DEF RefreshRequest
<1>8. CASE SendRequest
  <2>1. idrFrameRequiredEvent' \in BOOLEAN /\ asked' \in BOOLEAN
    BY <1>8 DEF SendRequest
  <2> QED BY <2>1, <1>8 DEF SendRequest
<1>9. CASE HostStep
  <2>1. wire' \in Seq(Frames) /\ Len(wire') <= MaxWire
    BY <1>9, WireStep
  <2>2. asked' \in BOOLEAN
    BY <1>9 DEF HostStep, SendFrame
  <2> QED BY <2>1, <2>2, <1>9 DEF HostStep, SendFrame
<1>10. CASE StopDepacketizer \/ RxExit \/ DecExit
  <2>1. /\ shutdown' \in BOOLEAN /\ rx' \in RxPoints /\ dec' \in DecPoints
        /\ rx' = rx \/ rx' = "exited"
    BY <1>10 DEF StopDepacketizer, RxExit, DecExit
  <2>2. UNCHANGED <<decodeUnitQueue, flags, frame, unit, idrFrameRequiredEvent, network,
                    history, faults>>
    BY <1>10 DEF StopDepacketizer, RxExit, DecExit
  <2> QED BY <2>1, <2>2
<1>11. CASE Destroy
  BY <1>11 DEF Destroy
<1>12. CASE Start
  <2>1. /\ shutdown' \in BOOLEAN /\ behind' \in BOOLEAN /\ idrFrameRequiredEvent' \in BOOLEAN
        /\ waitingForIdrFrame' \in BOOLEAN /\ waitingForNextSuccessfulFrame' \in BOOLEAN
        /\ dropStatePending' \in BOOLEAN /\ idrFrameProcessed' \in BOOLEAN
        /\ asked' \in BOOLEAN /\ broken' \in BOOLEAN /\ overflowed' \in BOOLEAN
        /\ spoilt' \in BOOLEAN /\ refreshed' \in BOOLEAN /\ misjudged' \in BOOLEAN
    BY <1>12 DEF Start
  <2>2. /\ decodeUnitQueue' \in Seq(Frames) /\ Len(decodeUnitQueue') <= QueueBound
        /\ wire' \in Seq(Frames) /\ Len(wire') <= MaxWire
        /\ rx' = "idle" /\ dec' = "wait" /\ frame' = None /\ unit' = None
    BY <1>12 DEF Start
  <2>3. UNCHANGED <<consecutiveFrameDrops, faults>>
    BY <1>12 DEF Start
  <2> QED BY <2>1, <2>2, <2>3
<1>13. CASE UNCHANGED vars
  BY <1>13 DEF vars
<1> QED BY <1>1, <1>2, <1>3, <1>4, <1>5, <1>6, <1>7, <1>8, <1>9, <1>10, <1>11, <1>12, <1>13
         DEF Next, DecStep

\* An IDR frame to come stays one until the receive thread has it.
LEMMA ComingKept ==
  ASSUME TypeOK, Coming, [Next]_vars
  PROVE  Coming' \/ (rx = "idle" /\ frame' = "IDR" /\ rx' \in {"begin", "lost"})
<1> USE DEF Coming, network
<1>1. CASE ReceiveFrame \/ FrameLost
  <2>1. "IDR" \in ToSet(wire) => frame' = "IDR" \/ "IDR" \in ToSet(wire')
    BY <1>1, WireStep
  <2>2. asked' = asked
    BY <1>1 DEF ReceiveFrame, FrameLost
  <2>4. idrFrameRequiredEvent => idrFrameRequiredEvent'
    <3>1. CASE ReceiveFrame
      BY <3>1 DEF ReceiveFrame
    <3>2. CASE FrameLost
      BY <3>2, DropAsks DEF FrameLost
    <3> QED BY <1>1, <3>1, <3>2
  <2>3. rx = "idle" /\ rx' \in {"begin", "lost"}
    BY <1>1 DEF ReceiveFrame, FrameLost
  <2> QED BY <2>1, <2>2, <2>3, <2>4
<1>2. CASE HostStep
  <2>1. asked \/ "IDR" \in ToSet(wire) => "IDR" \in ToSet(wire')
    BY <1>2, WireStep
  <2>2. idrFrameRequiredEvent' = idrFrameRequiredEvent
    BY <1>2 DEF HostStep, SendFrame
  <2> QED BY <2>1, <2>2
<1>3. CASE ReportLoss \/ BeginFrame \/ CorruptFrame \/ LastPacket \/ PendingDrop
           \/ Overflow \/ DropRefused
  <2>1. wire' = wire /\ asked' = asked
    BY <1>3 DEF ReportLoss, BeginFrame, CorruptFrame, LastPacket, PendingDrop, Overflow,
                DropRefused
  <2>2. idrFrameRequiredEvent => idrFrameRequiredEvent'
    <3>1. CASE ReportLoss
      BY <3>1 DEF ReportLoss
    <3>2. CASE BeginFrame
      BY <3>2, DropAsks DEF BeginFrame
    <3>3. CASE CorruptFrame \/ Overflow \/ DropRefused
      BY <3>3, DropAsks DEF CorruptFrame, Overflow, DropRefused
    <3>4. CASE LastPacket \/ PendingDrop
      BY <3>4, DropAsks DEF LastPacket, PendingDrop
    <3> QED BY <1>3, <3>1, <3>2, <3>3, <3>4
  <2> QED BY <2>1, <2>2
<1>4. CASE ParseUnits \/ Enqueue \/ EnqueueInterrupted \/ FlushOverflow \/ TakeUnit \/ CompleteOk
           \/ CompleteNeedIdr \/ FlushRefresh \/ PendDrop \/ StopDepacketizer \/ RxExit
           \/ DecExit \/ Destroy
  <2>1. UNCHANGED <<wire, asked, idrFrameRequiredEvent>>
    BY <1>4 DEF ParseUnits, Enqueue, EnqueueInterrupted, FlushOverflow, TakeUnit, CompleteOk,
                CompleteNeedIdr, FlushRefresh, PendDrop, StopDepacketizer, RxExit, DecExit,
                Destroy
  <2> QED BY <2>1
<1>5. CASE RequestIdr \/ RefreshRequest \/ SendRequest \/ Start
  BY <1>5 DEF RequestIdr, RefreshRequest, SendRequest, Start
<1>6. CASE UNCHANGED vars
  BY <1>6 DEF vars
<1> QED BY <1>1, <1>2, <1>3, <1>4, <1>5, <1>6 DEF Next, RxStep, DecStep

\* After an overflow the wait is ended by an IDR frame only.
LEMMA ResumesStep ==
  ASSUME TypeOK, HasFrame, Resumes, [Next]_vars
  PROVE  Resumes'
<1> USE DEF TypeOK, Resumes, flags, history
<1>1. CASE ReceiveFrame
  BY <1>1 DEF ReceiveFrame
<1>2. CASE FrameLost
  BY <1>2 DEF FrameLost, DropFrameState
<1>3. CASE ReportLoss
  BY <1>3 DEF ReportLoss, FrameDone
<1>4. CASE BeginFrame
  BY <1>4 DEF BeginFrame, DropFrameState
<1>5. CASE ParseUnits
  BY <1>5 DEF ParseUnits
<1>6. CASE CorruptFrame
  BY <1>6 DEF CorruptFrame, DropFrameState
<1>7. CASE LastPacket
  BY <1>7 DEF LastPacket, DropFrameState, FrameDone
<1>8. CASE PendingDrop
  BY <1>8 DEF PendingDrop, DropFrameState, FrameDone
<1>9. CASE Enqueue
  BY <1>9 DEF Enqueue, FrameDone
<1>10. CASE EnqueueInterrupted
  BY <1>10 DEF EnqueueInterrupted, FrameDone
<1>11. CASE Overflow \/ DropRefused
  BY <1>11 DEF Overflow, DropRefused, DropFrameState
<1>12. CASE FlushOverflow
  BY <1>12 DEF FlushOverflow
<1>13. CASE RequestIdr
  BY <1>13 DEF RequestIdr
<1>14. CASE TakeUnit
  BY <1>14 DEF TakeUnit
<1>15. CASE CompleteOk \/ CompleteNeedIdr \/ FlushRefresh \/ PendDrop \/ RefreshRequest
  BY <1>15 DEF CompleteOk, CompleteNeedIdr, FlushRefresh, PendDrop, RefreshRequest
<1>16. CASE SendRequest \/ HostStep \/ DecExit
  BY <1>16 DEF SendRequest, HostStep, SendFrame, DecExit
<1>17. CASE StopDepacketizer \/ RxExit \/ Destroy \/ Start
  BY <1>17 DEF StopDepacketizer, RxExit, Destroy, Start
<1>18. CASE UNCHANGED vars
  BY <1>18 DEF vars
<1> QED BY <1>1, <1>2, <1>3, <1>4, <1>5, <1>6, <1>7, <1>8, <1>9, <1>10, <1>11, <1>12, <1>13,
           <1>14, <1>15, <1>16, <1>17, <1>18 DEF Next, RxStep, DecStep

\* Whatever the decoder thread makes of an IDR frame, its request comes last.
LEMMA RefusedStep ==
  ASSUME TypeOK, Refused, Coming => Coming' \/ rx = "idle", [Next]_vars
  PROVE  Refused'
<1> USE DEF Refused, Refreshing, flags, FrameDone
<1>1. CASE ReceiveFrame \/ FrameLost \/ ReportLoss \/ BeginFrame
  BY <1>1 DEF ReceiveFrame, FrameLost, ReportLoss, BeginFrame
<1>2. CASE ParseUnits
  BY <1>2 DEF ParseUnits
<1>3. CASE CorruptFrame \/ Enqueue \/ EnqueueInterrupted \/ Overflow \/ DropRefused
           \/ FlushOverflow \/ RequestIdr
  BY <1>3 DEF CorruptFrame, Enqueue, EnqueueInterrupted, Overflow, DropRefused, FlushOverflow,
              RequestIdr
<1>4. CASE LastPacket
  BY <1>4 DEF LastPacket
<1>5. CASE PendingDrop
  BY <1>5 DEF PendingDrop
<1>6. CASE TakeUnit \/ CompleteOk \/ SendRequest \/ HostStep \/ StopDepacketizer \/ DecExit
  BY <1>6 DEF TakeUnit, CompleteOk, SendRequest, HostStep, SendFrame, StopDepacketizer, DecExit
<1>7. CASE CompleteNeedIdr \/ FlushRefresh \/ PendDrop
  BY <1>7 DEF CompleteNeedIdr, FlushRefresh, PendDrop
<1>8. CASE RefreshRequest
  BY <1>8 DEF RefreshRequest, Coming
<1>9. CASE RxExit \/ Destroy \/ Start
  BY <1>9 DEF RxExit, Destroy, Start
<1>10. CASE UNCHANGED vars
  BY <1>10 DEF vars
<1> QED BY <1>1, <1>2, <1>3, <1>4, <1>5, <1>6, <1>7, <1>8, <1>9, <1>10 DEF Next, RxStep, DecStep

\* A wait that no gap explains is one the decoder thread has just begun.
LEMMA UnbrokenStep ==
  ASSUME TypeOK, HasFrame, Refused, Unbroken, [Next]_vars,
         Coming => Coming' \/ (rx = "idle" /\ frame' = "IDR" /\ rx' \in {"begin", "lost"})
  PROVE  Unbroken'
<1> USE DEF Unbroken, Refreshing, flags, history, FrameDone
<1>1. CASE ReceiveFrame
  BY <1>1 DEF ReceiveFrame
<1>2. CASE FrameLost \/ CorruptFrame \/ Overflow \/ DropRefused
  BY <1>2, DropAsks DEF FrameLost, CorruptFrame, Overflow, DropRefused
<1>3. CASE ReportLoss
  BY <1>3 DEF ReportLoss
<1>4. CASE BeginFrame
  BY <1>4, DropAsks DEF BeginFrame
<1>5. CASE ParseUnits
  BY <1>5 DEF ParseUnits, HasFrame, Frames
<1>6. CASE LastPacket \/ PendingDrop
  BY <1>6, DropAsks DEF LastPacket, PendingDrop
<1>7. CASE Enqueue
  <2>1. CASE frame = "IDR"
    BY <1>7, <2>1 DEF Enqueue, Refused
  <2>2. CASE frame # "IDR"
    <3>1. broken' = broken
      BY <1>7, <2>2 DEF Enqueue, TypeOK
    <3> QED BY <1>7, <2>2, <3>1 DEF Enqueue
  <2> QED BY <2>1, <2>2
<1>8. CASE EnqueueInterrupted \/ FlushOverflow \/ RequestIdr
  BY <1>8 DEF EnqueueInterrupted, FlushOverflow, RequestIdr
<1>9. CASE TakeUnit \/ CompleteOk \/ SendRequest \/ HostStep \/ StopDepacketizer \/ DecExit
  BY <1>9 DEF TakeUnit, CompleteOk, SendRequest, HostStep, SendFrame, StopDepacketizer, DecExit
<1>10. CASE CompleteNeedIdr \/ FlushRefresh \/ PendDrop
  BY <1>10 DEF CompleteNeedIdr, FlushRefresh, PendDrop
<1>11. CASE RefreshRequest
  BY <1>11 DEF RefreshRequest, Coming
<1>12. CASE RxExit \/ Destroy \/ Start
  BY <1>12 DEF RxExit, Destroy, Start
<1>13. CASE UNCHANGED vars
  BY <1>13 DEF vars
<1> QED BY <1>1, <1>2, <1>3, <1>4, <1>5, <1>6, <1>7, <1>8, <1>9, <1>10, <1>11, <1>12, <1>13
         DEF Next, RxStep, DecStep

\* The drop the decoder thread asks for is set before its request.
LEMMA PendedStep ==
  ASSUME TypeOK, HasFrame, Pended, [Next]_vars,
         Coming => Coming' \/ (rx = "idle" /\ frame' = "IDR" /\ rx' \in {"begin", "lost"})
  PROVE  Pended'
<1> USE DEF Pended, flags, FrameDone
<1>1. CASE ReceiveFrame
  BY <1>1 DEF ReceiveFrame
<1>2. CASE FrameLost \/ CorruptFrame \/ Overflow \/ DropRefused
  BY <1>2, DropAsks DEF FrameLost, CorruptFrame, Overflow, DropRefused
<1>3. CASE ReportLoss
  BY <1>3 DEF ReportLoss
<1>4. CASE BeginFrame
  BY <1>4, DropAsks DEF BeginFrame
<1>5. CASE ParseUnits
  BY <1>5 DEF ParseUnits
<1>6. CASE LastPacket \/ PendingDrop
  BY <1>6, DropAsks DEF LastPacket, PendingDrop
<1>7. CASE Enqueue \/ EnqueueInterrupted \/ FlushOverflow \/ RequestIdr
  BY <1>7 DEF Enqueue, EnqueueInterrupted, FlushOverflow, RequestIdr
<1>8. CASE TakeUnit \/ CompleteOk \/ SendRequest \/ HostStep \/ StopDepacketizer \/ DecExit
           \/ CompleteNeedIdr \/ FlushRefresh
  BY <1>8 DEF TakeUnit, CompleteOk, SendRequest, HostStep, SendFrame, StopDepacketizer, DecExit,
              CompleteNeedIdr, FlushRefresh
<1>9. CASE PendDrop
  BY <1>9 DEF PendDrop
<1>10. CASE RefreshRequest
  BY <1>10 DEF RefreshRequest, Coming
<1>11. CASE RxExit \/ Destroy \/ Start
  BY <1>11 DEF RxExit, Destroy, Start
<1>12. CASE UNCHANGED vars
  BY <1>12 DEF vars
<1> QED BY <1>1, <1>2, <1>3, <1>4, <1>5, <1>6, <1>7, <1>8, <1>9, <1>10, <1>11, <1>12
         DEF Next, RxStep, DecStep

\* While a frame is missing someone will see to it.
LEMMA GapStep ==
  ASSUME TypeOK, HasFrame, Refused, Unbroken, Pended, GapIsRequested, [Next]_vars,
         Coming => Coming' \/ (rx = "idle" /\ frame' = "IDR" /\ rx' \in {"begin", "lost"})
  PROVE  GapIsRequested'
<1> DEFINE Carried == frame = "IDR" /\ rx \in {"begin", "parse", "last", "pending", "offer"}
<1>0. GapIsRequested <=> (broken /\ ~misjudged /\ ~shutdown => Coming \/ Carried \/ WillAsk)
  BY DEF GapIsRequested, Coming, Mending
<1>p. GapIsRequested' <=>
        (broken' /\ ~misjudged' /\ ~shutdown' => Coming' \/ Carried' \/ WillAsk')
  BY DEF GapIsRequested, Coming, Mending
<1> SUFFICES ASSUME broken', ~misjudged', ~shutdown' PROVE Coming' \/ Carried' \/ WillAsk'
  BY <1>p
<1> USE DEF WillAsk, flags, history, FrameDone
<1>1. CASE ReceiveFrame
  BY <1>1, <1>0 DEF ReceiveFrame
<1>2. CASE FrameLost \/ CorruptFrame \/ Overflow \/ DropRefused \/ FlushOverflow
  BY <1>2 DEF FrameLost, CorruptFrame, Overflow, DropRefused, FlushOverflow
<1>3. CASE ReportLoss
  BY <1>3 DEF ReportLoss, Coming
<1>4. CASE BeginFrame
  <2>1. CASE behind
    <3>1. waitingForNextSuccessfulFrame' /\ (waitingForIdrFrame' \/ idrFrameRequiredEvent')
      BY <1>4, <2>1, DropAsks DEF BeginFrame
    <3> QED BY <3>1 DEF Coming
  <2>2. CASE ~behind
    BY <1>4, <2>2, <1>0 DEF BeginFrame
  <2> QED BY <2>1, <2>2
<1>5. CASE ParseUnits
  BY <1>5, <1>0 DEF ParseUnits, HasFrame, Frames
<1>6. CASE LastPacket
  <2>1. CASE waitingForIdrFrame
    <3>1. CASE waitingForNextSuccessfulFrame
      BY <1>6, <2>1, <3>1, DropAsks DEF LastPacket, Coming
    <3>2. CASE ~waitingForNextSuccessfulFrame
      <4>1. Refreshing \/ Coming \/ behind
        BY <1>6, <2>1, <3>2, <1>0 DEF LastPacket, Unbroken, Refused, Refreshing
      <4> QED BY <1>6, <2>1, <4>1 DEF LastPacket, Refreshing
    <3> QED BY <3>1, <3>2
  <2>2. CASE ~waitingForIdrFrame
    BY <1>6, <2>2, <1>0 DEF LastPacket
  <2> QED BY <2>1, <2>2
<1>7. CASE PendingDrop
  BY <1>7, <1>0 DEF PendingDrop, Pended
<1>8. CASE Enqueue
  <2>1. frame # "IDR" /\ broken /\ ~misjudged /\ ~shutdown
    BY <1>8 DEF Enqueue, TypeOK
  <2> QED BY <1>8, <2>1, <1>0 DEF Enqueue
<1>9. CASE EnqueueInterrupted
  BY <1>9 DEF EnqueueInterrupted
<1>10. CASE RequestIdr \/ RefreshRequest \/ SendRequest \/ Start
  BY <1>10 DEF RequestIdr, RefreshRequest, SendRequest, Start, Coming
<1>11. CASE TakeUnit \/ CompleteOk \/ HostStep
  BY <1>11, <1>0 DEF TakeUnit, CompleteOk, HostStep, SendFrame
<1>12. CASE CompleteNeedIdr \/ FlushRefresh \/ PendDrop
  BY <1>12 DEF CompleteNeedIdr, FlushRefresh, PendDrop
<1>13. CASE StopDepacketizer \/ RxExit \/ DecExit \/ Destroy
  BY <1>13, <1>0 DEF StopDepacketizer, RxExit, DecExit, Destroy
<1>14. CASE UNCHANGED vars
  BY <1>14, <1>0 DEF vars
<1> QED BY <1>1, <1>2, <1>3, <1>4, <1>5, <1>6, <1>7, <1>8, <1>9, <1>10, <1>11, <1>12, <1>13,
           <1>14 DEF Next, RxStep, DecStep

-----------------------------------------------------------------------------

\* The invariant holds in every reachable state.
THEOREM Invariant == Spec => []IInv
<1>1. Init => IInv
  BY InitInvariant
<1>2. IInv /\ [Next]_vars => IInv'
  <2> SUFFICES ASSUME IInv, [Next]_vars PROVE IInv'
    OBVIOUS
  <2>1. TypeOK /\ HasFrame /\ Resumes /\ Refused /\ Unbroken /\ Pended /\ GapIsRequested
    BY DEF IInv
  <2>2. Coming => Coming' \/ (rx = "idle" /\ frame' = "IDR" /\ rx' \in {"begin", "lost"})
    BY <2>1, ComingKept
  <2>3. TypeOK' /\ HasFrame'
    BY <2>1, TypeStep
  <2>4. Resumes'
    BY <2>1, ResumesStep
  <2>5. Refused'
    BY <2>1, <2>2, RefusedStep
  <2>6. Unbroken'
    BY <2>1, <2>2, UnbrokenStep
  <2>7. Pended'
    BY <2>1, <2>2, PendedStep
  <2>8. GapIsRequested'
    BY <2>1, <2>2, GapStep
  <2> QED BY <2>3, <2>4, <2>5, <2>6, <2>7, <2>8 DEF IInv
<1> QED BY <1>1, <1>2, PTL DEF Spec

\* The queue never holds more than its bound and the count of drops stays below its limit
\* (VideoDepacketizer.c, LinkedBlockingQueue.c), with all other types.
THEOREM TypeCorrect == Spec => []TypeOK
<1>1. IInv => TypeOK
  BY DEF IInv
<1> QED BY <1>1, Invariant, PTL

\* No frame that the decoder misses is forgotten by both threads, the control thread and
\* the host at once (VideoDepacketizer.c).
THEOREM GapsAlwaysRequested == Spec => []GapIsRequested
<1>1. IInv => GapIsRequested
  BY DEF IInv
<1> QED BY <1>1, Invariant, PTL

\* Once the queue has overflowed the next unit in it is an IDR frame
\* (VideoDepacketizer.c 533-552).
THEOREM OverflowAlwaysResumes == Spec => []OverflowResumesWithIdr
<1>1. IInv => OverflowResumesWithIdr
  BY DEF IInv, Resumes, OverflowResumesWithIdr
<1> QED BY <1>1, Invariant, PTL

=============================================================================
