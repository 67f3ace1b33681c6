-------------------------- MODULE FramePoolProofs --------------------------
(***************************************************************************)
(* Proofs about FramePool, for every number of buffers >= 3, every sleep   *)
(* and every longest draw that is shorter than the sleep.                  *)
(***************************************************************************)
EXTENDS FramePool, FiniteSets, FiniteSetTheorems, TLAPS

\* The slot of the ring j places after tail.
Slot(tail, j) == (tail + j) % VDEC_FRAME_COUNT

\* The head is where the next entry goes.
RingShape == ready_head = Slot(ready_tail, ready_count)

\* The buffer being written is neither on screen nor queued, and the buffer on
\* screen is not queued.
RolesApart ==
  /\ write_buf # front_buf
  /\ \A j \in 0 .. ready_count - 1 :
       /\ ready_queue[Slot(ready_tail, j)] # write_buf
       /\ ready_queue[Slot(ready_tail, j)] # front_buf

\* The newest picture is in the last queued buffer or, when none is queued, in
\* front_buf; only the buffer being written holds no whole picture.
Contents ==
  /\ \A b \in Buf : picture[b] = Torn => main = "decoding" /\ b = write_buf
  /\ latest <= decoded
  /\ ready_count > 0 =>
       /\ latest > 0
       /\ picture[ready_queue[Slot(ready_tail, ready_count - 1)]] = latest
  /\ ready_count = 0 =>
       IF front_buf = NoBuf THEN latest = 0
                            ELSE latest > 0 /\ picture[front_buf] = latest

\* A draw is under way only while the buffers exist, and it samples front_buf; a
\* draw that is under way while the cleanup sleeps began before it.
Lifecycle ==
  /\ ui # "idle" => allocated
  /\ ui = "sampling" =>
       draw_idx = front_buf /\ front_buf # NoBuf /\ picture[front_buf] > 0
  /\ main \in {"off", "stopping"} => ~active_video_thread
  /\ main = "stopping" /\ ui # "idle" => slept <= age
  /\ main # "off" <=> allocated

IInv == TypeOK /\ RingShape /\ RolesApart /\ Contents /\ Lifecycle

-----------------------------------------------------------------------------
\* Adding at most VDEC_FRAME_COUNT to an index wraps round at most once.
LEMMA SlotValue ==
  ASSUME NEW t \in Buf, NEW j \in 0 .. VDEC_FRAME_COUNT
  PROVE  /\ Slot(t, j) = IF t + j < VDEC_FRAME_COUNT THEN t + j
                                                     ELSE t + j - VDEC_FRAME_COUNT
         /\ Slot(t, j) \in Buf
  BY FrameCountAssumption DEF Buf, Slot

\* Stepping an index is adding one to its offset.
LEMMA SlotNext ==
  ASSUME NEW t \in Buf, NEW j \in 0 .. VDEC_FRAME_COUNT - 1
  PROVE  /\ Next1(Slot(t, j)) = Slot(t, j + 1)
         /\ Slot(Next1(t), j) = Slot(t, j + 1)
         /\ Next1(t) \in Buf
         /\ Slot(t, 0) = t
<1>1. Next1(t) = Slot(t, 1) /\ Next1(t) \in Buf
  BY SlotValue, FrameCountAssumption DEF Next1, Slot
<1>2. Slot(t, j) \in Buf /\ Next1(Slot(t, j)) = Slot(Slot(t, j), 1)
  BY SlotValue, FrameCountAssumption DEF Next1, Slot
<1>a. \A s \in Buf, k \in 0 .. VDEC_FRAME_COUNT :
        Slot(s, k) = IF s + k < VDEC_FRAME_COUNT THEN s + k ELSE s + k - VDEC_FRAME_COUNT
  BY SlotValue
<1>b. 1 \in 0 .. VDEC_FRAME_COUNT /\ j \in 0 .. VDEC_FRAME_COUNT /\ j + 1 \in 0 .. VDEC_FRAME_COUNT
  BY FrameCountAssumption
<1>3. Slot(Slot(t, j), 1) = Slot(t, j + 1)
  <2>1. Slot(Slot(t, j), 1) = IF Slot(t, j) + 1 < VDEC_FRAME_COUNT
                              THEN Slot(t, j) + 1 ELSE Slot(t, j) + 1 - VDEC_FRAME_COUNT
    BY <1>a, <1>b, <1>2
  <2>2. Slot(t, j) = IF t + j < VDEC_FRAME_COUNT THEN t + j ELSE t + j - VDEC_FRAME_COUNT
    BY <1>a, <1>b
  <2>3. Slot(t, j + 1) = IF t + (j + 1) < VDEC_FRAME_COUNT
                         THEN t + (j + 1) ELSE t + (j + 1) - VDEC_FRAME_COUNT
    BY <1>a, <1>b
  <2> QED
    BY <2>1, <2>2, <2>3, FrameCountAssumption DEF Buf
<1>4. Slot(Next1(t), j) = Slot(t, j + 1)
  <2>1. Slot(Slot(t, 1), j) = IF Slot(t, 1) + j < VDEC_FRAME_COUNT
                              THEN Slot(t, 1) + j ELSE Slot(t, 1) + j - VDEC_FRAME_COUNT
    BY <1>a, <1>b, <1>1
  <2>2. Slot(t, 1) = IF t + 1 < VDEC_FRAME_COUNT THEN t + 1 ELSE t + 1 - VDEC_FRAME_COUNT
    BY <1>a, <1>b
  <2>3. Slot(t, j + 1) = IF t + (j + 1) < VDEC_FRAME_COUNT
                         THEN t + (j + 1) ELSE t + (j + 1) - VDEC_FRAME_COUNT
    BY <1>a, <1>b
  <2> QED
    BY <2>1, <2>2, <2>3, <1>1, FrameCountAssumption DEF Buf
<1>5. Slot(t, 0) = t
  BY SlotValue, FrameCountAssumption DEF Buf
<1> QED
  BY <1>1, <1>2, <1>3, <1>4, <1>5

\* Different offsets below the size of the ring are different slots.
LEMMA SlotInjective ==
  ASSUME NEW t \in Buf,
         NEW i \in 0 .. VDEC_FRAME_COUNT - 1, NEW j \in 0 .. VDEC_FRAME_COUNT - 1,
         i # j
  PROVE  Slot(t, i) # Slot(t, j)
<1>1. Slot(t, i) = IF t + i < VDEC_FRAME_COUNT THEN t + i ELSE t + i - VDEC_FRAME_COUNT
  BY SlotValue, FrameCountAssumption
<1>2. Slot(t, j) = IF t + j < VDEC_FRAME_COUNT THEN t + j ELSE t + j - VDEC_FRAME_COUNT
  BY SlotValue, FrameCountAssumption
<1> QED
  BY <1>1, <1>2, FrameCountAssumption DEF Buf

\* The ring after write_buf is queued: it ends with write_buf, and its other
\* entries are entries it had before.
LEMMA PushedRing ==
  ASSUME TypeOK, RingShape
  PROVE  /\ PushedTail \in Buf
         /\ PushedCount \in 1 .. VDEC_FRAME_COUNT - 2
         /\ PushedQueue \in [Buf -> Buf]
         /\ Next1(ready_head) = Slot(PushedTail, PushedCount)
         /\ PushedQueue[Slot(PushedTail, PushedCount - 1)] = write_buf
         /\ \A j \in 0 .. PushedCount - 1 :
              \/ PushedQueue[Slot(PushedTail, j)] = write_buf
              \/ \E i \in 0 .. ready_count - 1 :
                   PushedQueue[Slot(PushedTail, j)] = ready_queue[Slot(ready_tail, i)]
<1> DEFINE off == IF QueueFull THEN 1 ELSE 0
<1>1. /\ PushedTail \in Buf
      /\ PushedCount \in 1 .. VDEC_FRAME_COUNT - 2
      /\ PushedQueue \in [Buf -> Buf]
      /\ PushedCount + off = ready_count + 1
  BY SlotNext, FrameCountAssumption DEF TypeOK, PushedTail, PushedCount, PushedQueue, QueueFull
<1>2. \A j \in 0 .. PushedCount : Slot(PushedTail, j) = Slot(ready_tail, j + off)
  BY <1>1, SlotNext, FrameCountAssumption DEF TypeOK, PushedTail, PushedCount, QueueFull
<1>3. Next1(ready_head) = Slot(ready_tail, ready_count + 1)
  <2>1. ready_tail \in Buf /\ ready_count \in 0 .. VDEC_FRAME_COUNT - 1
    BY FrameCountAssumption DEF TypeOK
  <2> QED
    BY <2>1, SlotNext DEF RingShape
<1>4. Slot(PushedTail, PushedCount) = Slot(ready_tail, ready_count + 1)
  BY <1>1, <1>2
<1>5. Slot(PushedTail, PushedCount - 1) = ready_head
  <2>1. PushedCount - 1 \in 0 .. PushedCount /\ PushedCount - 1 + off = ready_count
    BY <1>1, FrameCountAssumption DEF TypeOK
  <2> QED
    BY <2>1, <1>2 DEF RingShape
<1>6. ASSUME NEW j \in 0 .. PushedCount - 1
      PROVE  \/ PushedQueue[Slot(PushedTail, j)] = write_buf
             \/ \E i \in 0 .. ready_count - 1 :
                  PushedQueue[Slot(PushedTail, j)] = ready_queue[Slot(ready_tail, i)]
  <2>1. CASE j + off = ready_count
    <3>1. Slot(PushedTail, j) = ready_head
      BY <2>1, <1>1, <1>2 DEF RingShape
    <3> QED
      BY <3>1 DEF PushedQueue, TypeOK
  <2>2. CASE j + off # ready_count
    <3>1. j + off \in 0 .. ready_count - 1 /\ ready_count \in 0 .. VDEC_FRAME_COUNT - 1
      BY <2>2, <1>1, FrameCountAssumption DEF TypeOK
    <3>2. Slot(PushedTail, j) = Slot(ready_tail, j + off)
      BY <1>1, <1>2
    <3>3. Slot(PushedTail, j) # ready_head
      <4>1. j + off \in 0 .. VDEC_FRAME_COUNT - 1
        BY <3>1, FrameCountAssumption
      <4> QED
        BY <3>1, <3>2, <4>1, <2>2, SlotInjective DEF RingShape, TypeOK
    <3>4. Slot(PushedTail, j) \in Buf
      BY <1>1, SlotValue, FrameCountAssumption
    <3>5. PushedQueue[Slot(PushedTail, j)] = ready_queue[Slot(PushedTail, j)]
      BY <3>3, <3>4 DEF PushedQueue, TypeOK
    <3> QED
      BY <3>1, <3>2, <3>5
  <2> QED
    BY <2>1, <2>2
<1>7. PushedQueue[Slot(PushedTail, PushedCount - 1)] = write_buf
  BY <1>5 DEF PushedQueue, TypeOK
<1> QED
  BY <1>1, <1>3, <1>4, <1>6, <1>7

-----------------------------------------------------------------------------
\* The count of the queued buffers leaves at least one buffer free.
LEMMA FreeBufExists ==
  ASSUME IInv PROVE FreeBufs # {}
<1> DEFINE Offsets == 0 .. PushedCount - 1
           F == [j \in Offsets |-> PushedQueue[Slot(PushedTail, j)]]
           Used == {front_buf} \cup {F[j] : j \in Offsets}
<1> USE FrameCountAssumption
<1>1. /\ PushedCount \in 1 .. VDEC_FRAME_COUNT - 2
      /\ PushedTail \in Buf
  BY PushedRing DEF IInv
<1>2. IsFiniteSet(Offsets) /\ Cardinality(Offsets) = PushedCount
  <2>1. 0 \in Int /\ PushedCount - 1 \in Int /\ ~(0 > PushedCount - 1)
    BY <1>1
  <2> QED
    BY <2>1, <1>1, FS_Interval
<1>3. /\ IsFiniteSet({F[j] : j \in Offsets})
      /\ Cardinality({F[j] : j \in Offsets}) <= PushedCount
  <2>1. F \in Surjection(Offsets, {F[j] : j \in Offsets})
    BY Zenon DEF Surjection
  <2> QED
    BY <1>2, <2>1, FS_Surjection
<1>4. IsFiniteSet(Used) /\ Cardinality(Used) <= PushedCount + 1
  <2> DEFINE Q == {F[j] : j \in Offsets}
  <2>1. Cardinality(Q) \in Nat
    BY <1>3, FS_CardinalityType
  <2>2. IsFiniteSet(Q \cup {front_buf}) /\ Cardinality(Q \cup {front_buf}) <= Cardinality(Q) + 1
    <3> HIDE DEF F
    <3>1. IsFiniteSet(Q) /\ Cardinality(Q) \in Nat
      BY <1>3, <2>1
    <3> HIDE DEF Q
    <3>2. /\ IsFiniteSet(Q \cup {front_buf})
          /\ Cardinality(Q \cup {front_buf}) =
               IF front_buf \in Q THEN Cardinality(Q) ELSE Cardinality(Q) + 1
      BY <3>1, FS_AddElement
    <3> QED
      BY <3>1, <3>2
  <2>3. Used = Q \cup {front_buf}
    OBVIOUS
  <2>4. Cardinality(Q) <= PushedCount
    BY <1>3
  <2>5. Cardinality(Q \cup {front_buf}) \in Nat
    BY <2>2, FS_CardinalityType
  <2> HIDE DEF Q, Used
  <2> QED
    BY <1>1, <2>1, <2>2, <2>3, <2>4, <2>5
<1>5. IsFiniteSet(Buf) /\ Cardinality(Buf) = VDEC_FRAME_COUNT
  BY FS_Interval DEF Buf
<1>6. ~(Buf \subseteq Used)
  <2>1. SUFFICES ASSUME Buf \subseteq Used PROVE FALSE
    OBVIOUS
  <2>2. Cardinality(Buf) <= Cardinality(Used)
    BY <1>4, <2>1, FS_Subset
  <2>3. Cardinality(Used) \in Nat
    BY <1>4, FS_CardinalityType
  <2> QED
    BY <1>1, <1>4, <1>5, <2>2, <2>3
<1>7. Used = {front_buf} \cup Entries(PushedQueue, PushedTail, PushedCount)
  BY DEF Entries, Slot
<1> QED
  BY <1>6, <1>7 DEF FreeBufs

LEMMA InitIInv == Init => IInv
<1> SUFFICES ASSUME Init PROVE IInv
  OBVIOUS
<1>1. TypeOK
  <2>1. 0 \in Buf /\ 0 \in 0 .. VDEC_FRAME_COUNT - 2
    BY FrameCountAssumption DEF Buf
  <2> QED
    <3>1. 0 \in 0 .. SleepTicks /\ 0 \in 0 .. DrawTicks
      BY FrameBoundAssumption
    <3> QED
      BY <2>1, <3>1 DEF Init, TypeOK
<1>2. RingShape
  BY SlotNext, FrameCountAssumption DEF Init, RingShape, Buf
<1> QED
  BY <1>1, <1>2 DEF Init, IInv, RolesApart, Contents, Lifecycle, Buf, NoBuf, Blank, Torn

\* Each action of the main thread and of the UI thread keeps the invariant.
LEMMA StepIInv ==
  ASSUME DrawTicks < SleepTicks, IInv, [Next]_vars
  PROVE  IInv'
<1> USE DEF IInv
<1>1. CASE Setup
  <2>1. TypeOK'
    <3>1. 0 \in Buf /\ 0 \in 0 .. VDEC_FRAME_COUNT - 2
      BY FrameCountAssumption DEF Buf
    <3> QED
      BY <3>1, <1>1 DEF Setup, ResetRuntimeState, timers, TypeOK
  <2>2. RingShape'
    BY <1>1, SlotNext, FrameCountAssumption DEF Setup, ResetRuntimeState, RingShape, Buf
  <2>3. RolesApart'
    BY <1>1 DEF Setup, ResetRuntimeState, RolesApart, NoBuf
  <2>4. Contents'
    BY <1>1 DEF Setup, ResetRuntimeState, Contents, TypeOK, Blank, Torn, NoBuf
  <2>5. Lifecycle'
    BY <1>1 DEF Setup, timers, Lifecycle
  <2> QED
    BY <2>1, <2>2, <2>3, <2>4, <2>5
<1>2. CASE GetPicture
  <2>1. TypeOK' /\ RingShape' /\ RolesApart'
    BY <1>2 DEF GetPicture, poolVars, timers, TypeOK, RingShape, RolesApart
  <2>2. \A b \in Buf : b # write_buf => picture'[b] = picture[b]
    BY <1>2 DEF GetPicture, TypeOK
  <2>3. ready_count > 0 => /\ ready_queue[Slot(ready_tail, ready_count - 1)] \in Buf
                           /\ ready_queue[Slot(ready_tail, ready_count - 1)] # write_buf
    BY SlotValue, FrameCountAssumption DEF TypeOK, RolesApart
  <2>4. Contents'
    BY <1>2, <2>2, <2>3 DEF GetPicture, poolVars, Contents, RolesApart, TypeOK
  <2>5. Lifecycle'
    BY <1>2, <2>2 DEF GetPicture, poolVars, timers, Lifecycle, RolesApart, TypeOK
  <2> QED
    BY <2>1, <2>4, <2>5
<1>3. CASE Enqueue
  <2> USE DEF Enqueue
  <2>1. /\ write_buf' \in Buf /\ write_buf' \in FreeBufs
        /\ ready_queue' = PushedQueue /\ ready_tail' = PushedTail
        /\ ready_count' = PushedCount /\ front_buf' = front_buf
    BY <1>3 DEF FirstFree
  <2>2. TypeOK'
    BY <1>3, <2>1, PushedRing, SlotNext, FrameCountAssumption DEF timers, TypeOK
  <2>3. RingShape'
    BY <1>3, <2>1, PushedRing DEF RingShape
  <2>4. RolesApart'
    <3>1. write_buf' # front_buf'
      BY <2>1 DEF FreeBufs
    <3>2. ASSUME NEW j \in 0 .. PushedCount - 1
          PROVE  /\ PushedQueue[Slot(PushedTail, j)] # write_buf'
                 /\ PushedQueue[Slot(PushedTail, j)] # front_buf
      <4>1. PushedQueue[Slot(PushedTail, j)] \in Entries(PushedQueue, PushedTail, PushedCount)
        BY DEF Entries, Slot
      <4>2. PushedQueue[Slot(PushedTail, j)] # front_buf
        BY PushedRing DEF RolesApart
      <4> QED
        BY <4>1, <4>2, <2>1 DEF FreeBufs
    <3> QED
      BY <2>1, <3>1, <3>2 DEF RolesApart
  <2>5. \A b \in Buf : picture'[b] = IF b = write_buf THEN decoded + 1 ELSE picture[b]
    BY <1>3 DEF TypeOK
  <2>6. Contents'
    <3>1. \A b \in Buf : picture'[b] # Torn
      BY <1>3, <2>5 DEF Contents, TypeOK, Torn
    <3>2. picture'[PushedQueue[Slot(PushedTail, PushedCount - 1)]] = latest'
      BY <1>3, <2>5, PushedRing DEF TypeOK
    <3>3. PushedCount > 0 /\ latest' > 0 /\ latest' <= decoded'
      BY <1>3, PushedRing, FrameCountAssumption DEF TypeOK
    <3> QED
      BY <2>1, <3>1, <3>2, <3>3 DEF Contents
  <2>7. Lifecycle'
    <3>1. front_buf # NoBuf => picture'[front_buf] = picture[front_buf]
      BY <2>5 DEF RolesApart, TypeOK
    <3>2. /\ main = "decoding" /\ main' = "poll" /\ front_buf' = front_buf
          /\ UNCHANGED <<ui, draw_idx, allocated, active_video_thread, timers>>
      BY <1>3
    <3> HIDE DEF Enqueue
    <3> QED
      BY <3>1, <3>2 DEF timers, Lifecycle
  <2> QED
    BY <2>2, <2>3, <2>4, <2>6, <2>7
<1>4. CASE StopVideo
  <2>1. TypeOK'
    <3>1. 0 \in 0 .. SleepTicks
      BY FrameBoundAssumption
    <3> QED
      BY <3>1, <1>4 DEF StopVideo, poolVars, TypeOK
  <2>2. RingShape' /\ RolesApart' /\ Contents'
    BY <1>4 DEF StopVideo, poolVars, RingShape, RolesApart, Contents
  <2>3. Lifecycle'
    BY <1>4, FrameBoundAssumption DEF StopVideo, poolVars, TypeOK, Lifecycle
  <2> QED
    BY <2>1, <2>2, <2>3
<1>5. CASE Release
  <2>1. TypeOK'
    <3>1. 0 \in Buf /\ 0 \in 0 .. VDEC_FRAME_COUNT - 2
      BY FrameCountAssumption DEF Buf
    <3> QED
      BY <3>1, <1>5 DEF Release, ResetRuntimeState, timers, TypeOK
  <2>2. RingShape'
    BY <1>5, SlotNext, FrameCountAssumption DEF Release, ResetRuntimeState, RingShape, Buf
  <2>3. RolesApart'
    BY <1>5 DEF Release, ResetRuntimeState, RolesApart, NoBuf
  <2>4. Contents'
    BY <1>5 DEF Release, ResetRuntimeState, Contents, TypeOK, NoBuf
  <2>5. Lifecycle'
    <3>1. ui = "idle"
      BY <1>5, FrameBoundAssumption DEF Release, Lifecycle, TypeOK
    <3> QED
      BY <3>1, <1>5 DEF Release, timers, Lifecycle
  <2> QED
    BY <2>1, <2>2, <2>3, <2>4, <2>5
<1>6. CASE DrawCheck
  BY <1>6, FrameBoundAssumption
     DEF DrawCheck, poolVars, TypeOK, RingShape, RolesApart, Contents, Lifecycle
<1>7. CASE DrawTake
  <2> USE DEF DrawTake
  <2>1. CASE ready_count > 0
    <3> DEFINE newest == (ready_tail + (ready_count - 1)) % VDEC_FRAME_COUNT
    <3>1. newest = Slot(ready_tail, ready_count - 1) /\ newest \in Buf
      BY <2>1, SlotValue, FrameCountAssumption DEF TypeOK, Slot
    <3>2. Next1(newest) = Slot(ready_tail, ready_count)
      <4>1. ready_count - 1 \in 0 .. VDEC_FRAME_COUNT - 1 /\ (ready_count - 1) + 1 = ready_count
        BY <2>1, FrameCountAssumption DEF TypeOK
      <4>2. Next1(Slot(ready_tail, ready_count - 1)) = Slot(ready_tail, (ready_count - 1) + 1)
        BY <4>1, SlotNext DEF TypeOK
      <4> QED
        BY <4>1, <4>2, <3>1
    <3>3. /\ front_buf' = ready_queue[newest] /\ ready_tail' = Next1(newest)
          /\ ready_count' = 0 /\ draw_idx' = front_buf'
          /\ front_buf' \in Buf /\ front_buf' # NoBuf /\ ui' = "sampling"
      BY <1>7, <2>1, <3>1, FrameCountAssumption DEF TypeOK, Buf, NoBuf
    <3> HIDE DEF newest
    <3>4. ready_tail' = ready_head /\ ready_head' = ready_head
      BY <1>7, <3>2, <3>3 DEF RingShape
    <3>5. TypeOK'
      BY <1>7, <3>3, <3>4, FrameCountAssumption DEF timers, TypeOK
    <3>6. RingShape'
      BY <3>3, <3>4, SlotNext, FrameCountAssumption DEF RingShape, TypeOK
    <3>7. RolesApart'
      BY <1>7, <2>1, <3>1, <3>3, FrameCountAssumption DEF RolesApart, TypeOK
    <3>8. Contents'
      BY <1>7, <2>1, <3>1, <3>3 DEF Contents
    <3>9. Lifecycle'
      BY <1>7, <2>1, <3>1, <3>3 DEF timers, Lifecycle, Contents, TypeOK
    <3> QED
      BY <3>5, <3>6, <3>7, <3>8, <3>9
  <2>2. CASE ~(ready_count > 0)
    <3>1. ready_count = 0
      BY <2>2, FrameCountAssumption DEF TypeOK
    <3>2. UNCHANGED poolVars /\ draw_idx' = front_buf
      BY <1>7, <2>2 DEF poolVars
    <3>3. TypeOK' /\ RingShape' /\ RolesApart' /\ Contents'
      BY <1>7, <3>2 DEF poolVars, timers, TypeOK, RingShape, RolesApart, Contents
    <3>4. Lifecycle'
      BY <1>7, <3>1, <3>2 DEF poolVars, timers, Lifecycle, Contents, TypeOK
    <3> QED
      BY <3>3, <3>4
  <2> QED
    BY <2>1, <2>2
<1>8. CASE DrawEnd
  BY <1>8 DEF DrawEnd, poolVars, timers, TypeOK, RingShape, RolesApart, Contents, Lifecycle
<1>9. CASE Tick
  <2>1. TypeOK' /\ RingShape' /\ RolesApart' /\ Contents'
    BY <1>9, FrameBoundAssumption DEF Tick, poolVars, TypeOK, RingShape, RolesApart, Contents
  <2>2. Lifecycle'
    BY <1>9, FrameBoundAssumption DEF Tick, poolVars, TypeOK, Lifecycle
  <2> QED
    BY <2>1, <2>2
<1>10. CASE UNCHANGED vars
  BY <1>10 DEF vars, poolVars, timers, TypeOK, RingShape, RolesApart, Contents, Lifecycle
<1> QED
  BY <1>1, <1>2, <1>3, <1>4, <1>5, <1>6, <1>7, <1>8, <1>9, <1>10
     DEF Next, MainStep, UiStep

\* The invariant holds in every reachable state: the roles of the buffers, the
\* shape of the ring and the place of the newest picture that src/video.c keeps
\* across vdec_poll, ps3video_draw, setup and cleanup.
THEOREM Invariance ==
  ASSUME DrawTicks < SleepTicks
  PROVE  Spec => []IInv
<1>1. IInv /\ [Next]_vars => IInv'
  BY StepIInv
<1> QED
  BY <1>1, InitIInv, PTL DEF Spec

\* The indices and counters of the pool stay in range.
THEOREM TypeCorrect ==
  ASSUME DrawTicks < SleepTicks
  PROVE  Spec => []TypeOK
<1>1. IInv => TypeOK
  BY DEF IInv
<1> QED
  BY <1>1, Invariance, PTL

\* VDEC never writes into the buffer the RSX samples.
THEOREM NeverTears ==
  ASSUME DrawTicks < SleepTicks
  PROVE  Spec => []NoTearing
<1>1. IInv => NoTearing
  BY DEF IInv, Lifecycle, NoTearing, Torn
<1> QED
  BY <1>1, Invariance, PTL

\* The search loop of vdec_poll finds a free buffer.
THEOREM SearchAlwaysTerminates ==
  ASSUME DrawTicks < SleepTicks
  PROVE  Spec => []SearchTerminates
<1>1. IInv => SearchTerminates
  BY FreeBufExists DEF SearchTerminates
<1> QED
  BY <1>1, Invariance, PTL

\* No draw uses what release_video_resources has freed, although the cleanup only
\* sleeps: a draw that still runs when it wakes up would have taken longer.
THEOREM ReleaseIsSafe ==
  ASSUME DrawTicks < SleepTicks
  PROVE  Spec => []NoDrawAfterRelease
<1>1. IInv => NoDrawAfterRelease
  BY DEF IInv, Lifecycle, NoDrawAfterRelease
<1> QED
  BY <1>1, Invariance, PTL

\* A draw picks the buffer with the newest picture.
LEMMA TakeNewest ==
  ASSUME IInv, DrawTake
  PROVE  /\ ui' = "sampling" => picture[draw_idx'] = latest /\ latest > 0
         /\ ui' = "idle" => latest = 0
<1> USE DEF IInv, DrawTake
<1>1. CASE ready_count > 0
  <2>1. /\ draw_idx' = ready_queue[Slot(ready_tail, ready_count - 1)]
        /\ ui' = IF draw_idx' = NoBuf THEN "idle" ELSE "sampling"
    BY <1>1 DEF Slot
  <2>2. draw_idx' # NoBuf
    <3>1. Slot(ready_tail, ready_count - 1) \in Buf
      BY <1>1, SlotValue, FrameCountAssumption DEF TypeOK
    <3>2. draw_idx' \in Buf
      BY <2>1, <3>1 DEF TypeOK
    <3> QED
      BY <3>2, FrameCountAssumption DEF Buf, NoBuf
  <2> QED
    BY <1>1, <2>1, <2>2 DEF Contents
<1>2. CASE ~(ready_count > 0)
  <2>1. ready_count = 0
    BY <1>2, FrameCountAssumption DEF TypeOK
  <2> QED
    BY <1>2, <2>1 DEF Contents
<1> QED
  BY <1>1, <1>2

\* Every draw shows the newest picture of the running stream.
THEOREM AlwaysDrawsNewest ==
  ASSUME DrawTicks < SleepTicks
  PROVE  Spec => DrawsNewest
<1>1. IInv /\ [Next]_vars => [ui = "checked" /\ ui' # ui =>
                                 /\ ui' = "sampling" => picture[draw_idx'] = latest
                                 /\ ui' = "idle" => latest = 0]_vars
  <2> SUFFICES ASSUME IInv, Next, ui = "checked", ui' # ui
               PROVE  /\ ui' = "sampling" => picture[draw_idx'] = latest
                      /\ ui' = "idle" => latest = 0
    OBVIOUS
  <2>1. DrawTake
    BY DEF Next, MainStep, UiStep, Setup, GetPicture, Enqueue, StopVideo, Release,
           DrawCheck, DrawEnd, Tick
  <2> QED
    BY <2>1, TakeNewest
<1> QED
  BY <1>1, Invariance, PTL DEF Spec, DrawsNewest

-----------------------------------------------------------------------------
\* What the display is sampling, as FrameRegister sees it.
Sampled == IF ui = "sampling" THEN picture[draw_idx] ELSE 0

\* Every step of the pool is a step of the register, or leaves it alone.
LEMMA StepRegister ==
  ASSUME DrawTicks < SleepTicks, IInv, [Next]_vars
  PROVE  [Register!RegNext]_<<latest, Sampled>>
<1> USE DEF IInv, Sampled
<1>1. CASE Setup \/ Release
  <2>1. ui = "idle" /\ ui' = "idle" /\ latest' = 0
    BY <1>1, FrameBoundAssumption DEF Setup, Release, ResetRuntimeState, Lifecycle, TypeOK
  <2> QED
    BY <2>1 DEF Register!RegNext, Register!Restart
<1>2. CASE GetPicture
  <2>1. ui = "sampling" => picture'[draw_idx] = picture[draw_idx]
    BY <1>2 DEF GetPicture, Lifecycle, RolesApart, TypeOK
  <2> QED
    BY <1>2, <2>1 DEF GetPicture
<1>3. CASE Enqueue
  <2>1. ui = "sampling" => picture'[draw_idx] = picture[draw_idx]
    BY <1>3 DEF Enqueue, Lifecycle, RolesApart, TypeOK
  <2>2. latest' = decoded + 1 /\ decoded \in Nat /\ latest \in Nat /\ latest <= decoded
    BY <1>3 DEF Enqueue, TypeOK, Contents
  <2> QED
    BY <1>3, <2>1, <2>2 DEF Enqueue, Register!RegNext, Register!Publish
<1>4. CASE StopVideo \/ DrawCheck \/ Tick
  BY <1>4 DEF StopVideo, DrawCheck, Tick
<1>5. CASE DrawTake
  <2>1. ui = "checked" /\ ui' \in {"idle", "sampling"} /\ UNCHANGED <<picture, latest>>
    BY <1>5 DEF DrawTake
  <2> QED
    BY <1>5, <2>1, TakeNewest DEF Register!RegNext, Register!Sample
<1>6. CASE DrawEnd
  BY <1>6 DEF DrawEnd, Register!RegNext, Register!Finish
<1>7. CASE UNCHANGED vars
  BY <1>7 DEF vars, poolVars
<1> QED
  BY <1>1, <1>2, <1>3, <1>4, <1>5, <1>6, <1>7 DEF Next, MainStep, UiStep

\* The pool of buffers implements a register that always holds the newest
\* picture and never changes while it is read.
THEOREM ImplementsRegister ==
  ASSUME DrawTicks < SleepTicks
  PROVE  Spec => RegisterSpec
<1>1. Init => Register!RegInit
  BY DEF Init, Register!RegInit
<1>2. IInv /\ [Next]_vars => [Register!RegNext]_Register!regVars
  BY StepRegister DEF Register!regVars, Sampled
<1> QED
  BY <1>1, <1>2, Invariance, PTL DEF Spec, RegisterSpec, Register!RegSpec
=============================================================================
