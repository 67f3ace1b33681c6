-------------------------- MODULE VdecInputProofs --------------------------
(***************************************************************************)
(* What the input side of the decoder guarantees for any number of         *)
(* bitstream buffers and any depth of VDEC's own queue.  Of the code as it *)
(* is, with updates that are lost and errors that VDEC raises: units are   *)
(* consumed in order, the counter stays within two of its range, and it    *)
(* never counts as full with nothing under way.  As long as the updates of *)
(* vdec_au_pending are indivisible and VDEC raises no error: the counter   *)
(* is exact and no buffer is overwritten while VDEC may read it.           *)
(***************************************************************************)
EXTENDS VdecInput, TLAPS

-----------------------------------------------------------------------------
(* Arithmetic of the ring of buffers. *)

\* A remainder does not see a whole turn.
LEMMA ModPeriod ==
  ASSUME NEW n \in Nat \ {0}, NEW x \in Int
  PROVE  (x + n) % n = x % n
<1> DEFINE q == x \div n   r == x % n   p == (x + n) \div n   s == (x + n) % n
<1>1. q \in Int /\ p \in Int /\ r \in 0 .. n - 1 /\ s \in 0 .. n - 1
  OBVIOUS
<1>2. x = n * q + r /\ x + n = n * p + s
  OBVIOUS
<1> HIDE DEF q, r, p, s
<1>3. n * (p - q - 1) = r - s
  BY <1>1, <1>2
<1>4. p - q - 1 = 0
  <2>1. p - q - 1 >= 1 => n * (p - q - 1) >= n
    BY <1>1
  <2>2. p - q - 1 <= -1 => n * (p - q - 1) <= -n
    BY <1>1
  <2> QED BY <1>1, <1>3, <2>1, <2>2
<1>5. r = s
  BY <1>1, <1>3, <1>4
<1> QED BY <1>5 DEF r, s

\* Moving the front on by one and counting one more step back comes to the same
\* buffer, also when that is more than a turn.
LEMMA StepBack ==
  ASSUME NEW n \in Nat \ {0}, NEW f \in 0 .. n - 1, NEW k \in Nat
  PROVE  (((f + 1) % n) - (k + 1)) % n = (f - k) % n
<1>1. CASE f + 1 < n
  <2>1. (f + 1) % n = f + 1
    BY <1>1
  <2>2. (f + 1) - (k + 1) = f - k
    OBVIOUS
  <2> QED BY <2>1, <2>2
<1>2. CASE f + 1 = n
  <2>1. (f + 1) % n = 0
    BY <1>2
  <2>2. 0 - (k + 1) \in Int /\ (0 - (k + 1)) + n = f - k
    BY <1>2
  <2>3. ((0 - (k + 1)) + n) % n = (0 - (k + 1)) % n
    BY <2>2, ModPeriod
  <2> QED BY <2>1, <2>2, <2>3
<1> QED BY <1>1, <1>2

\* The last buffer filled is the one before the front.
LEMMA LastFilled ==
  ASSUME NEW n \in Nat \ {0}, NEW f \in 0 .. n - 1
  PROVE  /\ (f + 1) % n \in 0 .. n - 1
         /\ (((f + 1) % n) - 1) % n = f
<1>1. (((f + 1) % n) - (0 + 1)) % n = (f - 0) % n
  BY StepBack
<1>2. (f - 0) % n = f
  OBVIOUS
<1> QED BY <1>1, <1>2

\* Fewer than n steps back from the front never lead to the front.
LEMMA NotFront ==
  ASSUME NEW n \in Nat \ {0}, NEW f \in 0 .. n - 1, NEW k \in 1 .. n - 1
  PROVE  (f - k) % n # f
<1>1. CASE k <= f
  <2>1. (f - k) % n = f - k
    BY <1>1
  <2> QED BY <2>1
<1>2. CASE k > f
  <2>1. (f - k) % n = f - k + n
    BY <1>2
  <2> QED BY <2>1
<1> QED BY <1>1, <1>2

-----------------------------------------------------------------------------
(* The order of the units. *)

Order ==
  /\ hw \in Seq(Buf) /\ Len(hw) <= HwDepth
  /\ vdec_front \in Buf
  /\ ConsumedInOrder

\* Appending the filled buffer and moving the front on keeps what VDEC holds in
\* order.
LEMMA AcceptedInOrder ==
  ASSUME Order, Accepted
  PROVE  Order'
<1> USE VdecInputAssumption
<1>1. hw \in Seq(Buf) /\ vdec_front \in Buf /\ Len(hw) < HwDepth
  BY DEF Order, Accepted
<1>2. /\ hw' = Append(hw, vdec_front)
      /\ hw' \in Seq(Buf) /\ Len(hw') = Len(hw) + 1
      /\ vdec_front' = (vdec_front + 1) % VDEC_BUF_COUNT
  BY <1>1 DEF Accepted
<1>3. /\ vdec_front' \in Buf
      /\ (vdec_front' - 1) % VDEC_BUF_COUNT = vdec_front
  BY <1>1, <1>2, LastFilled DEF Buf
<1>4. ASSUME NEW i \in 1 .. Len(hw')
      PROVE  hw'[i] = (vdec_front' - (Len(hw') + 1 - i)) % VDEC_BUF_COUNT
  <2>1. CASE i = Len(hw')
    <3>1. hw'[i] = vdec_front /\ Len(hw') + 1 - i = 1
      BY <1>1, <1>2, <2>1
    <3> QED BY <3>1, <1>3
  <2>2. CASE i \in 1 .. Len(hw)
    <3> DEFINE k == Len(hw) + 1 - i
    <3>1. hw'[i] = hw[i] /\ hw[i] = (vdec_front - k) % VDEC_BUF_COUNT
      BY <1>1, <1>2, <2>2 DEF Order, ConsumedInOrder
    <3>2. k \in Nat /\ Len(hw') + 1 - i = k + 1
      BY <1>1, <1>2, <2>2
    <3>3. (vdec_front' - (k + 1)) % VDEC_BUF_COUNT = (vdec_front - k) % VDEC_BUF_COUNT
      BY <1>1, <1>2, <3>2, StepBack DEF Buf
    <3> QED BY <3>1, <3>2, <3>3
  <2>3. i = Len(hw') \/ i \in 1 .. Len(hw)
    BY <1>1, <1>2
  <2> QED BY <2>1, <2>2, <2>3
<1>5. ConsumedInOrder'
  BY <1>4 DEF ConsumedInOrder
<1> QED BY <1>1, <1>2, <1>3, <1>5 DEF Order

\* So does the consumption of the oldest unit.
LEMMA ConsumedFirst ==
  ASSUME Order, AuDone
  PROVE  Order'
<1>1. hw \in Seq(Buf) /\ hw # <<>> /\ hw' = Tail(hw) /\ vdec_front' = vdec_front
  BY DEF Order, AuDone, subVars
<1>2. hw' \in Seq(Buf) /\ Len(hw') \in Nat /\ Len(hw) = Len(hw') + 1
  BY <1>1
<1>3. ASSUME NEW i \in 1 .. Len(hw')
      PROVE  hw'[i] = (vdec_front' - (Len(hw') + 1 - i)) % VDEC_BUF_COUNT
  <2>1. hw'[i] = hw[i + 1] /\ i + 1 \in 1 .. Len(hw)
    BY <1>1, <1>2
  <2>2. hw[i + 1] = (vdec_front - (Len(hw) + 1 - (i + 1))) % VDEC_BUF_COUNT
    BY <2>1 DEF Order, ConsumedInOrder
  <2>3. Len(hw) + 1 - (i + 1) = Len(hw') + 1 - i
    BY <1>2
  <2> QED BY <1>1, <2>1, <2>2, <2>3
<1>4. ConsumedInOrder'
  BY <1>3 DEF ConsumedInOrder
<1>5. Len(hw') <= HwDepth
  BY <1>2, VdecInputAssumption DEF Order
<1> QED BY <1>1, <1>2, <1>4, <1>5 DEF Order

LEMMA OrderStep ==
  ASSUME Order, [Next]_vars
  PROVE  Order'
<1> USE DEF subVars, cbVars
<1>1. CASE UNCHANGED <<hw, vdec_front>>
  BY <1>1 DEF Order, ConsumedInOrder
<1>2. CASE Decode
  BY <1>1, <1>2, AcceptedInOrder DEF Decode, Refused
<1>3. CASE hw' = <<>> /\ vdec_front' \in Buf
  <2>1. hw' \in Seq(Buf) /\ Len(hw') = 0
    BY <1>3
  <2> QED BY <1>3, <2>1, VdecInputAssumption DEF Order, ConsumedInOrder
<1>5. CASE ErrorCallback
  BY <1>1, <1>3, <1>5 DEF ErrorCallback, Order
<1>6. CASE Restart
  <2>1. 0 \in Buf
    BY VdecInputAssumption DEF Buf
  <2> QED BY <1>3, <1>6, <2>1 DEF Restart
<1>4. CASE Submit \/ Fill \/ Increment \/ Undo \/ Fail \/ CallbackStep \/ UNCHANGED vars
  BY <1>1, <1>4 DEF Submit, Fill, Increment, Undo, LoadCounter, StoreCounter, Fail,
                    CallbackStep, CbCheck, CbLoad, CbStore, vars
<1> QED BY <1>2, <1>4, <1>5, <1>6, ConsumedFirst DEF Next, SubmitStep

\* Access units are decoded in the order in which they were submitted, whatever updates
\* of the counter are lost and whatever VDEC refuses or gives up, also when it holds more
\* units than there are buffers (src/video.c 725-760).
THEOREM AlwaysInOrder == Spec => []ConsumedInOrder
<1>1. Init => Order
  <2> SUFFICES ASSUME Init PROVE Order
    OBVIOUS
  <2>1. hw \in Seq(Buf) /\ Len(hw) = 0 /\ vdec_front \in Buf
    BY VdecInputAssumption DEF Init, Buf
  <2> QED BY <2>1, VdecInputAssumption DEF Order, ConsumedInOrder
<1>2. Order => ConsumedInOrder
  BY DEF Order
<1> QED BY <1>1, <1>2, OrderStep, PTL DEF Spec

-----------------------------------------------------------------------------
(* How far the counter strays. *)

\* The unit that is counted and not yet VDEC's may be taken back.
Counted == IF sub \in {"decode", "retry", "undo", "undoStore"} THEN 1 ELSE 0

\* What the values that were loaded, and may be stored late, have to do with the
\* counter: the decoder thread's is stale only in being too high, and the callback
\* thread loads only what it has seen above zero.
Drift ==
  /\ vdec_au_pending - Counted >= -2
  /\ sub \in {"fill", "inc", "incStore"} => vdec_au_pending < VDEC_BUF_COUNT
  /\ sub = "incStore" => sub_load < VDEC_BUF_COUNT
  /\ sub = "undoStore" => sub_load >= -1
  /\ sub \in {"incStore", "undoStore"} => vdec_au_pending <= sub_load \/ vdec_au_pending <= 0
  /\ cb = "load" =>
       /\ vdec_au_pending - Counted >= 0
       /\ sub = "incStore" => sub_load >= 0
       /\ sub = "undoStore" => sub_load >= 1
  /\ cb = "store" =>
       /\ cb_load >= 0
       /\ vdec_au_pending - Counted >= cb_load - 1
       /\ sub = "incStore" => sub_load >= cb_load - 1
       /\ sub = "undoStore" => sub_load >= cb_load

CInv == TypeOK /\ Order /\ Drift

LEMMA DriftStep ==
  ASSUME CInv, [Next]_vars
  PROVE  TypeOK' /\ Drift'
<1> USE VdecInputAssumption DEF subVars, cbVars, Counted
<1>0. TypeOK /\ Drift /\ Order'
  BY OrderStep DEF CInv
<1>t. /\ hw' \in Seq(Buf) /\ Len(hw') <= HwDepth /\ vdec_front' \in Buf
      /\ vdec_au_pending \in -2 .. VDEC_BUF_COUNT
      /\ sub_load \in -2 .. VDEC_BUF_COUNT /\ cb_load \in -2 .. VDEC_BUF_COUNT
  BY <1>0 DEF Order, TypeOK, MinPending
<1> USE DEF MinPending
<1>1. CASE Submit
  BY <1>0, <1>t, <1>1 DEF Submit, Return, TypeOK, Drift
<1>2. CASE Fill
  BY <1>0, <1>t, <1>2 DEF Fill, Return, TypeOK, Drift
<1>3. CASE Increment
  <2>1. CASE LoadCounter("inc", "incStore", "decode", 1)
    BY <1>0, <1>t, <2>1 DEF LoadCounter, TypeOK, Drift
  <2>2. CASE StoreCounter("incStore", "decode", 1)
    BY <1>0, <1>t, <2>2 DEF StoreCounter, TypeOK, Drift
  <2> QED BY <1>3, <2>1, <2>2 DEF Increment
<1>4. CASE Undo
  <2>1. CASE LoadCounter("undo", "undoStore", "fail", -1)
    <3>1. Atomic => vdec_au_pending' = vdec_au_pending - 1
      BY <1>t, <2>1 DEF LoadCounter
    <3> QED BY <1>0, <1>t, <2>1, <3>1 DEF LoadCounter, TypeOK, Drift
  <2>2. CASE StoreCounter("undoStore", "fail", -1)
    <3>1. vdec_au_pending' = sub_load - 1
      BY <1>t, <2>2 DEF StoreCounter
    <3> QED BY <1>0, <1>t, <2>2, <3>1 DEF StoreCounter, TypeOK, Drift
  <2> QED BY <1>4, <2>1, <2>2 DEF Undo
<1>5. CASE Decode
  <2>1. /\ sub \in {"decode", "retry"} /\ sub' \in {"idle", "retry", "undo"}
        /\ UNCHANGED <<vdec_au_pending, sub_load, cb, cb_load>>
        /\ status' = "DR_OK" \/ UNCHANGED status
    BY <1>5 DEF Decode, Accepted, Refused, Return
  <2>2. TypeOK'
    BY <1>0, <1>t, <2>1 DEF TypeOK
  <2>3. /\ vdec_au_pending - 1 >= -2
        /\ cb = "load" => vdec_au_pending - 1 >= 0
        /\ cb = "store" => cb_load >= 0 /\ vdec_au_pending - 1 >= cb_load - 1
    BY <1>0, <1>t, <2>1 DEF Drift
  <2>4. sub' \notin {"fill", "inc", "incStore", "undoStore"}
    BY <2>1
  <2>5. CASE sub' = "idle"
    <3>1. Counted' = 0
      BY <2>5
    <3>2. /\ vdec_au_pending - 0 >= -2
          /\ cb = "load" => vdec_au_pending - 0 >= 0
          /\ cb = "store" => vdec_au_pending - 0 >= cb_load - 1
      BY <1>t, <2>3
    <3> HIDE DEF Counted
    <3> QED BY <2>1, <2>2, <2>3, <2>4, <3>1, <3>2 DEF Drift
  <2>6. CASE sub' # "idle"
    <3>1. Counted' = 1
      BY <2>1, <2>6
    <3> HIDE DEF Counted
    <3> QED BY <2>1, <2>2, <2>3, <2>4, <3>1 DEF Drift
  <2> QED BY <2>5, <2>6
<1>6. CASE Fail
  BY <1>0, <1>t, <1>6 DEF Fail, Return, TypeOK, Drift
<1>7. CASE AuDone
  BY <1>0, <1>t, <1>7 DEF AuDone, TypeOK, Drift
<1>8. CASE CallbackStep
  <2>1. CASE CbCheck
    BY <1>0, <1>t, <2>1 DEF CbCheck, TypeOK, Drift
  <2>2. CASE CbLoad
    BY <1>0, <1>t, <2>2 DEF CbLoad, TypeOK, Drift
  <2>3. CASE CbStore
    BY <1>0, <1>t, <2>3 DEF CbStore, TypeOK, Drift
  <2> QED BY <1>8, <2>1, <2>2, <2>3 DEF CallbackStep
<1>9. CASE ErrorCallback
  BY <1>0, <1>t, <1>9 DEF ErrorCallback, TypeOK, Drift
<1>10. CASE Restart
  BY <1>0, <1>t, <1>10 DEF Restart, TypeOK, Drift
<1>11. CASE UNCHANGED vars
  BY <1>0, <1>11 DEF vars, TypeOK, Drift
<1> QED BY <1>1, <1>2, <1>3, <1>4, <1>5, <1>6, <1>7, <1>8, <1>9, <1>10, <1>11
        DEF Next, SubmitStep

\* The inductive invariant of the code as it is.
LEMMA DriftInvariant == Spec => []CInv
<1>1. Init => CInv
  <2> SUFFICES ASSUME Init PROVE CInv
    OBVIOUS
  <2>1. hw \in Seq(Buf) /\ Len(hw) = 0 /\ vdec_front \in Buf
    BY VdecInputAssumption DEF Init, Buf
  <2> QED BY <2>1, VdecInputAssumption
          DEF Init, CInv, Order, ConsumedInOrder, TypeOK, MinPending, Drift, Counted
<1>2. CInv /\ [Next]_vars => CInv'
  BY DriftStep, OrderStep DEF CInv
<1> QED BY <1>1, <1>2, PTL DEF Spec

\* However many updates are lost and however often VDEC raises an error, the counter
\* strays no further than two below zero and never above the number of buffers: the loss
\* does not add up (src/video.c 225-232, 725, 744).
THEOREM TypeCorrect == Spec => []TypeOK
<1>1. CInv => TypeOK
  BY DEF CInv
<1> QED BY <1>1, DriftInvariant, PTL

\* The counter reaches the number of buffers only when a unit is counted, and that
\* unit goes to VDEC or is taken back; each way a thread lowers the counter, also with
\* a stale value, ends below it.
Busy ==
  vdec_au_pending >= VDEC_BUF_COUNT =>
    \/ sub \in {"decode", "retry", "undo", "undoStore"}
    \/ cb # "idle"
    \/ hw # <<>>

LEMMA BusyStep ==
  ASSUME CInv, Busy, [Next]_vars
  PROVE  Busy'
<1> USE VdecInputAssumption DEF subVars, cbVars
<1>0. /\ vdec_au_pending \in -2 .. VDEC_BUF_COUNT
      /\ sub_load \in -2 .. VDEC_BUF_COUNT /\ cb_load \in -2 .. VDEC_BUF_COUNT
      /\ hw \in Seq(Buf)
  BY DEF CInv, TypeOK, MinPending
<1>1. CASE Submit \/ Fill \/ Fail
  BY <1>1 DEF Submit, Fill, Fail, Return, Busy
<1>2. CASE Increment
  BY <1>2 DEF Increment, LoadCounter, StoreCounter, Busy
<1>3. CASE Undo
  <2>1. sub' = "undoStore" \/ ~(vdec_au_pending' >= VDEC_BUF_COUNT)
    BY <1>0, <1>3 DEF Undo, LoadCounter, StoreCounter
  <2>2. UNCHANGED <<cb, hw>>
    BY <1>3 DEF Undo, LoadCounter, StoreCounter
  <2> QED BY <2>1, <2>2 DEF Busy
<1>4. CASE Decode
  <2>1. vdec_au_pending' = vdec_au_pending /\ (hw' # <<>> \/ sub' \in {"retry", "undo"})
    BY <1>0, <1>4 DEF Decode, Accepted, Refused
  <2> QED BY <2>1 DEF Busy
<1>5. CASE AuDone
  BY <1>5 DEF AuDone, Busy
<1>6. CASE CallbackStep
  <2>1. cb' # "idle" \/ vdec_au_pending' < VDEC_BUF_COUNT
    BY <1>0, <1>6 DEF CallbackStep, CbCheck, CbLoad, CbStore
  <2> QED BY <2>1, <1>0, <1>6 DEF CallbackStep, CbCheck, CbLoad, CbStore, Busy
<1>7. CASE ErrorCallback \/ Restart
  BY <1>7 DEF ErrorCallback, Restart, Busy
<1>8. CASE UNCHANGED vars
  BY <1>8 DEF vars, Busy
<1> QED BY <1>1, <1>2, <1>3, <1>4, <1>5, <1>6, <1>7, <1>8 DEF Next, SubmitStep

\* Lost updates may raise the counter for good, but never so far that the decoder drops
\* every unit while VDEC has nothing to do (src/video.c 618-623, 225-232, 725, 744).
THEOREM NeverStuckFull == Spec => []FullIsBusy
<1>1. Init => Busy
  BY VdecInputAssumption DEF Init, Busy
<1>2. CInv /\ Busy /\ [Next]_vars => Busy'
  BY BusyStep
<1>3. Busy => FullIsBusy
  BY DEF Busy, FullIsBusy
<1> QED BY <1>1, <1>2, <1>3, DriftInvariant, PTL DEF Spec

-----------------------------------------------------------------------------
(* The protocol without the race. *)

\* The counter is exact and leaves room for the unit that is being prepared, and the
\* steps of an update that is not indivisible are never reached.
Exact ==
  /\ PendingIsExact
  /\ sub \in {"fill", "inc"} => vdec_au_pending < VDEC_BUF_COUNT
  /\ sub \notin {"incStore", "undoStore"} /\ cb \notin {"load", "store"}

LEMMA ExactStep ==
  ASSUME Atomic, ~Errors, CInv, Exact, [Next]_vars
  PROVE  Exact'
<1> USE VdecInputAssumption DEF subVars, cbVars
<1>0. /\ Exact /\ hw \in Seq(Buf) /\ Len(hw) \in Nat
      /\ vdec_au_pending = Len(hw) + InHandover + InCallback
  BY DEF CInv, Order, Exact, PendingIsExact
<1>a. /\ InHandover = IF sub \in {"decode", "retry", "undo"} THEN 1 ELSE 0
      /\ InHandover' = IF sub' \in {"decode", "retry", "undo"} THEN 1 ELSE 0
      /\ InHandover \in {0, 1} /\ InHandover' \in {0, 1}
  BY DEF InHandover
<1>b. /\ InCallback = IF cb = "check" THEN 1 ELSE 0
      /\ InCallback' = IF cb' = "check" THEN 1 ELSE 0
      /\ InCallback \in {0, 1} /\ InCallback' \in {0, 1}
  BY DEF InCallback
<1>1. CASE Submit
  BY <1>0, <1>a, <1>b, <1>1 DEF Submit, Return, Exact, PendingIsExact
<1>2. CASE Fill
  BY <1>0, <1>a, <1>b, <1>2 DEF Fill, Return, Exact, PendingIsExact
<1>3. CASE Increment
  <2>1. /\ sub = "inc" /\ sub' = "decode" /\ vdec_au_pending' = vdec_au_pending + 1
        /\ UNCHANGED <<cb, hw>>
    BY <1>0, <1>3 DEF Increment, LoadCounter, StoreCounter, Exact
  <2> QED BY <1>0, <1>a, <1>b, <2>1 DEF Exact, PendingIsExact
<1>4. CASE Undo
  <2>1. /\ sub = "undo" /\ sub' = "fail" /\ vdec_au_pending' = vdec_au_pending + (-1)
        /\ UNCHANGED <<cb, hw>>
    BY <1>0, <1>4 DEF Undo, LoadCounter, StoreCounter, Exact
  <2>2. vdec_au_pending' = vdec_au_pending - 1
    BY <1>0, <2>1
  <2> QED BY <1>0, <1>a, <1>b, <2>1, <2>2 DEF Exact, PendingIsExact
<1>5. CASE Decode
  <2>1. sub \in {"decode", "retry"} /\ UNCHANGED <<vdec_au_pending, cb>>
    BY <1>5 DEF Decode
  <2>2. CASE Accepted
    <3>1. sub' = "idle" /\ Len(hw') = Len(hw) + 1
      BY <1>0, <2>2 DEF Accepted, Return
    <3> QED BY <1>0, <1>a, <1>b, <2>1, <3>1 DEF Exact, PendingIsExact
  <2>3. CASE ~Accepted
    <3>1. hw' = hw /\ sub' \in {"retry", "undo"}
      BY <1>5, <2>3 DEF Decode, Refused
    <3> QED BY <1>0, <1>a, <1>b, <2>1, <3>1 DEF Exact, PendingIsExact
  <2> QED BY <2>2, <2>3
<1>6. CASE Fail
  BY <1>0, <1>a, <1>b, <1>6 DEF Fail, Return, Exact, PendingIsExact
<1>7. CASE AuDone
  <2>1. /\ cb = "idle" /\ cb' = "check" /\ Len(hw) = Len(hw') + 1 /\ Len(hw') \in Nat
        /\ UNCHANGED <<vdec_au_pending, sub>>
    BY <1>0, <1>7 DEF AuDone
  <2> QED BY <1>0, <1>a, <1>b, <2>1 DEF Exact, PendingIsExact
<1>8. CASE CallbackStep
  <2>1. CbCheck
    BY <1>0, <1>8 DEF CallbackStep, CbLoad, CbStore, Exact
  <2>2. vdec_au_pending > 0
    BY <1>0, <1>a, <1>b, <2>1 DEF CbCheck
  <2>3. /\ cb = "check" /\ cb' = "idle" /\ vdec_au_pending' = vdec_au_pending - 1
        /\ UNCHANGED <<sub, hw>>
    BY <2>1, <2>2 DEF CbCheck
  <2> QED BY <1>0, <1>a, <1>b, <2>3 DEF Exact, PendingIsExact
<1>9. CASE ErrorCallback
  BY <1>9 DEF ErrorCallback
<1>10. CASE Restart
  <2>1. Len(hw') = 0
    BY <1>10 DEF Restart
  <2> QED BY <1>0, <1>a, <1>b, <1>10, <2>1 DEF Restart, Exact, PendingIsExact
<1>11. CASE UNCHANGED vars
  BY <1>0, <1>a, <1>b, <1>11 DEF vars, Exact, PendingIsExact
<1> QED BY <1>1, <1>2, <1>3, <1>4, <1>5, <1>6, <1>7, <1>8, <1>9, <1>10, <1>11
        DEF Next, SubmitStep

\* The inductive invariant of the protocol without the race.
LEMMA ExactInvariant ==
  ASSUME Atomic, ~Errors
  PROVE  Spec => [](CInv /\ Exact)
<1>1. Init => Exact
  BY VdecInputAssumption DEF Init, Exact, PendingIsExact, InHandover, InCallback
<1>2. CInv /\ Exact /\ [Next]_vars => Exact'
  BY ExactStep
<1> QED BY <1>1, <1>2, DriftInvariant, PTL DEF Spec

\* vdec_au_pending is exactly the number of units VDEC holds, is being handed or
\* has just finished with.
THEOREM CounterIsExact ==
  ASSUME Atomic, ~Errors
  PROVE  Spec => []PendingIsExact
<1>1. Exact => PendingIsExact
  BY DEF Exact
<1> QED BY <1>1, ExactInvariant, PTL

\* The decoder thread never fills or reallocates a buffer VDEC may still read,
\* however deep VDEC's own queue is.
THEOREM BuffersAreOwned ==
  ASSUME Atomic, ~Errors
  PROVE  Spec => []BufferOwnership
<1>1. CInv /\ Exact => BufferOwnership
  <2> SUFFICES ASSUME CInv, Exact, sub = "fill", NEW i \in 1 .. Len(hw), hw[i] = vdec_front
               PROVE  FALSE
    BY DEF BufferOwnership, Held
  <2> USE VdecInputAssumption
  <2>1. vdec_front \in 0 .. VDEC_BUF_COUNT - 1 /\ Len(hw) \in Nat
    BY DEF CInv, Order, Buf
  <2>2. Len(hw) < VDEC_BUF_COUNT
    BY <2>1 DEF Exact, PendingIsExact, InHandover, InCallback
  <2>3. Len(hw) + 1 - i \in 1 .. VDEC_BUF_COUNT - 1
    BY <2>1, <2>2
  <2>4. hw[i] = (vdec_front - (Len(hw) + 1 - i)) % VDEC_BUF_COUNT
    BY DEF CInv, Order, ConsumedInOrder
  <2> QED BY <2>1, <2>3, <2>4, NotFront
<1> QED BY <1>1, ExactInvariant, PTL
=============================================================================
